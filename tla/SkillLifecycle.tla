--------------------------- MODULE SkillLifecycle ---------------------------
(***************************************************************************)
(* The lifecycle of a skill: submission and registration                   *)
(* (gateway/router.py, marketplace_api/router.py, inventory/service.py),   *)
(* the sync of lifecycle states with issued verdicts (worker.py), manual   *)
(* reviews (gate/reviews.py) and the administrators' routes                *)
(* (inventory/router.py).                                                  *)
(*                                                                         *)
(* Every transaction that appends a lifecycle event is two steps: it reads *)
(* the latest event without a lock, and later it commits what it computed  *)
(* from that read.  Whatever another transaction commits in between goes   *)
(* unseen, as under MySQL's consistent reads.  The event table only grows, *)
(* so a snapshot of it is the number of rows it had.                       *)
(***************************************************************************)
EXTENDS Naturals, Sequences, FiniteSetsExt

CONSTANTS Skills, Contents, Toolchains, Replicas, None,
          Users, Admins,  \* who submits and reviews; who has the admin role
          Scenarios       \* bounds: submissions that are started, changes
                          \* (administrators' requests, new toolchains),
                          \* the skills, users and replicas that take part

VARIABLES owner,      \* skill.owner; None: no row, "nobody": NULL
          version,    \* skill_version: the skill a content is registered to
          events,     \* skill_lifecycle_event, in id order
          baseline,   \* baseline row: content_hash and approved_at, or None
          toolchain,  \* the toolchain digest of a new submission
          job,        \* scan_submitter rows by scan; {} without a scan_job row
          verdict,    \* verdict.verdict by scan, None without a row
          passed,     \* scans whose verdict has ever been PASS
          reported,   \* scans reported as stranded
          req,        \* a user's request: submission, review or none
          adm,        \* an administrator's request
          sync,       \* local state of sync_lifecycle_tick in a replica
          budget        \* what the bounds leave

lifeVars == <<owner, version, events, baseline, toolchain, job, verdict,
              passed, reported, req, adm, sync, budget>>

Nobody == "nobody"
Worker == "system:worker"
Admin == "admin"

ValidTransitions ==
    [submitted      |-> {"scanning"},
     scanning       |-> {"published", "review_pending", "retired", "blocked"},
     review_pending |-> {"published", "retired", "submitted"},
     published      |-> {"quarantined", "retired", "submitted"},
     quarantined    |-> {"published", "retired"},
     blocked        |-> {"scanning", "retired", "submitted"},
     retired        |-> {}]

WaitingStates == {"scanning", "review_pending"}

\* validate_transition: a skill without history may only be submitted.
ValidateTransition(from, to) ==
    IF from = None THEN to = "submitted" ELSE to \in ValidTransitions[from]

\* A scan is named by its cache key, which is unique in scan_job.
Scans == Contents \X Toolchains
VerdictTarget == [PASS |-> "published", REVIEW |-> "review_pending",
                  BLOCK |-> "blocked"]

Event(k, from, to, c, s, by) ==
    [skill |-> k, from |-> from, to |-> to, content |-> c, scan |-> s, by |-> by]

States == DOMAIN ValidTransitions

\* Rows of skill_lifecycle_event
EventRow == [skill : Skills, from : States \cup {None}, to : States,
             content : Contents \cup {None}, scan : Scans \cup {None},
             by : Users \cup {Nobody, Worker, Admin}]

\* NULL is no value of a column, and no user is called like the worker.
ASSUME LifecycleAssumption ==
    /\ Contents # {} /\ Toolchains # {}
    /\ \A b \in Scenarios : b.skills # {} /\ b.skills \subseteq Skills
    /\ None \notin Skills \cup Contents \cup Users \cup {Nobody}
    /\ None \notin Scans \cup States \cup DOMAIN VerdictTarget
    /\ None \notin EventRow
    /\ Worker \notin Users

(***************************************************************************)
(* Reads of the first n rows of the event table.                           *)
(***************************************************************************)

\* Index of the last of the first n rows that is about the skill, or 0.
LastOf(rows, n, k) == Max({0} \cup {i \in 1..n : rows[i].skill = k})

LatestEvent(n, k) ==
    LET i == LastOf(events, n, k) IN IF i = 0 THEN None ELSE events[i]

CurrentState(n, k) ==
    LET e == LatestEvent(n, k) IN IF e = None THEN None ELSE e.to

\* The content the skill was last published at; events that name none are
\* skipped.
PriorPublished(n, k) ==
    LET i == Max({0} \cup {j \in 1..n : /\ events[j].skill = k
                                        /\ events[j].to = "published"
                                        /\ events[j].content # None})
    IN  IF i = 0 THEN None ELSE events[i].content

Now == Len(events)

(***************************************************************************)
(* Submission.  The pre-flight reads, then the transaction of submit_scan, *)
(* then the inventory transaction, whose failure leaves the scan behind.   *)
(***************************************************************************)

Idle == [pc |-> "idle"]

\* An administrator may write any skill, from the console.
AuthorizeSkillWrite(u, k, isAdmin) == isAdmin \/ owner[k] \in {None, u}

ContentFree(c, k) == version[c] \in {None, k}

StartSubmission(u, k, c, isAdmin) ==
    /\ req[u] = Idle /\ u \in budget.users /\ k \in budget.skills
    /\ budget.submissions > 0 /\ budget' = [budget EXCEPT !.submissions = @ - 1]
    /\ AuthorizeSkillWrite(u, k, isAdmin)
    /\ ContentFree(c, k)
    /\ ValidateTransition(CurrentState(Now, k), "submitted")
    /\ req' = [req EXCEPT ![u] = [pc |-> "submit", skill |-> k, content |-> c,
                                  admin |-> isAdmin]]
    /\ UNCHANGED <<owner, version, events, baseline, toolchain, job, verdict,
                   passed, reported, adm, sync>>

\* create_scan of the gateway, and of the marketplace: there a service account
\* is never treated as an administrator.
Preflight(u, k, c) == StartSubmission(u, k, c, u \in Admins)

MarketPreflight(u, k, c) == StartSubmission(u, k, c, FALSE)

\* submit_scan: an existing scan of the same cache key is joined.
SubmitScan(u) ==
    /\ req[u].pc = "submit"
    /\ LET s == <<req[u].content, toolchain>>
       IN  /\ job' = [job EXCEPT ![s] = @ \cup {u}]
           /\ req' = [req EXCEPT ![u] = [pc |-> "register", skill |-> @.skill,
                          content |-> @.content, admin |-> @.admin, scan |-> s]]
    /\ UNCHANGED <<owner, version, events, baseline, toolchain, verdict,
                   passed, reported, adm, sync, budget>>

\* The reads of register_skill_version; an error ends the request.
RegisterRead(u) ==
    /\ req[u].pc = "register"
    /\ LET k == req[u].skill
           ok == /\ AuthorizeSkillWrite(u, k, req[u].admin)
                 /\ ContentFree(req[u].content, k)
                 /\ ValidateTransition(CurrentState(Now, k), "submitted")
       IN  req' = [req EXCEPT ![u] =
                       IF ok THEN [pc |-> "commit", skill |-> k,
                                   content |-> @.content, scan |-> @.scan, n |-> Now,
                                   newSkill |-> owner[k] = None,
                                   newVersion |-> version[@.content] = None]
                       ELSE Idle]
    /\ UNCHANGED <<owner, version, events, baseline, toolchain, job, verdict,
                   passed, reported, adm, sync, budget>>

\* Variant: overwrites a version row that another skill inserted meanwhile.
ClashOnSkillOnly(q) == q.newSkill /\ owner[q.skill] # None

\* The rows it inserts have primary keys: a row that appeared since the read
\* fails the transaction.
Clash(q) == \/ q.newSkill /\ owner[q.skill] # None
            \/ q.newVersion /\ version[q.content] # None

RegisterCommit(u) ==
    /\ req[u].pc = "commit"
    /\ LET q == req[u]
           k == q.skill
       IN  IF Clash(q)
           THEN UNCHANGED <<owner, version, events>>
           ELSE /\ owner' = IF q.newSkill THEN [owner EXCEPT ![k] = u] ELSE owner
                /\ version' = IF q.newVersion
                               THEN [version EXCEPT ![q.content] = k] ELSE version
                /\ events' = events \o
                     << Event(k, CurrentState(q.n, k), "submitted", q.content, None, u),
                        Event(k, "submitted", "scanning", q.content, q.scan, u) >>
    /\ req' = [req EXCEPT ![u] = Idle]
    /\ UNCHANGED <<baseline, toolchain, job, verdict, passed, reported, adm, sync, budget>>

(***************************************************************************)
(* Verdicts: the pipeline issues one per scan; a REVIEW is decided by a    *)
(* reviewer who submitted nothing of the scan.                             *)
(***************************************************************************)

IssueVerdict(s) ==
    /\ job[s] # {} /\ verdict[s] = None
    /\ \E v \in DOMAIN VerdictTarget :
           /\ verdict' = [verdict EXCEPT ![s] = v]
           /\ passed' = IF v = "PASS" THEN passed \cup {s} ELSE passed
    /\ UNCHANGED <<owner, version, events, baseline, toolchain, job, reported,
                   req, adm, sync, budget>>

\* pending_review_is_superseded, for the skill the content is registered to.
PendingReviewIsSuperseded(c) ==
    LET e == IF version[c] = None THEN None ELSE LatestEvent(Now, version[c])
    IN  e # None /\ ~(e.to = "review_pending" /\ e.content = c)

ReviewRead(u, s) ==
    /\ req[u] = Idle /\ u \in budget.users
    /\ job[s] # {} /\ u \notin job[s]
    /\ verdict[s] = "REVIEW"
    /\ ~PendingReviewIsSuperseded(s[1])
    /\ req' = [req EXCEPT ![u] = [pc |-> "decide", scan |-> s]]
    /\ UNCHANGED <<owner, version, events, baseline, toolchain, job, verdict,
                   passed, reported, adm, sync, budget>>

\* The row read before is rewritten in place, whatever it holds by now.
ReviewCommit(u) ==
    /\ req[u].pc = "decide"
    /\ \E v \in {"PASS", "BLOCK"} :
           /\ verdict' = [verdict EXCEPT ![req[u].scan] = v]
           /\ passed' = IF v = "PASS" THEN passed \cup {req[u].scan} ELSE passed
    /\ req' = [req EXCEPT ![u] = Idle]
    /\ UNCHANGED <<owner, version, events, baseline, toolchain, job, reported,
                   adm, sync, budget>>

(***************************************************************************)
(* Administrators: quarantine, retire, restore, baseline, owner.           *)
(***************************************************************************)

AdminTargets == {"quarantined", "retired", "published"}

\* _do_transition and restore_skill; a restore is for quarantined skills only.
AdminRead(k, to) ==
    /\ adm = Idle
    /\ budget.changes > 0 /\ budget' = [budget EXCEPT !.changes = @ - 1]
    /\ CurrentState(Now, k) # None
    /\ ValidateTransition(CurrentState(Now, k), to)
    /\ to = "published" => CurrentState(Now, k) = "quarantined"
    /\ adm' = [pc |-> "commit", skill |-> k, to |-> to, n |-> Now]
    /\ UNCHANGED <<owner, version, events, baseline, toolchain, job, verdict,
                   passed, reported, req, sync>>

AdminCommit ==
    /\ adm.pc = "commit"
    /\ events' = Append(events, Event(adm.skill, CurrentState(adm.n, adm.skill),
                                      adm.to, None, None, Admin))
    /\ adm' = Idle
    /\ UNCHANGED <<owner, version, baseline, toolchain, job, verdict, passed,
                   reported, req, sync, budget>>

\* set_baseline: approved_at is the number of events there are by then.
Approve(c) == [content |-> c, at |-> Now]

SetSkillBaseline(k, c) ==
    /\ owner[k] # None
    /\ budget.changes > 0 /\ budget' = [budget EXCEPT !.changes = @ - 1]
    /\ baseline' = [baseline EXCEPT ![k] = Approve(c)]
    /\ UNCHANGED <<owner, version, events, toolchain, job, verdict, passed,
                   reported, req, adm, sync>>

\* set_skill_owner may replace an owner, assign_owner_bulk only fills a gap.
AssignSkillOwner(k, u, expectUnowned) ==
    /\ owner[k] \notin {None, u}
    /\ expectUnowned => owner[k] = Nobody
    /\ budget.changes > 0 /\ budget' = [budget EXCEPT !.changes = @ - 1]
    /\ owner' = [owner EXCEPT ![k] = u]
    /\ UNCHANGED <<version, events, baseline, toolchain, job, verdict, passed,
                   reported, req, adm, sync>>

\* A detection update or policy change gives later scans another digest.
ToolchainChanges(t) ==
    /\ t # toolchain
    /\ budget.changes > 0 /\ budget' = [budget EXCEPT !.changes = @ - 1]
    /\ toolchain' = t
    /\ UNCHANGED <<owner, version, events, baseline, job, verdict, passed,
                   reported, req, adm, sync>>

(***************************************************************************)
(* sync_lifecycle_tick.                                                    *)
(***************************************************************************)

\* Variant: only reviews are followed up.
PendingReviews(n) == {k \in Skills : LET e == LatestEvent(n, k)
                                     IN  e # None /\ e.to = "review_pending"}

Pending(n) == {k \in Skills : LET e == LatestEvent(n, k)
                              IN  /\ e # None
                                  /\ e.to \in WaitingStates
                                  /\ e.content # None}

AwaitedScans(n) == {LatestEvent(n, k).scan : k \in Pending(n)}

\* Scans a skill waited for and left for another reason than their verdict.
StrandedCandidates(n) ==
    LET rows == {events[i] : i \in 1..n}
        entered == {e.scan : e \in {x \in rows : x.to \in WaitingStates}}
        left == {e.scan : e \in {x \in rows : x.from \in WaitingStates}}
    IN  ((entered \ left) \ AwaitedScans(n)) \ {None}

\* A tick that finds no event waiting reads no verdict; one that finds nothing
\* to report either does nothing.
SyncStart(r) ==
    /\ sync[r] = Idle /\ r \in budget.replicas
    /\ \/ /\ Pending(Now) # {}
          /\ sync' = [sync EXCEPT ![r] = [pc |-> "verdicts", n |-> Now]]
       \/ /\ Pending(Now) = {} /\ StrandedCandidates(Now) # {}
          /\ sync' = [sync EXCEPT ![r] = [pc |-> "next", n |-> Now, todo |-> {}]]
    /\ UNCHANGED <<owner, version, events, baseline, toolchain, job, verdict,
                   passed, reported, req, adm, budget>>

\* Variant: any verdict of the event's content.
ResolveByContent(e) ==
    LET known == {t \in Toolchains : verdict[<<e.content, t>>] # None}
    IN  IF known = {} THEN None ELSE verdict[<<e.content, CHOOSE t \in known : TRUE>>]

\* The verdict an event waits for is its own scan's.
ResolveEventVerdict(e) == verdict[e.scan]

\* One read of the verdict table; todo holds what is left to apply.
SyncVerdicts(r) ==
    /\ sync[r].pc = "verdicts"
    /\ LET n == sync[r].n
           Target(k) == LET v == ResolveEventVerdict(LatestEvent(n, k))
                        IN  IF v = None THEN None ELSE VerdictTarget[v]
           due == {k \in Pending(n) : Target(k) \notin {None, LatestEvent(n, k).to}}
       IN  sync' = [sync EXCEPT ![r] =
              IF due = {} /\ StrandedCandidates(n) = {} THEN Idle
              ELSE [pc |-> "next", n |-> n,
                    todo |-> {[skill |-> k, to |-> Target(k)] : k \in due}]]
    /\ UNCHANGED <<owner, version, events, baseline, toolchain, job, verdict,
                   passed, reported, req, adm, budget>>

\* Variant: trusts the state read at the start of the tick.
SyncTxReadUnchecked(r) ==
    /\ sync[r].pc = "next"
    /\ \E t \in sync[r].todo :
          sync' = [sync EXCEPT ![r] =
              [pc |-> "commit", n |-> @.n, todo |-> @.todo \ {t}, cur |-> t,
               at |-> Now, base |-> baseline[t.skill]]]
    /\ UNCHANGED <<owner, version, events, baseline, toolchain, job, verdict,
                   passed, reported, req, adm, budget>>

\* The transaction of one skill: its reads ...
SyncTxRead(r) ==
    /\ sync[r].pc = "next"
    /\ \E t \in sync[r].todo :
          LET valid == ValidateTransition(CurrentState(Now, t.skill), t.to)
              rest == sync[r].todo \ {t}
          IN  sync' = [sync EXCEPT ![r] =
                 IF valid THEN [pc |-> "commit", n |-> @.n, todo |-> rest, cur |-> t,
                                at |-> Now, base |-> baseline[t.skill]]
                 ELSE [@ EXCEPT !.todo = rest]]
    /\ UNCHANGED <<owner, version, events, baseline, toolchain, job, verdict,
                   passed, reported, req, adm, budget>>

\* advance_baseline_on_publish, on what the transaction read: a baseline that
\* is not the last published content was pinned by an administrator.
AdvancesBaseline(base, c, prior) ==
    base = None \/ (base.content # c /\ base.content = prior)

\* Variant: no drift check for a content that just passed its scan.
AfterCommitUnwatched(q, e) == [pc |-> "next", n |-> q.n, todo |-> q.todo]

\* Publishing is followed by the drift check.
AfterCommit(q, e) ==
    IF q.cur.to = "published"
    THEN [pc |-> "drift", n |-> q.n, todo |-> q.todo, cur |-> q.cur, content |-> e.content]
    ELSE [pc |-> "next", n |-> q.n, todo |-> q.todo]

\* ... and its commit.
SyncTxCommit(r) ==
    /\ sync[r].pc = "commit"
    /\ LET q == sync[r]
           k == q.cur.skill
           e == LatestEvent(q.n, k)
           advances == /\ q.cur.to = "published"
                       /\ AdvancesBaseline(q.base, e.content, PriorPublished(q.at, k))
       IN  /\ events' = Append(events, Event(k, CurrentState(q.at, k), q.cur.to,
                                             e.content, e.scan, Worker))
           /\ baseline' = IF advances THEN [baseline EXCEPT ![k] = Approve(e.content)]
                          ELSE baseline
           /\ sync' = [sync EXCEPT ![r] = AfterCommit(q, e)]
    /\ UNCHANGED <<owner, version, toolchain, job, verdict, passed, reported,
                   req, adm, budget>>

IsDrift(base, c) == base # None /\ base.content # c

\* _quarantine_if_drifted: check_drift, then the reads of the transition.
DriftRead(r) ==
    /\ sync[r].pc = "drift"
    /\ LET k == sync[r].cur.skill
           acts == /\ IsDrift(baseline[k], sync[r].content)
                   /\ ValidateTransition(CurrentState(Now, k), "quarantined")
       IN  sync' = [sync EXCEPT ![r] =
              IF acts THEN [pc |-> "quarantine", n |-> @.n, todo |-> @.todo,
                            cur |-> @.cur, content |-> @.content, at |-> Now]
              ELSE [pc |-> "next", n |-> @.n, todo |-> @.todo]]
    /\ UNCHANGED <<owner, version, events, baseline, toolchain, job, verdict,
                   passed, reported, req, adm, budget>>

DriftCommit(r) ==
    /\ sync[r].pc = "quarantine"
    /\ LET q == sync[r] k == q.cur.skill
       IN  events' = Append(events, Event(k, CurrentState(q.at, k), "quarantined",
                                          q.content, None, Worker))
    /\ sync' = [sync EXCEPT ![r] = [pc |-> "next", n |-> @.n, todo |-> @.todo]]
    /\ UNCHANGED <<owner, version, baseline, toolchain, job, verdict, passed,
                   reported, req, adm, budget>>

\* Variant: returns early when no event is waiting.
SyncReportIfPending(r) ==
    /\ sync[r].pc = "next" /\ sync[r].todo = {}
    /\ reported' = IF Pending(sync[r].n) = {} THEN reported
                   ELSE reported \cup {s \in StrandedCandidates(sync[r].n) : verdict[s] # None}
    /\ sync' = [sync EXCEPT ![r] = Idle]
    /\ UNCHANGED <<owner, version, events, baseline, toolchain, job, verdict,
                   passed, req, adm, budget>>

\* _report_stranded_verdicts, from the rows read at the start of the tick.
SyncReport(r) ==
    /\ sync[r].pc = "next" /\ sync[r].todo = {}
    /\ reported' = reported \cup {s \in StrandedCandidates(sync[r].n) : verdict[s] # None}
    /\ sync' = [sync EXCEPT ![r] = Idle]
    /\ UNCHANGED <<owner, version, events, baseline, toolchain, job, verdict,
                   passed, req, adm, budget>>

-----------------------------------------------------------------------------

\* A skill published before owners were recorded has none.
History(k, c) == << Event(k, None, "submitted", c, None, Nobody),
                    Event(k, "submitted", "scanning", c, None, Nobody),
                    Event(k, "scanning", "published", c, None, Nobody) >>

LifeInit ==
    /\ budget \in Scenarios
    /\ \/ /\ owner = [k \in Skills |-> None]
          /\ version = [c \in Contents |-> None]
          /\ events = << >>
       \/ LET k == CHOOSE x \in budget.skills : TRUE
              c == CHOOSE x \in Contents : TRUE
          IN  /\ owner = [x \in Skills |-> IF x = k THEN Nobody ELSE None]
              /\ version = [x \in Contents |-> IF x = c THEN k ELSE None]
              /\ events = History(k, c)
    /\ baseline = [k \in Skills |-> None]
    /\ toolchain = CHOOSE t \in Toolchains : TRUE
    /\ job = [s \in Scans |-> {}]
    /\ verdict = [s \in Scans |-> None]
    /\ passed = {} /\ reported = {}
    /\ req = [u \in Users |-> Idle]
    /\ adm = Idle
    /\ sync = [r \in Replicas |-> Idle]

SyncStep(r) == \/ SyncStart(r) \/ SyncVerdicts(r) \/ SyncTxRead(r)
               \/ SyncTxCommit(r) \/ DriftRead(r) \/ DriftCommit(r) \/ SyncReport(r)

RequestStep(u) == SubmitScan(u) \/ RegisterRead(u) \/ RegisterCommit(u) \/ ReviewCommit(u)

LifeNext ==
    \/ \E u \in Users : RequestStep(u)
    \/ \E u \in Users, k \in Skills, c \in Contents :
           Preflight(u, k, c) \/ MarketPreflight(u, k, c)
    \/ \E u \in Users, s \in Scans : ReviewRead(u, s)
    \/ \E s \in Scans : IssueVerdict(s)
    \/ \E k \in Skills, to \in AdminTargets : AdminRead(k, to)
    \/ AdminCommit
    \/ \E k \in Skills, c \in Contents : SetSkillBaseline(k, c)
    \/ \E k \in Skills, u \in Users, e \in BOOLEAN : AssignSkillOwner(k, u, e)
    \/ \E t \in Toolchains : ToolchainChanges(t)
    \/ \E r \in Replicas : SyncStep(r)

LifeSpec == LifeInit /\ [][LifeNext]_lifeVars

\* The worker loop of every replica runs for ever and survives exceptions: weak
\* fairness of SyncStep(r), whose steps all change sync[r] and which is enabled
\* exactly when TickHasWork(r).
TickHasWork(r) ==
    \/ sync[r] # Idle
    \/ r \in budget.replicas /\ (Pending(Now) # {} \/ StrandedCandidates(Now) # {})

LifeFairSpec ==
    /\ LifeSpec
    /\ \A r \in Replicas : []<>~TickHasWork(r) \/ []<><<sync'[r] # sync[r]>>_sync

-----------------------------------------------------------------------------
(***************************************************************************)
(* Properties.                                                             *)
(***************************************************************************)

\* Whatever races, no event leaves the transition table: each starts in a
\* state its skill had really been in and ends in one that state allows
\* (validate_transition is called on a read that may be stale by the commit).
EventsFollowTable ==
    \A i \in 1..Now :
        /\ ValidateTransition(events[i].from, events[i].to)
        /\ \/ events[i].from = None
           \/ \E j \in 1..(i - 1) : /\ events[j].skill = events[i].skill
                                    /\ events[j].to = events[i].from

\* sync_lifecycle_tick publishes a content only under a PASS of the very scan
\* its submission named, never under another scan's of the same bytes.
PublishedUnderOwnVerdict ==
    \A i \in 1..Now :
        events[i].to = "published" /\ events[i].by = Worker =>
            /\ events[i].scan \in passed
            /\ events[i].scan[1] = events[i].content
            /\ \E j \in 1..(i - 1) : /\ events[j].skill = events[i].skill
                                     /\ events[j].to = "scanning"
                                     /\ events[j].scan = events[i].scan

\* A skill the worker has published at a content other than the baseline
\* approved before that is on its way to quarantine (_quarantine_if_drifted
\* runs after the publishing transaction, in another one).
DriftIsCaught ==
    \A k \in Skills :
        LET i == LastOf(events, Now, k)
        IN  /\ i # 0
            /\ events[i].to = "published" /\ events[i].by = Worker
            /\ IsDrift(baseline[k], events[i].content)
            /\ baseline[k].at < i
            => \E r \in Replicas : /\ sync[r].pc \in {"drift", "quarantine"}
                                   /\ sync[r].cur.skill = k
                                   /\ sync[r].content = events[i].content

\* A content belongs to one skill for good, and its skill has an owner row:
\* concurrent registrations never move or orphan it (register_skill_version).
ContentKeepsItsSkill ==
    [][\A c \in Contents : version[c] # None =>
           version'[c] = version[c] /\ owner'[version[c]] # None]_lifeVars

\* Skills in the given state whose own scan has a verdict in the given set.
Decided(state, vs) ==
    {k \in Skills : LET e == LatestEvent(Now, k)
                    IN  /\ e # None
                        /\ e.to = state
                        /\ e.scan # None
                        /\ verdict[e.scan] \in vs}

\* No skill keeps waiting in "scanning" once its scan's verdict is there.
ScanningSettles ==
    Decided("scanning", DOMAIN VerdictTarget) # {}
        ~> Decided("scanning", DOMAIN VerdictTarget) = {}

\* A verdict no skill waits for any more is reported: it is never dropped in
\* silence (_report_stranded_verdicts).
StrandedVerdictsReported ==
    LET unreported == {s \in StrandedCandidates(Now) : verdict[s] # None} \ reported
    IN  unreported # {} ~> unreported = {}
=============================================================================
