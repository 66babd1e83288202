----------------------------- MODULE ScanPipeline -----------------------------
(***************************************************************************)
(* The life of a scan, from POST /v1/scans to its signed verdict:          *)
(*                                                                         *)
(*   submit_scan / sweep_queued_jobs_to_airlock                            *)
(*        --(scans stream)-->  run_mock_engine_worker_tick  (floor group)  *)
(*                             sandbox_engine_tick        (sandbox group)  *)
(*        --(blobs, then results stream)-->  run_result_collector_tick,    *)
(*                                           sweep_sandbox_wait_timeouts   *)
(*        --(three transactions)-->  scan_job, scan_result, verdict rows.  *)
(*                                                                         *)
(* Every transaction, blob write, XADD and XACK is a step of its own, so   *)
(* that the steps of several replicas, a process death or an exception can *)
(* fall between any two of them.                                           *)
(***************************************************************************)
EXTENDS Airlock, FiniteSets, Sequences

CONSTANTS
    Scans,          \* scan ids
    Floor,          \* in-process engines a policy may require
    Sandbox,        \* engines of the sandbox runner (SANDBOX_WAITED_ENGINE_NAMES)
    Policies,       \* the required_engines of the successive applied policies
    FloorWorkers,   \* processes running run_mock_engine_worker_tick
    SandWorkers,    \* processes running sandbox_engine_tick
    Collectors,     \* processes running the collector tick and the wait sweep
    Copies,         \* bound: copies of one stream entry outstanding at once
    Rejected,       \* scans whose archive unpack_hardened rejects
    Switchable,     \* sandbox engines an administrator switches off and on
    Lost,           \* scans whose artifact is not in the blob store
    FailAt,         \* collector program points where an exception may strike
    CrashAt,        \* program points where a process may die
    MaxFaults,      \* bound: exceptions, deaths, failed commits and changes by
                    \* administrators in total
    NoScan, NoMsg   \* "none" values

PolicyIds == 1..Len(Policies)
\* The sandbox group exists where a sandbox runner has created it.
Groups    == {"floor"} \cup (IF SandWorkers = {} THEN {} ELSE {"sandbox"})
Workers   == FloorWorkers \cup SandWorkers

POISON_PILL     == "poison_pill"
UNPACK_REJECTED == "unpack_rejected"
Terminal        == {POISON_PILL, UNPACK_REJECTED}    \* _TERMINAL_STATUSES
Tags            == Floor \cup Sandbox \cup Terminal

ScanMsgs == Scans \X Copies
ResMsgs  == Scans \X Tags \X Copies

Unscored  == {"queued", "running"}                   \* _UNSCORED_STATES
JobStates == {"absent", "uncommitted", "rolledback",
              "queued", "running", "scored", "decided", "failed"}

\* Rows of scan_result (with scan_engine_health) and of verdict.  "missing" is
\* the engines recorded NOT_REPORTED, "timeout" the engines named in the reason
\* sandbox_wait_timeout:..., "src" the path that produced the verdict.
ResultRow  == [scan : Scans, missing : SUBSET (Floor \cup Sandbox)]
VerdictRow == [scan : Scans, src : {"score", "deadletter"},
               timeout : SUBSET Sandbox]

ASSUME PoliciesAssumption == Policies \in Seq(SUBSET Floor) /\ Len(Policies) > 0

ASSUME ConstantsAssumption ==
    /\ NoScan \notin Scans
    /\ NoMsg \notin ScanMsgs
    /\ Switchable \subseteq Sandbox
    /\ (FloorWorkers \cap SandWorkers) = {}
    /\ Terminal \cap (Floor \cup Sandbox) = {}
    /\ MaxFaults \in Nat

VARIABLES
    job,        \* scan_job.state, by scan
    wait,       \* sandbox_wait_started_at: "null", "started" or past the cutoff
    result,     \* rows of scan_result
    verdict,    \* rows of verdict (each with its outbox and audit_intent row)
    blob,       \* engines whose findings blob exists, by scan
    policy,     \* index of the newest applied policy
    toggle,     \* admin switch of a sandbox engine: "on", "off", "reenabled"
    scansG,     \* the two consumer groups of the scans stream
    resG,       \* the consumer group of the results stream
    engines,    \* the engines field of each scans-stream entry
    wk,         \* floor and sandbox workers
    pc, held, todo, cur, bad,   \* a collector: step, claimed entries, scans to
                                \* handle, scan in hand, scans that raised
    mode,       \* "tick" or "force": collector tick or wait-timeout sweep
    req, waited,                \* a collector's view of the policy and of the
                                \* active sandbox engines
    timeout,    \* missing_advisory of the scan in hand
    faults      \* of MaxFaults

dbVars   == <<job, wait, result, verdict>>
envVars  == <<policy, toggle>>
colVars  == <<pc, held, todo, cur, bad, mode, req, waited, timeout>>
wkVars   == <<scansG, engines, blob, wk>>
vars     == <<dbVars, envVars, colVars, wkVars, resG, faults>>

WorkerState ==
    [pc   : {"idle", "take", "run", "send"},
     held : SUBSET ScanMsgs,
     cur  : ScanMsgs \cup {NoMsg},
     todo : SUBSET (Floor \cup Sandbox),
     tag  : Tags \cup {"none"},
     off  : SUBSET Sandbox]

IdleWorker == [pc |-> "idle", held |-> {}, cur |-> NoMsg, todo |-> {},
               tag |-> "none", off |-> {}]

CollectorPC == {"idle", "pick", "mark", "score", "gateScore", "decide",
                "deadCheck", "gateDead", "markFailed", "ack"}

Init ==
    /\ job = [s \in Scans |-> "absent"]
    /\ wait = [s \in Scans |-> "null"]
    /\ result = {}
    /\ verdict = {}
    /\ blob = [s \in Scans |-> {}]
    /\ policy = 1
    /\ toggle = [x \in Sandbox |-> "on"]
    /\ scansG = [g \in Groups |-> EmptyGroup(ScanMsgs)]
    /\ resG = EmptyGroup(ResMsgs)
    /\ engines = [m \in ScanMsgs |-> {}]
    /\ wk = [w \in Workers |-> IdleWorker]
    /\ pc = [c \in Collectors |-> "idle"]
    /\ held = [c \in Collectors |-> {}]
    /\ todo = [c \in Collectors |-> {}]
    /\ cur = [c \in Collectors |-> NoScan]
    /\ bad = [c \in Collectors |-> {}]
    /\ mode = [c \in Collectors |-> "tick"]
    /\ req = [c \in Collectors |-> {}]
    /\ waited = [c \in Collectors |-> {}]
    /\ timeout = [c \in Collectors |-> {}]
    /\ faults = 0
-----------------------------------------------------------------------------
(* Streams.  An entry id is free when no group owes it to anybody and no     *)
(* process still holds it; the pool Copies only bounds outstanding entries.  *)

FreeScanMsgs(s) ==
    {m \in ScanMsgs :
        /\ m[1] = s
        /\ \A g \in Groups : m \notin Live(scansG[g])
        /\ \A w \in Workers : m \notin wk[w].held /\ m # wk[w].cur}

FreeResMsgs(s, tag) ==
    {m \in ResMsgs :
        /\ m[1] = s /\ m[2] = tag
        /\ m \notin Live(resG)
        /\ \A c \in Collectors : m \notin held[c]}

\* produce_scan_job: one XADD, seen by both groups.
ProduceScanJob(s, required) ==
    \E m \in FreeScanMsgs(s) :
        /\ scansG' = [g \in Groups |-> Produced(scansG[g], m)]
        /\ engines' = [engines EXCEPT ![m] = required]

\* produce_result.
ProduceResult(s, tag) ==
    \E m \in FreeResMsgs(s, tag) : resG' = Produced(resG, m)

\* STALE_CLAIM_IDLE_MS (60s) pass.
ScanMsgGoesIdle(g, m) ==
    /\ m \in scansG[g].pend \ scansG[g].idle
    /\ scansG' = [scansG EXCEPT ![g] = WentIdle(@, m)]
    /\ UNCHANGED <<dbVars, envVars, colVars, engines, blob, wk, resG, faults>>

ResMsgGoesIdle(m) ==
    /\ m \in resG.pend \ resG.idle
    /\ resG' = WentIdle(resG, m)
    /\ UNCHANGED <<dbVars, envVars, colVars, wkVars, faults>>
-----------------------------------------------------------------------------
(* Submission, rescans and the environment.                                  *)

\* One of the events that are bounded.
Fault == faults < MaxFaults /\ faults' = faults + 1

\* submit_scan for a new cache_key: the row is flushed and the XADD made
\* inside the request's still uncommitted transaction.  A replica's policy may
\* lag behind the newest applied one.
Submit(s) ==
    /\ job[s] = "absent"
    /\ job' = [job EXCEPT ![s] = "uncommitted"]
    /\ \E p \in 1..policy : ProduceScanJob(s, Policies[p])
    /\ UNCHANGED <<wait, result, verdict, envVars, colVars, blob, wk, resG, faults>>

Commit(s) ==
    /\ job[s] = "uncommitted"
    /\ job' = [job EXCEPT ![s] = "queued"]
    /\ UNCHANGED <<wait, result, verdict, envVars, colVars, wkVars, resG, faults>>

\* The request dies before its commit: the entry stays in the stream.
Rollback(s) ==
    /\ "commit" \in CrashAt /\ Fault
    /\ job[s] = "uncommitted"
    /\ job' = [job EXCEPT ![s] = "rolledback"]
    /\ UNCHANGED <<wait, result, verdict, envVars, colVars, wkVars, resG>>

\* reeval's trigger_rescans: a queued row and no stream entry.
Rescan(s) ==
    /\ job[s] = "absent"
    /\ job' = [job EXCEPT ![s] = "queued"]
    /\ UNCHANGED <<wait, result, verdict, envVars, colVars, wkVars, resG, faults>>

\* One row of sweep_queued_jobs_to_airlock.
SweepQueued(s) ==
    /\ job[s] = "queued"
    /\ IF s \in Lost
         THEN ProduceResult(s, POISON_PILL) /\ UNCHANGED <<scansG, engines>>
         ELSE ProduceScanJob(s, Policies[policy]) /\ UNCHANGED resG
    /\ UNCHANGED <<dbVars, envVars, colVars, blob, wk, faults>>

\* reload_policy_if_changed / promote_approved_policy apply the next policy.
ApplyPolicy ==
    /\ policy < Len(Policies) /\ Fault
    /\ policy' = policy + 1
    /\ UNCHANGED <<dbVars, toggle, colVars, wkVars, resG>>

\* PATCH /admin/engines switches a sandbox engine off and later on again.
ToggleEngine(x) ==
    /\ toggle[x] # "reenabled" /\ Fault
    /\ toggle' = [toggle EXCEPT ![x] = IF @ = "on" THEN "off" ELSE "reenabled"]
    /\ UNCHANGED <<dbVars, policy, colVars, wkVars, resG>>

\* sandbox_wait_started_at falls behind now - wait_timeout_s - _SWEEP_GRACE_S.
WaitExpires(s) ==
    /\ wait[s] = "started"
    /\ wait' = [wait EXCEPT ![s] = "expired"]
    /\ UNCHANGED <<job, result, verdict, envVars, colVars, wkVars, resG, faults>>

Disabled == {x \in Sandbox : toggle[x] = "off"}
-----------------------------------------------------------------------------
(* Workers: run_mock_engine_worker_tick and sandbox_engine_tick.             *)

GroupOf(w) == IF w \in FloorWorkers THEN "floor" ELSE "sandbox"

\* claim_scan_jobs + reclaim_stale_scan_jobs; the sandbox runner also reads
\* the disabled engines once per tick.
Claim(w) ==
    LET g == GroupOf(w) IN
    /\ wk[w].pc = "idle"
    /\ Claimable(scansG[g]) # {}
    /\ scansG' = [scansG EXCEPT ![g] = Claimed(@)]
    /\ wk' = [wk EXCEPT ![w] =
                [@ EXCEPT !.pc = "take", !.held = Claimable(scansG[g]),
                          !.off = IF g = "sandbox" THEN Disabled ELSE {}]]
    /\ UNCHANGED <<dbVars, envVars, colVars, engines, blob, resG, faults>>

\* A floor worker takes its next job: dead-letter marker or engines to run.
FloorTake(w) ==
    /\ wk[w].pc = "take"
    /\ \E m \in wk[w].held :
         LET poison == Exhausted(scansG["floor"], {m})
             reject == m[1] \in Rejected \cup Lost
         IN wk' = [wk EXCEPT ![w] =
              [@ EXCEPT !.cur  = m,
                        !.held = wk[w].held \ {m},
                        !.pc   = IF poison \/ reject THEN "send" ELSE "run",
                        !.tag  = IF poison THEN POISON_PILL
                                 ELSE IF reject THEN UNPACK_REJECTED ELSE "none",
                        !.todo = IF poison \/ reject THEN {} ELSE engines[m]]]
    /\ UNCHANGED <<dbVars, envVars, colVars, scansG, engines, blob, resG, faults>>

\* The sandbox runner has no delivery cap and stays silent on a bad archive.
SandTake(w) ==
    /\ wk[w].pc = "take"
    /\ \E m \in wk[w].held :
         wk' = [wk EXCEPT ![w] =
              [@ EXCEPT !.cur  = m,
                        !.held = wk[w].held \ {m},
                        !.pc   = "run",
                        !.tag  = "none",
                        !.todo = IF m[1] \in Rejected \cup Lost
                                   THEN {} ELSE Sandbox \ wk[w].off]]
    /\ UNCHANGED <<dbVars, envVars, colVars, scansG, engines, blob, resG, faults>>

\* An engine's findings blob is stored before its result is announced.
PutBlob(w) ==
    /\ wk[w].pc = "run"
    /\ \E e \in wk[w].todo :
         /\ blob' = [blob EXCEPT ![wk[w].cur[1]] = @ \cup {e}]
         /\ wk' = [wk EXCEPT ![w] =
                     [@ EXCEPT !.pc = "send", !.tag = e, !.todo = wk[w].todo \ {e}]]
    /\ UNCHANGED <<dbVars, envVars, colVars, scansG, engines, resG, faults>>

SendResult(w) ==
    /\ wk[w].pc = "send"
    /\ ProduceResult(wk[w].cur[1], wk[w].tag)
    /\ wk' = [wk EXCEPT ![w] = [@ EXCEPT !.pc = "run"]]
    /\ UNCHANGED <<dbVars, envVars, colVars, scansG, engines, blob, faults>>

\* The worker is done with its current job; r is its record without it.
Released(r) ==
    IF r.held = {} THEN IdleWorker
    ELSE [r EXCEPT !.pc = "take", !.cur = NoMsg, !.todo = {}, !.tag = "none"]

AckJob(w) ==
    /\ wk[w].pc = "run" /\ wk[w].todo = {}
    /\ scansG' = [scansG EXCEPT ![GroupOf(w)] = Acked(@, wk[w].cur)]
    /\ wk' = [wk EXCEPT ![w] = Released(@)]
    /\ UNCHANGED <<dbVars, envVars, colVars, engines, blob, resG, faults>>

\* The per-job except branch: log, leave the entry unacknowledged, go on.  The
\* poison-pill branch is outside the try block.
JobFails(w) ==
    /\ GroupOf(w) \in FailAt /\ Fault
    /\ wk[w].pc = "send" \/ (wk[w].pc = "run" /\ wk[w].todo # {})
    /\ wk[w].tag # POISON_PILL
    /\ wk' = [wk EXCEPT ![w] = Released(@)]
    /\ UNCHANGED <<dbVars, envVars, colVars, scansG, engines, blob, resG>>

WorkerDies(w) ==
    /\ GroupOf(w) \in CrashAt /\ Fault
    /\ wk[w].pc # "idle"
    /\ wk' = [wk EXCEPT ![w] = IdleWorker]
    /\ UNCHANGED <<dbVars, envVars, colVars, scansG, engines, blob, resG>>
-----------------------------------------------------------------------------
(* Collectors: run_result_collector_tick and sweep_sandbox_wait_timeouts.    *)

ScanOf(msgs) == {m[1] : m \in msgs}
TagsOf(msgs, s) == {m[2] : m \in {n \in msgs : n[1] = s}}

\* What a tick fixes at its start: required engines and active sandbox engines.
View(c) ==
    /\ req' = [req EXCEPT ![c] = Policies[policy]]
    /\ waited' = [waited EXCEPT ![c] = Sandbox \ Disabled]

\* claim_results + reclaim_stale_results, grouped by scan.
Tick(c) ==
    /\ pc[c] = "idle"
    /\ Claimable(resG) # {}
    /\ resG' = Claimed(resG)
    /\ held' = [held EXCEPT ![c] = Claimable(resG)]
    /\ todo' = [todo EXCEPT ![c] = ScanOf(Claimable(resG))]
    /\ mode' = [mode EXCEPT ![c] = "tick"]
    /\ pc' = [pc EXCEPT ![c] = "pick"]
    /\ View(c)
    /\ UNCHANGED <<dbVars, envVars, cur, bad, timeout, wkVars, faults>>

\* Variant: the rows are selected by age, not by the wait on record.
OverdueByAge == {s \in Scans : job[s] \in Unscored}

\* sweep_sandbox_wait_timeouts selects its rows.
Overdue == {s \in Scans : job[s] \in Unscored /\ wait[s] = "expired"}

Sweep(c) ==
    /\ pc[c] = "idle"
    /\ Overdue # {}
    /\ todo' = [todo EXCEPT ![c] = Overdue]
    /\ mode' = [mode EXCEPT ![c] = "force"]
    /\ pc' = [pc EXCEPT ![c] = "pick"]
    /\ View(c)
    /\ UNCHANGED <<dbVars, envVars, held, cur, bad, timeout, wkVars, resG, faults>>

\* The next scan of the batch: dead-letter it on a terminal status or an
\* exhausted delivery count, else try to score it.
Pick(c) ==
    /\ pc[c] = "pick"
    /\ \E s \in todo[c] :
         LET mine == {m \in held[c] : m[1] = s}
             dead == \/ TagsOf(mine, s) \cap Terminal # {}
                     \/ Exhausted(resG, mine)
         IN /\ cur' = [cur EXCEPT ![c] = s]
            /\ todo' = [todo EXCEPT ![c] = @ \ {s}]
            /\ pc' = [pc EXCEPT ![c] = IF mode[c] = "force" THEN "score"
                                       ELSE IF dead THEN "deadCheck" ELSE "mark"]
    /\ UNCHANGED <<dbVars, envVars, held, bad, mode, req, waited, timeout,
                   wkVars, resG, faults>>

\* The collector is done with its current scan.
NextScan(c) ==
    /\ cur' = [cur EXCEPT ![c] = NoScan]
    /\ timeout' = [timeout EXCEPT ![c] = {}]
    /\ pc' = [pc EXCEPT ![c] = IF todo[c] # {} THEN "pick" ELSE "ack"]

\* An UPDATE or SELECT ... FOR UPDATE of a row waits for the transaction that is
\* inserting it.
Unlocked(s) == job[s] # "uncommitted"

\* Variant: the UPDATE has lost its WHERE state = 'queued'.
MarkRunningUnguarded(c) ==
    /\ pc[c] = "mark" /\ Unlocked(cur[c])
    /\ job' = [job EXCEPT ![cur[c]] = IF @ \in JobStates \ {"absent", "uncommitted",
                                      "rolledback"} THEN "running" ELSE @]
    /\ pc' = [pc EXCEPT ![c] = "score"]
    /\ UNCHANGED <<wait, result, verdict, envVars, held, todo, cur, bad, mode, req,
                   waited, timeout, wkVars, resG, faults>>

\* _mark_running_if_queued.
MarkRunning(c) ==
    /\ pc[c] = "mark" /\ Unlocked(cur[c])
    /\ job' = [job EXCEPT ![cur[c]] = IF @ = "queued" THEN "running" ELSE @]
    /\ pc' = [pc EXCEPT ![c] = "score"]
    /\ UNCHANGED <<wait, result, verdict, envVars, held, todo, cur, bad, mode, req,
                   waited, timeout, wkVars, resG, faults>>

Reported(s) == blob[s]

\* First transaction of _try_score_and_decide: give up, start the sandbox
\* wait, or write scan_result and the health rows and become scored.
GiveUp(c) ==
    /\ \/ job[cur[c]] \notin Unscored
       \/ ~ req[c] \subseteq Reported(cur[c])
    /\ NextScan(c)
    /\ UNCHANGED <<job, wait, result>>

\* Variant: the start of the wait is not recorded.
StartWaitUnrecorded(c) ==
    LET s == cur[c] IN
    /\ job[s] \in Unscored /\ req[c] \subseteq Reported(s)
    /\ mode[c] = "tick" /\ ~ waited[c] \subseteq Reported(s)
    /\ NextScan(c)
    /\ UNCHANGED <<job, wait, result>>

StartWait(c) ==
    LET s == cur[c] IN
    /\ job[s] \in Unscored /\ req[c] \subseteq Reported(s)
    /\ mode[c] = "tick" /\ ~ waited[c] \subseteq Reported(s)
    /\ wait' = [wait EXCEPT ![s] = IF @ = "null" THEN "started" ELSE @]
    /\ NextScan(c)
    /\ UNCHANGED <<job, result>>

\* Variant: a forced decision does not name the engines it went without.
WriteResultUnexplained(c) ==
    LET s == cur[c] IN
    /\ job[s] \in Unscored /\ req[c] \subseteq Reported(s)
    /\ mode[c] = "force" \/ waited[c] \subseteq Reported(s)
    /\ result' = result \cup
         {[scan |-> s, missing |-> (req[c] \cup Sandbox) \ Reported(s)]}
    /\ job' = [job EXCEPT ![s] = "scored"]
    /\ pc' = [pc EXCEPT ![c] = "gateScore"]
    /\ UNCHANGED <<wait, cur, timeout>>

WriteResult(c) ==
    LET s == cur[c] IN
    /\ job[s] \in Unscored /\ req[c] \subseteq Reported(s)
    /\ mode[c] = "force" \/ waited[c] \subseteq Reported(s)
    /\ timeout' = [timeout EXCEPT ![c] = waited[c] \ Reported(s)]
    /\ result' = result \cup
         {[scan |-> s, missing |-> (req[c] \cup Sandbox) \ Reported(s)]}
    /\ job' = [job EXCEPT ![s] = "scored"]
    /\ pc' = [pc EXCEPT ![c] = "gateScore"]
    /\ UNCHANGED <<wait, cur>>

Score(c) ==
    /\ pc[c] = "score" /\ Unlocked(cur[c])
    /\ GiveUp(c) \/ StartWait(c) \/ WriteResult(c)
    /\ UNCHANGED <<verdict, envVars, held, todo, bad, mode, req, waited, wkVars,
                   resG, faults>>

\* The except branch of a scan: in a tick its entries stay unacknowledged.
Raise(c) ==
    /\ bad' = [bad EXCEPT ![c] = IF mode[c] = "tick" THEN @ \cup {cur[c]} ELSE @]
    /\ NextScan(c)

HasVerdict(s) == \E v \in verdict : v.scan = s

\* Variant: no primary key on verdict.scan_id.
GateWithoutKey(c, source, next) ==
    /\ verdict' = verdict \cup {[scan |-> cur[c], src |-> source,
                                 timeout |-> timeout[c]]}
    /\ pc' = [pc EXCEPT ![c] = next]
    /\ UNCHANGED <<cur, bad, timeout>>

\* decide_and_record in its own transaction: INSERT verdict, outbox and
\* audit_intent, or IntegrityError on the primary key verdict.scan_id.
Gate(c, source, next) ==
    IF HasVerdict(cur[c])
      THEN Raise(c) /\ UNCHANGED verdict
      ELSE /\ verdict' = verdict \cup {[scan |-> cur[c], src |-> source,
                                        timeout |-> timeout[c]]}
           /\ pc' = [pc EXCEPT ![c] = next]
           /\ UNCHANGED <<cur, bad, timeout>>

GateScore(c) ==
    /\ pc[c] = "gateScore"
    /\ Gate(c, "score", "decide")
    /\ UNCHANGED <<job, wait, result, envVars, held, todo, mode, req, waited, wkVars,
                   resG, faults>>

MarkDecided(c) ==
    /\ pc[c] = "decide"
    /\ job' = [job EXCEPT ![cur[c]] = IF @ = "scored" THEN "decided" ELSE @]
    /\ NextScan(c)
    /\ UNCHANGED <<wait, result, verdict, envVars, held, todo, bad, mode, req, waited,
                   wkVars, resG, faults>>

\* Variant: the state of the job is not looked at.
DeadCheckUnchecked(c) ==
    /\ pc[c] = "deadCheck" /\ Unlocked(cur[c])
    /\ pc' = [pc EXCEPT ![c] = "gateDead"]
    /\ UNCHANGED <<dbVars, envVars, cur, timeout, held, todo, bad, mode, req, waited,
                   wkVars, resG, faults>>

\* The three transactions of _dead_letter_and_decide.
DeadCheck(c) ==
    /\ pc[c] = "deadCheck" /\ Unlocked(cur[c])
    /\ IF job[cur[c]] \in Unscored
         THEN pc' = [pc EXCEPT ![c] = "gateDead"] /\ UNCHANGED <<cur, timeout>>
         ELSE NextScan(c)
    /\ UNCHANGED <<dbVars, envVars, held, todo, bad, mode, req, waited, wkVars,
                   resG, faults>>

GateDead(c) ==
    /\ pc[c] = "gateDead"
    /\ Gate(c, "deadletter", "markFailed")
    /\ UNCHANGED <<job, wait, result, envVars, held, todo, mode, req, waited, wkVars,
                   resG, faults>>

\* Variant: the UPDATE has lost its WHERE state IN ('queued', 'running').
MarkFailedUnguarded(c) ==
    /\ pc[c] = "markFailed"
    /\ job' = [job EXCEPT ![cur[c]] = "failed"]
    /\ NextScan(c)
    /\ UNCHANGED <<wait, result, verdict, envVars, held, todo, bad, mode, req, waited,
                   wkVars, resG, faults>>

MarkFailed(c) ==
    /\ pc[c] = "markFailed"
    /\ job' = [job EXCEPT ![cur[c]] = IF @ \in Unscored THEN "failed" ELSE @]
    /\ NextScan(c)
    /\ UNCHANGED <<wait, result, verdict, envVars, held, todo, bad, mode, req, waited,
                   wkVars, resG, faults>>

\* An exception in one of the transactions above, before it commits.
ScanFails(c) ==
    /\ pc[c] \in FailAt /\ Fault
    /\ cur[c] # NoScan
    /\ Raise(c)
    /\ UNCHANGED <<dbVars, envVars, held, todo, mode, req, waited, wkVars, resG>>

\* Variant: every entry of the batch is acknowledged.
AckableAll(c) == held[c]

\* The closing loop of a tick acknowledges the entries of every scan that did
\* not raise, decided or not, one XACK at a time.
Ackable(c) == {m \in held[c] : m[1] \notin bad[c]}

AckResult(c) ==
    /\ pc[c] = "ack"
    /\ \E m \in Ackable(c) :
         /\ resG' = Acked(resG, m)
         /\ held' = [held EXCEPT ![c] = @ \ {m}]
    /\ UNCHANGED <<dbVars, envVars, pc, todo, cur, bad, mode, req, waited, timeout,
                   wkVars, faults>>

\* The process forgets its batch: at the end of a tick, or by dying.
Forget(c) ==
    /\ pc' = [pc EXCEPT ![c] = "idle"]
    /\ held' = [held EXCEPT ![c] = {}]
    /\ todo' = [todo EXCEPT ![c] = {}]
    /\ cur' = [cur EXCEPT ![c] = NoScan]
    /\ bad' = [bad EXCEPT ![c] = {}]
    /\ mode' = [mode EXCEPT ![c] = "tick"]
    /\ req' = [req EXCEPT ![c] = {}]
    /\ waited' = [waited EXCEPT ![c] = {}]
    /\ timeout' = [timeout EXCEPT ![c] = {}]
    /\ UNCHANGED <<dbVars, envVars, wkVars, resG>>

EndTick(c) ==
    /\ pc[c] = "ack" /\ Ackable(c) = {}
    /\ Forget(c)
    /\ UNCHANGED faults

CollectorDies(c) ==
    /\ pc[c] \in CrashAt \ {"idle"} /\ Fault
    /\ Forget(c)
-----------------------------------------------------------------------------
(* The specification.                                                        *)

HasRow(s) == job[s] \in {"queued", "running", "scored", "decided", "failed"}

Quiet ==
    /\ \A g \in Groups : Live(scansG[g]) = {}
    /\ Live(resG) = {}
    /\ \A w \in Workers : wk[w].pc = "idle"
    /\ \A c \in Collectors : pc[c] = "idle"

\* The pipeline may rest only when every scan on record has its verdict; any
\* other state without a successor is a deadlock.
Rest ==
    /\ Quiet
    /\ \A s \in Scans : job[s] # "uncommitted" /\ (HasRow(s) => HasVerdict(s))
    /\ UNCHANGED vars

WorkerStep(w) ==
    \/ Claim(w)
    \/ w \in FloorWorkers /\ FloorTake(w)
    \/ w \in SandWorkers /\ SandTake(w)
    \/ PutBlob(w) \/ SendResult(w) \/ AckJob(w)

\* The steps of a collector from Pick to the end of its batch.
CollectorStep(c) ==
    \/ Pick(c) \/ MarkRunning(c) \/ Score(c) \/ GateScore(c) \/ MarkDecided(c)
    \/ DeadCheck(c) \/ GateDead(c) \/ MarkFailed(c) \/ AckResult(c) \/ EndTick(c)

Next ==
    \/ \E s \in Scans : \/ Submit(s) \/ Commit(s) \/ Rollback(s) \/ Rescan(s)
                        \/ SweepQueued(s) \/ WaitExpires(s)
    \/ ApplyPolicy
    \/ \E x \in Switchable : ToggleEngine(x)
    \/ \E g \in Groups, m \in ScanMsgs : ScanMsgGoesIdle(g, m)
    \/ \E m \in ResMsgs : ResMsgGoesIdle(m)
    \/ \E w \in Workers : WorkerStep(w) \/ JobFails(w) \/ WorkerDies(w)
    \/ \E c \in Collectors : \/ Tick(c) \/ Sweep(c) \/ CollectorStep(c)
                             \/ ScanFails(c) \/ CollectorDies(c)
    \/ Rest

Spec == Init /\ [][Next]_vars

\* worker_tick and the sandbox runner loop for ever, so each process goes on
\* stepping; worker_tick comes back to the collector tick and to the wait sweep
\* in every round, whatever else it does in between, hence strong fairness
\* there; time passes.  Submissions, faults and administrators owe nothing.
Fairness ==
    /\ \A s \in Scans : WF_vars(Commit(s)) /\ WF_vars(SweepQueued(s))
                                           /\ WF_vars(WaitExpires(s))
    /\ \A g \in Groups, m \in ScanMsgs : WF_vars(ScanMsgGoesIdle(g, m))
    /\ \A m \in ResMsgs : WF_vars(ResMsgGoesIdle(m))
    /\ \A w \in Workers : WF_vars(WorkerStep(w))
    /\ \A c \in Collectors : /\ WF_vars(CollectorStep(c))
                             /\ SF_vars(Tick(c)) /\ SF_vars(Sweep(c))

FairSpec == Spec /\ Fairness
-----------------------------------------------------------------------------
(* Properties.                                                               *)

\* Every variable has its type; the streams, rows and process states named in
\* orchestration/service.py, worker.py and airlock.py.
TypeOK ==
    /\ job \in [Scans -> JobStates]
    /\ wait \in [Scans -> {"null", "started", "expired"}]
    /\ result \in SUBSET ResultRow
    /\ verdict \in SUBSET VerdictRow
    /\ blob \in [Scans -> SUBSET (Floor \cup Sandbox)]
    /\ policy \in PolicyIds
    /\ toggle \in [Sandbox -> {"on", "off", "reenabled"}]
    /\ scansG \in [Groups -> Group(ScanMsgs)]
    /\ resG \in Group(ResMsgs)
    /\ engines \in [ScanMsgs -> SUBSET Floor]
    /\ wk \in [Workers -> WorkerState]
    /\ pc \in [Collectors -> CollectorPC]
    /\ held \in [Collectors -> SUBSET ResMsgs]
    /\ todo \in [Collectors -> SUBSET Scans]
    /\ cur \in [Collectors -> Scans \cup {NoScan}]
    /\ bad \in [Collectors -> SUBSET Scans]
    /\ mode \in [Collectors -> {"tick", "force"}]
    /\ req \in [Collectors -> SUBSET Floor]
    /\ waited \in [Collectors -> SUBSET Sandbox]
    /\ timeout \in [Collectors -> SUBSET Sandbox]
    /\ faults \in 0..MaxFaults

\* scan_job.state never tells another story than the rows: a decided scan has a
\* scored verdict and the result row it was computed from, a failed scan has
\* the forced BLOCK of _dead_letter_and_decide and no result row, and nothing
\* but the score path produces a scored verdict.
StateMatchesRows ==
    \A s \in Scans :
        /\ job[s] = "decided" =>
             /\ \E v \in verdict : v.scan = s /\ v.src = "score"
             /\ \E r \in result : r.scan = s
        /\ job[s] = "failed" =>
             /\ \E v \in verdict : v.scan = s /\ v.src = "deadletter"
             /\ ~ \E r \in result : r.scan = s
        /\ (\E v \in verdict : v.scan = s /\ v.src = "score") =>
             job[s] \in {"scored", "decided"}

\* Collector ticks, wait sweeps, dead letters and retries of any number of
\* replicas issue at most one verdict for a scan, from at most one result row
\* (verdict.scan_id is the only guard that spans the three transactions).
OneVerdictPerScan ==
    /\ \A v1, v2 \in verdict : v1.scan = v2.scan => v1 = v2
    /\ \A r1, r2 \in result : r1.scan = r2.scan => r1 = r2

\* A verdict that names a sandbox_wait_timeout was reached after the wait that
\* sandbox_wait_started_at records had run out, and names only engines the
\* health rows show as not reported (F-2 in sweep_sandbox_wait_timeouts).
TimeoutOnlyAfterWait ==
    \A v \in verdict : v.timeout # {} =>
        /\ wait[v.scan] = "expired"
        /\ \E r \in result : r.scan = v.scan /\ v.timeout \subseteq r.missing

\* No silent downgrade: an engine whose findings a scored verdict lacks is
\* named in its timeout reason, or an administrator had switched it off; a
\* required engine is never lacking.
NoSilentDowngrade ==
    \A v \in verdict, r \in result :
        v.scan = r.scan /\ v.src = "score" =>
            r.missing \subseteq v.timeout \cup {x \in Sandbox : toggle[x] # "on"}

\* No lost wakeup: somebody still owes a running scan a step.  Its job or one
\* of its results is unacknowledged, or its sandbox wait is on record, which is
\* all the collector tick and the wait sweep will ever look at, or a collector
\* has it in hand.
RunningScanIsOwed ==
    \A s \in Scans : job[s] = "running" =>
        \/ wait[s] # "null"
        \/ \E m \in Live(scansG["floor"]) : m[1] = s
        \/ \E m \in Live(resG) : m[1] = s
        \/ \E c \in Collectors : s = cur[c] \/ s \in todo[c]

\* "Nothing is silently dropped" (RESULT_POISON_PILL_REASON): a scored scan
\* without a verdict still has an unacknowledged result, or a collector at work
\* on it, that will lead to the verdict.
ScoredScanIsOwed ==
    \A s \in Scans : job[s] = "scored" /\ ~ HasVerdict(s) =>
        \/ \E m \in Live(resG) : m[1] = s
        \/ \E c \in Collectors : s = cur[c] \/ s \in todo[c]

\* A dead-lettered scan "was decided WITHOUT a result row": its forced BLOCK and
\* a scan_result row never coexist (get_scan_result_view).
DeadLetterHasNoResult ==
    \A v \in verdict : v.src = "deadletter" => ~ \E r \in result : r.scan = v.scan

\* The ledger the rest of the system sees.
StateOf(s) ==
    IF job[s] \in Unscored THEN "open"
    ELSE IF job[s] \in {"scored", "decided", "failed"} THEN job[s]
    ELSE "none"

IssuedFor(s) ==
    IF \E v \in verdict : v.scan = s /\ v.src = "score" THEN "score"
    ELSE IF HasVerdict(s) THEN "deadletter"
    ELSE "none"

Ledger == INSTANCE ScanLedger WITH
            state  <- [s \in Scans |-> StateOf(s)],
            issued <- [s \in Scans |-> IssuedFor(s)]

\* Whatever the replicas, redeliveries, exceptions and deaths, the rows of a
\* scan go through the steps of the ledger and no others: the three separate
\* transactions of _try_score_and_decide and of _dead_letter_and_decide never
\* reopen a scan, reissue its verdict or close it under the other path's
\* verdict.
ImplementsLedger == Ledger!LedgerSpec

\* Every scan on record eventually has a signed verdict.
EveryScanGetsVerdict ==
    \A s \in Scans : HasRow(s) ~> HasVerdict(s)

\* Both streams run dry: no entry is redelivered for ever.
StreamsDrain ==
    <>[](Live(resG) = {} /\ \A g \in Groups : Live(scansG[g]) = {})
=============================================================================
