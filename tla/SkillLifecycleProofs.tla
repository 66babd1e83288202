------------------------ MODULE SkillLifecycleProofs ------------------------
(***************************************************************************)
(* What SkillLifecycle's invariants say holds for any number of skills,    *)
(* contents, users, replicas and requests.                                 *)
(***************************************************************************)
EXTENDS SkillLifecycle, WellFoundedInduction, TLAPS

-----------------------------------------------------------------------------
(* The last event of a skill *)

\* A set of naturals has a least element.
LEMMA LeastExists ==
    ASSUME NEW S \in SUBSET Nat, S # {}
    PROVE  \E x \in S : \A y \in S : x <= y
<1>1. IsWellFoundedOn(OpToRel(<, Nat), Nat)
  BY NatLessThanWellFounded, Zenon
<1> DEFINE R == {ss \in Nat \X Nat : ss[1] < ss[2]}
<1>2. R = OpToRel(<, Nat)
  BY Zenon DEF OpToRel
<1>3. IsWellFoundedOn(R, Nat)
  BY <1>1, <1>2, Zenon
<1> HIDE DEF R
<1>4. PICK x \in S : \A y \in S : ~(<<y, x>> \in R)
  BY <1>3, WFMin, Zenon
<1>5. \A y \in S : <<y, x>> \in R <=> y < x
  BY Zenon DEF R
<1>6. \A y \in S : x \in Nat /\ y \in Nat /\ ~(y < x)
  BY <1>4, <1>5, Zenon
<1> QED
  BY <1>6

\* A bounded one has a greatest, which Max chooses.
LEMMA GreatestExists ==
    ASSUME NEW n \in Nat, NEW S \in SUBSET (0 .. n), S # {}
    PROVE  /\ Max(S) \in S
           /\ \A y \in S : Max(S) >= y
<1> DEFINE D == {n - y : y \in S}
<1>1. \A y \in S : n - y \in Nat
  OBVIOUS
<1>2. D \in SUBSET Nat /\ D # {}
  <2>1. D \in SUBSET Nat
    BY <1>1, Zenon
  <2>2. PICK y \in S : TRUE
    BY Zenon
  <2>3. n - y \in D
    BY Zenon
  <2> QED
    BY <2>1, <2>3, Zenon
<1>3. PICK d \in D : \A e \in D : d <= e
  BY <1>2, LeastExists, Zenon
<1>4. PICK x \in S : d = n - x
  BY <1>3, Zenon
<1>5. \A y \in S : x >= y
  BY <1>3, <1>4
<1> QED
  BY <1>5, Zenon DEF Max

\* LastOf is the greatest index of a row about the skill, or 0.
LEMMA LastOfIsLast ==
    ASSUME NEW rows \in Seq(EventRow), NEW n \in 0 .. Len(rows), NEW k
    PROVE  /\ LastOf(rows, n, k) \in 0 .. n
           /\ LastOf(rows, n, k) # 0 => rows[LastOf(rows, n, k)].skill = k
           /\ \A i \in 1 .. n : rows[i].skill = k => i <= LastOf(rows, n, k)
<1> DEFINE S == {0} \cup {i \in 1 .. n : rows[i].skill = k}
<1>1. S \in SUBSET (0 .. n) /\ S # {} /\ n \in Nat
  OBVIOUS
<1>2. LastOf(rows, n, k) = Max(S)
  BY Zenon DEF LastOf
<1> HIDE DEF S
<1>3. Max(S) \in S /\ \A y \in S : Max(S) >= y
  BY <1>1, GreatestExists, Zenon
<1>4. \A i \in 1 .. n : rows[i].skill = k => i \in S
  BY Zenon DEF S
<1>5. \A x \in S : x \in 0 .. n /\ (x # 0 => rows[x].skill = k)
  BY DEF S
<1> QED
  BY <1>2, <1>3, <1>4, <1>5, Zenon

\* The table only grows, so what a snapshot shows stays as it is.
LEMMA SnapshotStays ==
    ASSUME NEW rows \in Seq(EventRow), NEW more \in Seq(EventRow),
           Len(rows) <= Len(more), \A i \in 1 .. Len(rows) : more[i] = rows[i],
           NEW n \in 0 .. Len(rows), NEW k
    PROVE  LastOf(more, n, k) = LastOf(rows, n, k)
<1>1. {i \in 1 .. n : more[i].skill = k} = {i \in 1 .. n : rows[i].skill = k}
  OBVIOUS
<1> QED
  BY <1>1, Zenon DEF LastOf

\* A new row is the last of its skill and of no other.
LEMMA LastOfAppended ==
    ASSUME NEW rows \in Seq(EventRow), NEW e \in EventRow, NEW k
    PROVE  LastOf(Append(rows, e), Len(rows) + 1, k) =
               IF e.skill = k THEN Len(rows) + 1 ELSE LastOf(rows, Len(rows), k)
<1> DEFINE more == Append(rows, e)
           i == LastOf(more, Len(rows) + 1, k)
<1>1. /\ more \in Seq(EventRow) /\ Len(more) = Len(rows) + 1 /\ Len(rows) \in Nat
      /\ \A j \in 1 .. Len(rows) : more[j] = rows[j]
      /\ more[Len(rows) + 1] = e
  OBVIOUS
<1> HIDE DEF more
<1>2. /\ i \in 0 .. (Len(rows) + 1)
      /\ i # 0 => more[i].skill = k
      /\ \A j \in 1 .. (Len(rows) + 1) : more[j].skill = k => j <= i
  BY <1>1, LastOfIsLast
<1>3. CASE e.skill = k
  <2>1. Len(rows) + 1 <= i
    BY <1>1, <1>2, <1>3
  <2> QED
    BY <1>1, <1>2, <1>3, <2>1 DEF more
<1>4. CASE e.skill # k
  <2>1. {j \in 1 .. (Len(rows) + 1) : more[j].skill = k} = {j \in 1 .. Len(rows) : rows[j].skill = k}
    BY <1>1, <1>4
  <2> QED
    BY <1>4, <2>1, Zenon DEF LastOf, more
<1> QED
  BY <1>3, <1>4, Zenon

-----------------------------------------------------------------------------
(* The inductive invariant *)

ReqState ==
    {Idle}
    \cup [pc : {"submit"}, skill : Skills, content : Contents, admin : BOOLEAN]
    \cup [pc : {"register"}, skill : Skills, content : Contents, admin : BOOLEAN, scan : Scans]
    \cup [pc : {"commit"}, skill : Skills, content : Contents, scan : Scans, n : Nat,
          newSkill : BOOLEAN, newVersion : BOOLEAN]
    \cup [pc : {"decide"}, scan : Scans]

AdmState == {Idle} \cup [pc : {"commit"}, skill : Skills, to : AdminTargets, n : Nat]

Change == [skill : Skills, to : States]

SyncState ==
    {Idle}
    \cup [pc : {"verdicts"}, n : Nat]
    \cup [pc : {"next"}, n : Nat, todo : SUBSET Change]
    \cup [pc : {"commit"}, n : Nat, todo : SUBSET Change, cur : Change, at : Nat,
          base : [content : Contents, at : Nat] \cup {None}]
    \cup [pc : {"drift"}, n : Nat, todo : SUBSET Change, cur : Change, content : Contents]
    \cup [pc : {"quarantine"}, n : Nat, todo : SUBSET Change, cur : Change,
          content : Contents, at : Nat]

LifeTyped ==
    /\ owner \in [Skills -> Users \cup {None, Nobody}]
    /\ version \in [Contents -> Skills \cup {None}]
    /\ events \in Seq(EventRow)
    /\ baseline \in [Skills -> [content : Contents, at : Nat] \cup {None}]
    /\ toolchain \in Toolchains
    /\ job \in [Scans -> SUBSET Users]
    /\ verdict \in [Scans -> DOMAIN VerdictTarget \cup {None}]
    /\ passed \in SUBSET Scans
    /\ req \in [Users -> ReqState]
    /\ adm \in AdmState
    /\ sync \in [Replicas -> SyncState]

\* The state a skill has in a snapshot of the table
StateIn(rows, n, k) ==
    LET i == LastOf(rows, n, k) IN IF i = 0 THEN None ELSE rows[i].to

\* The event a skill waits on in a snapshot names a scan of its content, which
\* the submission before it had named.
NamesScan(rows, n, k) ==
    LET i == LastOf(rows, n, k)
    IN  i # 0 /\ rows[i].to \in WaitingStates =>
            /\ rows[i].scan \in Scans
            /\ rows[i].scan[1] = rows[i].content
            /\ \E j \in 1 .. n : /\ rows[j].skill = k
                                  /\ rows[j].to = "scanning"
                                  /\ rows[j].scan = rows[i].scan

\* A transition that is due in a snapshot: the skill waits there, and it is
\* published only when the scan it waits for has passed.
Due(rows, ps, n, t) ==
    LET i == LastOf(rows, n, t.skill)
    IN  /\ i # 0 /\ rows[i].to \in WaitingStates /\ NamesScan(rows, n, t.skill)
        /\ t.to = "published" => rows[i].scan \in ps

\* What a transaction read at n allows the transition it will commit.
Allowed(rows, n, k, to) == n <= Len(rows) /\ ValidateTransition(StateIn(rows, n, k), to)

RequestOK(q, rows, own, ver) ==
    /\ q.pc \in {"register", "commit"} => q.scan[1] = q.content
    /\ q.pc = "commit" => /\ Allowed(rows, q.n, q.skill, "submitted")
                          /\ ~q.newSkill => own[q.skill] # None
                          /\ ~q.newVersion => ver[q.content] # None

AdminOK(q, rows) == q.pc = "commit" => Allowed(rows, q.n, q.skill, q.to)

SyncOK(q, rows, ps) ==
    /\ q.pc # "idle" => q.n <= Len(rows)
    /\ q.pc = "verdicts" => \A k \in Skills : NamesScan(rows, q.n, k)
    /\ q.pc \notin {"idle", "verdicts"} => \A t \in q.todo : Due(rows, ps, q.n, t)
    /\ q.pc = "commit" => /\ Due(rows, ps, q.n, q.cur)
                          /\ Allowed(rows, q.at, q.cur.skill, q.cur.to)
    /\ q.pc = "quarantine" => Allowed(rows, q.at, q.cur.skill, "quarantined")

\* EventsFollowTable and PublishedUnderOwnVerdict, of one row
RowFollows(rows, i) ==
    /\ ValidateTransition(rows[i].from, rows[i].to)
    /\ \/ rows[i].from = None
       \/ \E j \in 1 .. (i - 1) : /\ rows[j].skill = rows[i].skill
                                   /\ rows[j].to = rows[i].from

RowPassed(rows, ps, i) ==
    rows[i].to = "published" /\ rows[i].by = Worker =>
        /\ rows[i].scan \in ps
        /\ rows[i].scan[1] = rows[i].content
        /\ \E j \in 1 .. (i - 1) : /\ rows[j].skill = rows[i].skill
                                    /\ rows[j].to = "scanning"
                                    /\ rows[j].scan = rows[i].scan

RowsOK(rows, ps) ==
    /\ \A i \in 1 .. Len(rows) : RowFollows(rows, i) /\ RowPassed(rows, ps, i)
    /\ \A k \in Skills : NamesScan(rows, Len(rows), k)

LifeInv ==
    /\ LifeTyped
    /\ RowsOK(events, passed) /\ DriftIsCaught
    /\ \A c \in Contents : version[c] # None => owner[version[c]] # None
    /\ \A s \in Scans : verdict[s] = "PASS" => s \in passed
    /\ \A u \in Users : RequestOK(req[u], events, owner, version)
    /\ AdminOK(adm, events)
    /\ \A r \in Replicas : SyncOK(sync[r], events, passed)

\* The inductive invariant has the three safety invariants as parts.
LEMMA LifeInvImplies ==
    LifeInv => EventsFollowTable /\ PublishedUnderOwnVerdict /\ DriftIsCaught
BY Zenon DEF LifeInv, RowsOK, RowFollows, RowPassed, EventsFollowTable, PublishedUnderOwnVerdict, Now

\* CurrentState reads the state of the last event.
LEMMA CurrentStateIs ==
    ASSUME LifeTyped, NEW n \in 0 .. Now, NEW k
    PROVE  CurrentState(n, k) = StateIn(events, n, k)
<1>1. LastOf(events, n, k) \in 0 .. n
  BY LastOfIsLast, Zenon DEF LifeTyped, Now
<1>2. LastOf(events, n, k) # 0 => events[LastOf(events, n, k)] \in EventRow
  BY <1>1 DEF LifeTyped, Now
<1> QED
  BY <1>1, <1>2, LifecycleAssumption, Zenon DEF CurrentState, StateIn, LatestEvent

-----------------------------------------------------------------------------
(* What the growth of the table keeps *)

Extends(rows, more) ==
    /\ rows \in Seq(EventRow) /\ more \in Seq(EventRow)
    /\ Len(rows) <= Len(more)
    /\ \A i \in 1 .. Len(rows) : more[i] = rows[i]

\* Whatever was read in a snapshot is still so.
LEMMA ReadsStay ==
    ASSUME NEW rows, NEW more, Extends(rows, more), NEW n \in 0 .. Len(rows), NEW k \in Skills
    PROVE  /\ StateIn(more, n, k) = StateIn(rows, n, k)
           /\ NamesScan(rows, n, k) => NamesScan(more, n, k)
           /\ \A to : Allowed(rows, n, k, to) => Allowed(more, n, k, to)
           /\ \A ps, ps2 : \A t \in Change :
                 ps \subseteq ps2 /\ t.skill = k /\ Due(rows, ps, n, t) => Due(more, ps2, n, t)
<1> DEFINE i == LastOf(rows, n, k)
<1>1. LastOf(more, n, k) = i
  BY SnapshotStays, Zenon DEF Extends
<1>2. i \in 0 .. n
  BY LastOfIsLast, Zenon DEF Extends
<1>3. i # 0 => more[i] = rows[i]
  BY <1>2 DEF Extends
<1>4. \A j \in 1 .. n : more[j] = rows[j]
  BY DEF Extends
<1> HIDE DEF i
<1>5. StateIn(more, n, k) = StateIn(rows, n, k)
  BY <1>1, <1>3, Zenon DEF StateIn, i
<1>6. NamesScan(rows, n, k) => NamesScan(more, n, k)
  BY <1>1, <1>3, <1>4, Zenon DEF NamesScan, i
<1>7. \A to : Allowed(rows, n, k, to) => Allowed(more, n, k, to)
  BY <1>5 DEF Allowed, Extends
<1>8. ASSUME NEW ps, NEW ps2, NEW t \in Change, ps \subseteq ps2, t.skill = k,
             Due(rows, ps, n, t)
      PROVE  Due(more, ps2, n, t)
  BY <1>1, <1>3, <1>6, <1>8, Zenon DEF Due, i
<1> QED
  BY <1>5, <1>6, <1>7, <1>8, Zenon

\* A request, an administrator and a tick that wait keep their part of the
\* invariant while others insert rows.
LEMMA WaitersStay ==
    ASSUME NEW rows, NEW more, Extends(rows, more),
           NEW ps, NEW ps2, ps \subseteq ps2
    PROVE  /\ \A q \in ReqState : \A own, ver, own2, ver2 :
                 /\ RequestOK(q, rows, own, ver)
                 /\ \A k \in Skills : own[k] # None => own2[k] # None
                 /\ \A c \in Contents : ver[c] # None => ver2[c] # None
                 => RequestOK(q, more, own2, ver2)
           /\ \A q \in AdmState : AdminOK(q, rows) => AdminOK(q, more)
           /\ \A q \in SyncState : SyncOK(q, rows, ps) => SyncOK(q, more, ps2)
<1>1. Len(rows) \in Nat /\ Len(more) \in Nat /\ Len(rows) <= Len(more)
  BY DEF Extends
<1>2. ASSUME NEW n \in Nat, NEW k \in Skills, NEW to, Allowed(rows, n, k, to)
      PROVE  Allowed(more, n, k, to)
  <2>1. n \in 0 .. Len(rows)
    BY <1>1, <1>2 DEF Allowed
  <2> QED
    BY <1>2, <2>1, ReadsStay, Zenon
<1>3. ASSUME NEW q \in ReqState, NEW own, NEW ver, NEW own2, NEW ver2,
             RequestOK(q, rows, own, ver),
             \A k \in Skills : own[k] # None => own2[k] # None,
             \A c \in Contents : ver[c] # None => ver2[c] # None
      PROVE  RequestOK(q, more, own2, ver2)
  <2>1. q.pc = "commit" => /\ q.n \in Nat /\ q.skill \in Skills /\ q.content \in Contents
    BY DEF ReqState, Idle
  <2> QED
    BY <1>2, <1>3, <2>1, Zenon DEF RequestOK
<1>4. ASSUME NEW q \in AdmState, AdminOK(q, rows)
      PROVE  AdminOK(q, more)
  <2>1. q.pc = "commit" => q.n \in Nat /\ q.skill \in Skills
    BY DEF AdmState, Idle
  <2> QED
    BY <1>2, <1>4, <2>1, Zenon DEF AdminOK
<1>5. ASSUME NEW q \in SyncState, SyncOK(q, rows, ps)
      PROVE  SyncOK(q, more, ps2)
  <2>1. /\ q.pc # "idle" => q.n \in Nat
        /\ q.pc \notin {"idle", "verdicts"} => q.todo \in SUBSET Change
        /\ q.pc = "commit" => q.cur \in Change /\ q.at \in Nat
        /\ q.pc = "quarantine" => q.cur \in Change /\ q.at \in Nat
    BY DEF SyncState, Idle
  <2>2. \A t \in Change : t.skill \in Skills
    BY Zenon DEF Change
  <2>3. q.pc # "idle" => q.n \in 0 .. Len(rows) /\ q.n <= Len(more)
    BY <1>1, <1>5, <2>1 DEF SyncOK
  <2>4. q.pc = "verdicts" => \A k \in Skills : NamesScan(more, q.n, k)
    BY <1>5, <2>3, ReadsStay, Zenon DEF SyncOK
  <2>5. ASSUME NEW t \in Change, q.pc # "idle", Due(rows, ps, q.n, t)
        PROVE  Due(more, ps2, q.n, t)
    BY <2>2, <2>3, <2>5, ReadsStay, Zenon
  <2>6. q.pc \notin {"idle", "verdicts"} => \A t \in q.todo : Due(more, ps2, q.n, t)
    BY <1>5, <2>1, <2>5, Zenon DEF SyncOK
  <2>7. q.pc = "commit" => /\ Due(more, ps2, q.n, q.cur)
                          /\ Allowed(more, q.at, q.cur.skill, q.cur.to)
    BY <1>2, <1>5, <2>1, <2>2, <2>5, Zenon DEF SyncOK
  <2>8. q.pc = "quarantine" => Allowed(more, q.at, q.cur.skill, "quarantined")
    BY <1>2, <1>5, <2>1, <2>2, Zenon DEF SyncOK
  <2> QED
    BY <2>3, <2>4, <2>6, <2>7, <2>8, Zenon DEF SyncOK
<1> QED
  BY <1>3, <1>4, <1>5, Zenon

\* An event that leaves a state its skill had in a snapshot, as the table allows,
\* can be appended.  One that makes the skill wait has to name the scan.
LEMMA RowAppended ==
    ASSUME NEW rows \in Seq(EventRow), NEW ps, RowsOK(rows, ps), NEW e \in EventRow,
           ValidateTransition(e.from, e.to),
           NEW n \in 0 .. Len(rows), e.from = StateIn(rows, n, e.skill),
           e.to = "published" /\ e.by = Worker =>
               /\ e.scan \in ps /\ e.scan[1] = e.content
               /\ \E j \in 1 .. Len(rows) : /\ rows[j].skill = e.skill
                                            /\ rows[j].to = "scanning"
                                            /\ rows[j].scan = e.scan,
           e.to \in WaitingStates =>
               /\ e.scan \in Scans /\ e.scan[1] = e.content
               /\ \/ e.to = "scanning"
                  \/ \E j \in 1 .. Len(rows) : /\ rows[j].skill = e.skill
                                               /\ rows[j].to = "scanning"
                                               /\ rows[j].scan = e.scan
    PROVE  /\ RowsOK(Append(rows, e), ps)
           /\ Extends(rows, Append(rows, e))
<1> DEFINE more == Append(rows, e)
           last == Len(rows) + 1
<1>1. /\ more \in Seq(EventRow) /\ Len(more) = last /\ Len(rows) \in Nat
      /\ \A j \in 1 .. Len(rows) : more[j] = rows[j]
      /\ more[last] = e
  OBVIOUS
<1>2. \A k : LastOf(more, last, k) = IF e.skill = k THEN last ELSE LastOf(rows, Len(rows), k)
  BY LastOfAppended, Zenon
<1> HIDE DEF more
<1>3. Extends(rows, more)
  BY <1>1 DEF Extends
<1>4. ASSUME NEW i \in 1 .. Len(rows)
      PROVE  RowFollows(more, i) /\ RowPassed(more, ps, i)
  <2>1. more[i] = rows[i] /\ \A j \in 1 .. (i - 1) : more[j] = rows[j]
    BY <1>1
  <2>2. RowFollows(rows, i) /\ RowPassed(rows, ps, i)
    BY Zenon DEF RowsOK
  <2> QED
    BY <2>1, <2>2, Zenon DEF RowFollows, RowPassed
<1>5. RowFollows(more, last)
  <2>1. LastOf(rows, n, e.skill) \in 0 .. n
    BY LastOfIsLast, Zenon
  <2>2. LastOf(rows, n, e.skill) # 0 => rows[LastOf(rows, n, e.skill)].skill = e.skill
    BY LastOfIsLast, Zenon
  <2> QED
    BY <1>1, <2>1, <2>2 DEF RowFollows, StateIn
<1>6. RowPassed(more, ps, last)
  BY <1>1 DEF RowPassed
<1>7. ASSUME NEW k \in Skills
      PROVE  NamesScan(more, last, k)
  <2>1. CASE e.skill = k
    BY <1>1, <1>2, <2>1 DEF NamesScan
  <2>2. CASE e.skill # k
    <3>1. LastOf(rows, Len(rows), k) \in 0 .. Len(rows)
      BY LastOfIsLast
    <3>2. NamesScan(rows, Len(rows), k)
      BY Zenon DEF RowsOK
    <3> QED
      BY <1>1, <1>2, <2>2, <3>1, <3>2 DEF NamesScan
  <2> QED
    BY <2>1, <2>2, Zenon
<1>8. \A i \in 1 .. last : i \in 1 .. Len(rows) \/ i = last
  BY <1>1
<1> QED
  BY <1>1, <1>3, <1>4, <1>5, <1>6, <1>7, <1>8, Zenon DEF RowsOK, more

\* Rows stay as good as they were when more scans have passed.
LEMMA RowsStay ==
    ASSUME NEW rows, NEW ps, NEW ps2, ps \subseteq ps2, RowsOK(rows, ps)
    PROVE  RowsOK(rows, ps2)
BY Zenon DEF RowsOK, RowPassed

-----------------------------------------------------------------------------
(* Initial states *)

\* There is no history, or one of a skill that was published long ago.
LEMMA LifeInitially == LifeInit => LifeInv
<1> SUFFICES ASSUME LifeInit PROVE LifeInv
  BY Zenon
<1>1. /\ toolchain \in Toolchains
      /\ \A u \in Users : req[u] = Idle
      /\ \A r \in Replicas : sync[r] = Idle
      /\ adm = Idle /\ Idle.pc = "idle"
  BY LifecycleAssumption, Zenon DEF LifeInit, Idle
<1>2. /\ owner \in [Skills -> Users \cup {None, Nobody}]
      /\ version \in [Contents -> Skills \cup {None}]
      /\ events \in Seq(EventRow)
      /\ \A c \in Contents : version[c] # None => owner[version[c]] # None
      /\ RowsOK(events, passed)
      /\ \A i \in 1 .. Now : events[i].by # Worker
  <2>1. CASE /\ owner = [k \in Skills |-> None]
             /\ version = [c \in Contents |-> None]
             /\ events = << >>
    <3>1. Len(<< >>) = 0 /\ << >> \in Seq(EventRow) /\ 0 \in 0 .. Len(<< >>)
      OBVIOUS
    <3>2. \A k \in Skills : LastOf(<< >>, 0, k) \in 0 .. 0
      BY <3>1, LastOfIsLast, Zenon
    <3>3. RowsOK(<< >>, passed)
      BY <3>1, <3>2 DEF RowsOK, NamesScan
    <3> QED
      BY <2>1, <3>1, <3>3 DEF Now
  <2>2. ASSUME NEW k \in Skills, NEW c \in Contents,
               owner = [x \in Skills |-> IF x = k THEN Nobody ELSE None],
               version = [x \in Contents |-> IF x = c THEN k ELSE None],
               events = History(k, c)
        PROVE  /\ owner \in [Skills -> Users \cup {None, Nobody}]
               /\ version \in [Contents -> Skills \cup {None}]
               /\ events \in Seq(EventRow)
               /\ \A x \in Contents : version[x] # None => owner[version[x]] # None
               /\ RowsOK(events, passed)
               /\ \A i \in 1 .. Now : events[i].by # Worker
    <3> DEFINE e1 == Event(k, None, "submitted", c, None, Nobody)
               e2 == Event(k, "submitted", "scanning", c, None, Nobody)
               e3 == Event(k, "scanning", "published", c, None, Nobody)
    <3>1. e1 \in EventRow /\ e2 \in EventRow /\ e3 \in EventRow
      BY Zenon DEF Event, EventRow, States, ValidTransitions
    <3>2. /\ e1.skill = k /\ e1.from = None /\ e1.to = "submitted" /\ e1.by = Nobody
          /\ e2.skill = k /\ e2.from = "submitted" /\ e2.to = "scanning" /\ e2.by = Nobody
          /\ e3.skill = k /\ e3.from = "scanning" /\ e3.to = "published" /\ e3.by = Nobody
      BY Zenon DEF Event
    <3>3. events = <<e1, e2, e3>>
      BY <2>2, Zenon DEF History
    <3> HIDE DEF e1, e2, e3
    <3>4. /\ events \in Seq(EventRow) /\ Len(events) = 3
          /\ events[1] = e1 /\ events[2] = e2 /\ events[3] = e3
      BY <3>1, <3>3
    <3>5. \A i \in 1 .. 3 : RowFollows(events, i) /\ RowPassed(events, passed, i)
      <4>1. RowFollows(events, 1) /\ RowFollows(events, 2) /\ RowFollows(events, 3)
        <5>1. ValidateTransition(None, "submitted")
          BY Zenon DEF ValidateTransition
        <5>2. ValidateTransition("submitted", "scanning") /\ ValidateTransition("scanning", "published")
          BY LifecycleAssumption, Zenon DEF ValidateTransition, ValidTransitions, States
        <5> QED
          BY <3>2, <3>4, <5>1, <5>2 DEF RowFollows
      <4>2. \A i \in 1 .. 3 : events[i].by = Nobody /\ (i = 1 \/ i = 2 \/ i = 3)
        BY <3>2, <3>4
      <4>3. Nobody # Worker
        BY Zenon DEF Nobody, Worker
      <4> QED
        BY <4>1, <4>2, <4>3, Zenon DEF RowPassed
    <3>6. ASSUME NEW x \in Skills
          PROVE  NamesScan(events, 3, x)
      <4>0. 3 \in 0 .. Len(events)
        BY <3>4
      <4>1. /\ LastOf(events, 3, x) \in 0 .. 3
            /\ LastOf(events, 3, x) # 0 => events[LastOf(events, 3, x)].skill = x
            /\ \A i \in 1 .. 3 : events[i].skill = x => i <= LastOf(events, 3, x)
        BY <3>4, <4>0, LastOfIsLast, Zenon
      <4>2. LastOf(events, 3, x) = 0 \/ LastOf(events, 3, x) = 3
        BY <3>2, <3>4, <4>1
      <4> QED
        BY <3>2, <3>4, <4>2, Zenon DEF NamesScan, WaitingStates
    <3>7. RowsOK(events, passed)
      BY <3>4, <3>5, <3>6, Zenon DEF RowsOK
    <3>8. \A i \in 1 .. Now : events[i].by # Worker
      BY <3>2, <3>4 DEF Now, Nobody, Worker
    <3> QED
      BY <2>2, <3>4, <3>7, <3>8, LifecycleAssumption, Zenon
  <2>3. \A b \in Scenarios : (CHOOSE x \in b.skills : TRUE) \in Skills
    BY LifecycleAssumption, Zenon
  <2>4. (CHOOSE x \in Contents : TRUE) \in Contents
    BY LifecycleAssumption, Zenon
  <2> QED
    BY <2>1, <2>2, <2>3, <2>4, Zenon DEF LifeInit
<1>3. LifeTyped
  BY <1>1, <1>2, Zenon DEF LifeInit, LifeTyped, ReqState, AdmState, SyncState
<1>4. DriftIsCaught
  BY <1>2, LastOfIsLast DEF DriftIsCaught, Now
<1>5. \A s \in Scans : verdict[s] # "PASS"
  BY LifecycleAssumption, Zenon DEF LifeInit, VerdictTarget
<1> QED
  BY <1>1, <1>2, <1>3, <1>4, <1>5, Zenon DEF LifeInv, RequestOK, AdminOK, SyncOK

-----------------------------------------------------------------------------
(* Steps that insert no event *)

\* The replicas that are on their way to quarantine a skill
Catching(q) == q.pc \in {"drift", "quarantine"}

\* A step that changes neither rows of the inventory nor a tick that is on its
\* way to quarantine a skill keeps the invariant if what it changes is right.
LEMMA QuietStep ==
    ASSUME LifeInv, LifeTyped', UNCHANGED <<owner, version, events, baseline>>,
           passed \subseteq passed', \A s \in Scans : verdict'[s] = "PASS" => s \in passed',
           \A u \in Users : req'[u] = req[u] \/ RequestOK(req'[u], events, owner, version),
           adm' = adm \/ AdminOK(adm', events),
           \A r \in Replicas : sync'[r] = sync[r] \/ SyncOK(sync'[r], events, passed'),
           \A r \in Replicas : Catching(sync[r]) =>
               /\ Catching(sync'[r])
               /\ sync'[r].cur = sync[r].cur /\ sync'[r].content = sync[r].content
    PROVE  LifeInv'
<1>1. RowsOK(events', passed')
  BY RowsStay, Zenon DEF LifeInv
<1>2. Extends(events, events)
  BY DEF LifeInv, LifeTyped, Extends
<1>3. \A r \in Replicas : SyncOK(sync'[r], events, passed')
  BY <1>2, WaitersStay, Zenon DEF LifeInv, LifeTyped
<1>4. DriftIsCaught'
  <2> SUFFICES ASSUME NEW k \in Skills,
                      LastOf(events, Now, k) # 0,
                      events[LastOf(events, Now, k)].to = "published",
                      events[LastOf(events, Now, k)].by = Worker,
                      IsDrift(baseline[k], events[LastOf(events, Now, k)].content),
                      baseline[k].at < LastOf(events, Now, k)
               PROVE  \E r \in Replicas :
                          /\ sync'[r].pc \in {"drift", "quarantine"}
                          /\ sync'[r].cur.skill = k
                          /\ sync'[r].content = events[LastOf(events, Now, k)].content
    BY Zenon DEF DriftIsCaught, Now, IsDrift
  <2>1. PICK r \in Replicas : /\ sync[r].pc \in {"drift", "quarantine"}
                              /\ sync[r].cur.skill = k
                              /\ sync[r].content = events[LastOf(events, Now, k)].content
    BY Zenon DEF LifeInv, DriftIsCaught
  <2>2. Catching(sync[r])
    BY <2>1, Zenon DEF Catching
  <2>3. /\ sync'[r].pc \in {"drift", "quarantine"}
        /\ sync'[r].cur.skill = k
        /\ sync'[r].content = events[LastOf(events, Now, k)].content
    BY <2>1, <2>2, Zenon DEF Catching
  <2> QED
    BY <2>3, Zenon
<1> QED
  BY <1>1, <1>3, <1>4, Zenon DEF LifeInv

\* Requests before they commit, and reviews
LEMMA RequestKeeps ==
    ASSUME LifeInv, NEW u \in Users,
           \/ \E k \in Skills, c \in Contents : Preflight(u, k, c) \/ MarketPreflight(u, k, c)
           \/ SubmitScan(u) \/ RegisterRead(u)
           \/ \E s \in Scans : ReviewRead(u, s)
    PROVE  LifeInv'
<1> USE DEF LifeInv
<1>0. Now \in Nat /\ Now \in 0 .. Now
  BY DEF LifeTyped, Now
<1>1. ASSUME NEW k \in Skills, NEW c \in Contents, NEW a \in BOOLEAN, StartSubmission(u, k, c, a)
      PROVE  LifeInv'
  <2> DEFINE q == [pc |-> "submit", skill |-> k, content |-> c, admin |-> a]
  <2>1. q \in ReqState /\ q.pc = "submit"
    BY Zenon DEF ReqState
  <2>2. RequestOK(q, events, owner, version)
    BY <2>1, Zenon DEF RequestOK
  <2>3. /\ req' = [req EXCEPT ![u] = q]
        /\ UNCHANGED <<owner, version, events, baseline, toolchain, job, verdict, passed, adm, sync>>
    BY <1>1, Zenon DEF StartSubmission
  <2> HIDE DEF q
  <2>4. LifeTyped'
    BY <2>1, <2>3, Zenon DEF LifeTyped
  <2>5. \A v \in Users : req'[v] = req[v] \/ RequestOK(req'[v], events, owner, version)
    BY <2>2, <2>3, Zenon DEF LifeTyped
  <2> QED
    BY <2>3, <2>4, <2>5, QuietStep, Zenon
<1>2. CASE SubmitScan(u)
  <2> DEFINE s == <<req[u].content, toolchain>>
             q == [pc |-> "register", skill |-> req[u].skill, content |-> req[u].content,
                   admin |-> req[u].admin, scan |-> s]
  <2>1. req[u] \in ReqState /\ req[u].pc = "submit"
    BY <1>2, Zenon DEF LifeTyped, SubmitScan
  <2>2. req[u].skill \in Skills /\ req[u].content \in Contents /\ req[u].admin \in BOOLEAN
    BY <2>1 DEF ReqState, Idle
  <2>3. s \in Scans /\ s[1] = req[u].content
    BY <2>2, Zenon DEF LifeTyped, Scans
  <2> HIDE DEF s
  <2>4. q \in ReqState /\ q.pc = "register" /\ q.scan[1] = q.content
    BY <2>2, <2>3, Zenon DEF ReqState
  <2>5. /\ req' = [req EXCEPT ![u] = q] /\ job' = [job EXCEPT ![s] = @ \cup {u}]
        /\ UNCHANGED <<owner, version, events, baseline, toolchain, verdict, passed, adm, sync>>
    BY <1>2, Zenon DEF SubmitScan, s, LifeTyped
  <2> HIDE DEF q
  <2>6. LifeTyped'
    BY <2>3, <2>4, <2>5, Zenon DEF LifeTyped
  <2>7. RequestOK(q, events, owner, version)
    BY <2>4, Zenon DEF RequestOK
  <2>8. \A v \in Users : req'[v] = req[v] \/ RequestOK(req'[v], events, owner, version)
    BY <2>5, <2>7, Zenon DEF LifeTyped
  <2> QED
    BY <2>5, <2>6, <2>8, QuietStep, Zenon
<1>3. CASE RegisterRead(u)
  <2> DEFINE k == req[u].skill
             c == req[u].content
             q == [pc |-> "commit", skill |-> k, content |-> c, scan |-> req[u].scan, n |-> Now,
                   newSkill |-> owner[k] = None, newVersion |-> version[c] = None]
  <2>1. req[u] \in ReqState /\ req[u].pc = "register"
    BY <1>3, Zenon DEF LifeTyped, RegisterRead
  <2>2. k \in Skills /\ c \in Contents /\ req[u].scan \in Scans
    BY <2>1 DEF ReqState, Idle
  <2>3. req[u].scan[1] = c
    BY <2>1, Zenon DEF RequestOK
  <2> HIDE DEF k, c
  <2>4. q \in ReqState
    BY <1>0, <2>2, Zenon DEF ReqState
  <2>5. CurrentState(Now, k) = StateIn(events, Now, k)
    BY <1>0, CurrentStateIs, Zenon
  <2>6. /\ \/ req' = [req EXCEPT ![u] = Idle]
           \/ req' = [req EXCEPT ![u] = q] /\ ValidateTransition(CurrentState(Now, k), "submitted")
        /\ UNCHANGED <<owner, version, events, baseline, toolchain, job, verdict, passed, adm, sync>>
    BY <1>3, Zenon DEF RegisterRead, LifeTyped, k, c
  <2>7. ValidateTransition(CurrentState(Now, k), "submitted") =>
            RequestOK(q, events, owner, version)
    <3>1. /\ q.n = Now /\ q.skill = k /\ q.content = c /\ q.scan = req[u].scan
          /\ q.newSkill = (owner[k] = None) /\ q.newVersion = (version[c] = None)
      BY Zenon
    <3> HIDE DEF q, LifeInv
    <3>2. /\ ~q.newSkill => owner[q.skill] # None
          /\ ~q.newVersion => version[q.content] # None
          /\ q.scan[1] = q.content
      BY <2>3, <3>1, Zenon
    <3>3. ValidateTransition(CurrentState(Now, k), "submitted") =>
              Allowed(events, Now, k, "submitted")
      BY <1>0, <2>5 DEF Allowed, Now
    <3> QED
      BY <3>1, <3>2, <3>3, Zenon DEF RequestOK
  <2>8. RequestOK(Idle, events, owner, version) /\ Idle \in ReqState
    BY Zenon DEF RequestOK, Idle, ReqState
  <2> HIDE DEF q
  <2>9. LifeTyped'
    BY <2>4, <2>6, <2>8, Zenon DEF LifeTyped
  <2>10. \A v \in Users : req'[v] = req[v] \/ RequestOK(req'[v], events, owner, version)
    BY <2>6, <2>7, <2>8, Zenon DEF LifeTyped
  <2> QED
    BY <2>6, <2>9, <2>10, QuietStep, Zenon
<1>4. ASSUME NEW s \in Scans, ReviewRead(u, s)
      PROVE  LifeInv'
  <2> DEFINE q == [pc |-> "decide", scan |-> s]
  <2>1. q \in ReqState /\ RequestOK(q, events, owner, version)
    BY Zenon DEF ReqState, RequestOK
  <2>2. /\ req' = [req EXCEPT ![u] = q]
        /\ UNCHANGED <<owner, version, events, baseline, toolchain, job, verdict, passed, adm, sync>>
    BY <1>4, Zenon DEF ReviewRead
  <2> HIDE DEF q
  <2>3. LifeTyped'
    BY <2>1, <2>2, Zenon DEF LifeTyped
  <2>4. \A v \in Users : req'[v] = req[v] \/ RequestOK(req'[v], events, owner, version)
    BY <2>1, <2>2, Zenon DEF LifeTyped
  <2> QED
    BY <2>2, <2>3, <2>4, QuietStep, Zenon
<1>5. (u \in Admins) \in BOOLEAN /\ FALSE \in BOOLEAN
  OBVIOUS
<1> QED
  BY <1>1, <1>2, <1>3, <1>4, <1>5, Zenon DEF Preflight, MarketPreflight

\* Verdicts: a scan whose verdict becomes PASS is one that has passed.
LEMMA VerdictKeeps ==
    ASSUME LifeInv,
           \/ \E s \in Scans : IssueVerdict(s)
           \/ \E u \in Users : ReviewCommit(u)
    PROVE  LifeInv'
<1> USE DEF LifeInv
<1>1. ASSUME NEW s \in Scans, NEW v \in DOMAIN VerdictTarget,
             verdict' = [verdict EXCEPT ![s] = v],
             passed' = IF v = "PASS" THEN passed \cup {s} ELSE passed,
             req' = req \/ (\E u \in Users : req' = [req EXCEPT ![u] = Idle]),
             UNCHANGED <<owner, version, events, baseline, toolchain, job, adm, sync>>
      PROVE  LifeInv'
  <2>1. RequestOK(Idle, events, owner, version) /\ Idle \in ReqState
    BY Zenon DEF RequestOK, Idle, ReqState
  <2>2. req' \in [Users -> ReqState]
    BY <1>1, <2>1, Zenon DEF LifeTyped
  <2>3. \A u \in Users : req'[u] = req[u] \/ RequestOK(req'[u], events, owner, version)
    BY <1>1, <2>1, Zenon DEF LifeTyped
  <2>4. /\ verdict' \in [Scans -> DOMAIN VerdictTarget \cup {None}]
        /\ passed' \in SUBSET Scans /\ passed \subseteq passed'
        /\ \A x \in Scans : verdict'[x] = "PASS" => x \in passed'
    BY <1>1, Zenon DEF LifeTyped
  <2>5. LifeTyped'
    BY <1>1, <2>2, <2>4, Zenon DEF LifeTyped
  <2> QED
    BY <1>1, <2>3, <2>4, <2>5, QuietStep, Zenon
<1>2. ASSUME NEW s \in Scans, IssueVerdict(s)
      PROVE  LifeInv'
  BY <1>1, <1>2, Zenon DEF IssueVerdict
<1>3. ASSUME NEW u \in Users, ReviewCommit(u)
      PROVE  LifeInv'
  <2>1. req[u] \in ReqState /\ req[u].pc = "decide"
    BY <1>3, Zenon DEF LifeTyped, ReviewCommit
  <2>2. req[u].scan \in Scans
    BY <2>1 DEF ReqState, Idle
  <2>3. {"PASS", "BLOCK"} \subseteq DOMAIN VerdictTarget
    BY Zenon DEF VerdictTarget
  <2> QED
    BY <1>1, <1>3, <2>2, <2>3, Zenon DEF ReviewCommit
<1> QED
  BY <1>2, <1>3, Zenon

\* What an administrator reads, and a new toolchain
LEMMA AdminReadKeeps ==
    ASSUME LifeInv,
           \/ \E k \in Skills, to \in AdminTargets : AdminRead(k, to)
           \/ \E t \in Toolchains : ToolchainChanges(t)
    PROVE  LifeInv'
<1> USE DEF LifeInv
<1>1. ASSUME NEW k \in Skills, NEW to \in AdminTargets, AdminRead(k, to)
      PROVE  LifeInv'
  <2> DEFINE q == [pc |-> "commit", skill |-> k, to |-> to, n |-> Now]
  <2>1. Now \in Nat /\ Now \in 0 .. Now
    BY DEF LifeTyped, Now
  <2>2. q \in AdmState
    BY <2>1, Zenon DEF AdmState
  <2>3. Allowed(events, Now, k, to)
    BY <1>1, <2>1, CurrentStateIs DEF AdminRead, Allowed, Now
  <2>4. AdminOK(q, events)
    BY <2>3, Zenon DEF AdminOK
  <2>5. /\ adm' = q
        /\ UNCHANGED <<owner, version, events, baseline, toolchain, job, verdict, passed, req, sync>>
    BY <1>1, Zenon DEF AdminRead
  <2> HIDE DEF q
  <2>6. LifeTyped'
    BY <2>2, <2>5, Zenon DEF LifeTyped
  <2> QED
    BY <2>4, <2>5, <2>6, QuietStep, Zenon
<1>2. ASSUME NEW t \in Toolchains, ToolchainChanges(t)
      PROVE  LifeInv'
  <2>1. /\ toolchain' = t
        /\ UNCHANGED <<owner, version, events, baseline, job, verdict, passed, req, adm, sync>>
    BY <1>2, Zenon DEF ToolchainChanges
  <2>2. LifeTyped'
    BY <2>1, Zenon DEF LifeTyped
  <2> QED
    BY <2>1, <2>2, QuietStep, Zenon
<1> QED
  BY <1>1, <1>2, Zenon

\* An owner is replaced by an owner.
LEMMA AssignKeeps ==
    ASSUME LifeInv, NEW k \in Skills, NEW u \in Users, NEW e \in BOOLEAN,
           AssignSkillOwner(k, u, e)
    PROVE  LifeInv'
<1> USE DEF LifeInv
<1>1. /\ owner' = [owner EXCEPT ![k] = u]
      /\ UNCHANGED <<version, events, baseline, toolchain, job, verdict, passed, req, adm, sync>>
  BY Zenon DEF AssignSkillOwner
<1>2. LifeTyped'
  BY <1>1, Zenon DEF LifeTyped
<1>3. \A x \in Skills : owner[x] # None => owner'[x] # None
  BY <1>1, LifecycleAssumption, Zenon DEF LifeTyped
<1>4. \A c \in Contents : version'[c] # None => owner'[version'[c]] # None
  BY <1>1, <1>3, Zenon DEF LifeTyped
<1>5. Extends(events, events')
  BY <1>1 DEF LifeTyped, Extends
<1>6. /\ \A v \in Users : RequestOK(req'[v], events', owner', version')
      /\ AdminOK(adm', events')
  BY <1>1, <1>3, <1>5, WaitersStay, Zenon DEF LifeTyped
<1>7. DriftIsCaught'
  BY <1>1, Zenon DEF DriftIsCaught, Now, IsDrift
<1> QED
  BY <1>1, <1>2, <1>4, <1>6, <1>7, Zenon

\* The baseline an administrator sets is no older than any event.
LEMMA BaselineKeeps ==
    ASSUME LifeInv, NEW k \in Skills, NEW c \in Contents, SetSkillBaseline(k, c)
    PROVE  LifeInv'
<1> USE DEF LifeInv
<1>1. /\ baseline' = [baseline EXCEPT ![k] = Approve(c)]
      /\ UNCHANGED <<owner, version, events, toolchain, job, verdict, passed, req, adm, sync>>
  BY Zenon DEF SetSkillBaseline
<1>2. /\ Approve(c) \in [content : Contents, at : Nat]
      /\ Approve(c).at = Now /\ Now \in Nat /\ Now \in 0 .. Now
  BY DEF Approve, LifeTyped, Now
<1>3. LifeTyped'
  BY <1>1, <1>2, Zenon DEF LifeTyped
<1>4. DriftIsCaught'
  <2> SUFFICES ASSUME NEW x \in Skills,
                      LastOf(events, Now, x) # 0,
                      events[LastOf(events, Now, x)].to = "published",
                      events[LastOf(events, Now, x)].by = Worker,
                      IsDrift(baseline'[x], events[LastOf(events, Now, x)].content),
                      baseline'[x].at < LastOf(events, Now, x)
               PROVE  \E r \in Replicas :
                          /\ sync[r].pc \in {"drift", "quarantine"}
                          /\ sync[r].cur.skill = x
                          /\ sync[r].content = events[LastOf(events, Now, x)].content
    BY <1>1 DEF DriftIsCaught, Now, IsDrift
  <2>1. LastOf(events, Now, x) \in 0 .. Now
    BY <1>2, LastOfIsLast, Zenon DEF LifeTyped, Now
  <2>2. x # k
    BY <1>1, <1>2, <2>1 DEF LifeTyped
  <2>3. baseline'[x] = baseline[x]
    BY <1>1, <2>2, Zenon DEF LifeTyped
  <2> QED
    BY <2>3, Zenon DEF DriftIsCaught
<1>5. \A u \in Users : req'[u] = req[u]
  BY <1>1, Zenon
<1> QED
  BY <1>1, <1>3, <1>4, Zenon

-----------------------------------------------------------------------------
(* Steps that insert events *)

\* DriftIsCaught, of one skill in a table
Caught(rows, base, ticks, k) ==
    LET i == LastOf(rows, Len(rows), k)
    IN  /\ i # 0
        /\ rows[i].to = "published" /\ rows[i].by = Worker
        /\ IsDrift(base, rows[i].content)
        /\ base.at < i
        => \E r \in Replicas : /\ Catching(ticks[r])
                               /\ ticks[r].cur.skill = k
                               /\ ticks[r].content = rows[i].content

\* A row concerns no skill but its own, and that one only if the worker
\* publishes.
LEMMA CaughtAppended ==
    ASSUME NEW rows \in Seq(EventRow), NEW e \in EventRow, NEW k, NEW base,
           NEW ticks, NEW ticks2,
           e.skill = k => ~(e.to = "published" /\ e.by = Worker),
           e.skill # k => /\ Caught(rows, base, ticks, k)
                          /\ \A r \in Replicas :
                                Catching(ticks[r]) /\ ticks[r].cur.skill = k =>
                                    /\ Catching(ticks2[r])
                                    /\ ticks2[r].cur = ticks[r].cur
                                    /\ ticks2[r].content = ticks[r].content
    PROVE  Caught(Append(rows, e), base, ticks2, k)
<1> DEFINE more == Append(rows, e)
           i == LastOf(rows, Len(rows), k)
<1>1. /\ Len(more) = Len(rows) + 1 /\ Len(rows) \in Nat
      /\ \A j \in 1 .. Len(rows) : more[j] = rows[j]
      /\ more[Len(rows) + 1] = e
  OBVIOUS
<1>2. LastOf(more, Len(more), k) = IF e.skill = k THEN Len(rows) + 1 ELSE i
  BY <1>1, LastOfAppended
<1>3. i \in 0 .. Len(rows)
  BY <1>1, LastOfIsLast
<1>4. i # 0 => more[i] = rows[i]
  BY <1>1, <1>3
<1>5. \A r \in Replicas : ticks2[r].cur = ticks[r].cur => ticks2[r].cur.skill = ticks[r].cur.skill
  BY Zenon
<1> HIDE DEF more, i
<1>6. CASE e.skill = k
  BY <1>1, <1>2, <1>6, Zenon DEF Caught, more
<1>7. CASE e.skill # k
  BY <1>2, <1>4, <1>5, <1>7, Zenon DEF Caught, more, i
<1> QED
  BY <1>6, <1>7, Zenon

\* The state of a skill in a snapshot is one of the table, or none.
LEMMA StateInTyped ==
    ASSUME NEW rows \in Seq(EventRow), NEW n \in 0 .. Len(rows), NEW k
    PROVE  StateIn(rows, n, k) \in States \cup {None}
<1>1. LastOf(rows, n, k) \in 0 .. n
  BY LastOfIsLast, Zenon
<1>2. LastOf(rows, n, k) # 0 => rows[LastOf(rows, n, k)] \in EventRow
  BY <1>1
<1>3. LastOf(rows, n, k) # 0 => rows[LastOf(rows, n, k)].to \in States
  BY <1>2, Zenon DEF EventRow
<1> QED
  BY <1>3, Zenon DEF StateIn

\* DriftIsCaught is Caught for every skill.
LEMMA CaughtIs ==
    DriftIsCaught <=> \A k \in Skills : Caught(events, baseline[k], sync, k)
BY Zenon DEF DriftIsCaught, Caught, Now, Catching

\* A registration inserts the rows it read as missing, unless they are there by
\* now, and two events.
LEMMA RegisterKeeps ==
    ASSUME LifeInv, NEW u \in Users, RegisterCommit(u)
    PROVE  LifeInv'
<1> USE DEF LifeInv
<1> DEFINE q == req[u]
           k == q.skill
           c == q.content
<1>1. q \in ReqState /\ q.pc = "commit"
  BY Zenon DEF LifeTyped, RegisterCommit
<1>2. /\ k \in Skills /\ c \in Contents /\ q.scan \in Scans /\ q.n \in Nat
      /\ q.newSkill \in BOOLEAN /\ q.newVersion \in BOOLEAN
  BY <1>1 DEF ReqState, Idle
<1>3. /\ q.scan[1] = c /\ Allowed(events, q.n, k, "submitted")
      /\ ~q.newSkill => owner[k] # None
      /\ ~q.newVersion => version[c] # None
  BY <1>1, Zenon DEF RequestOK
<1>4. /\ req' = [req EXCEPT ![u] = Idle]
      /\ UNCHANGED <<baseline, toolchain, job, verdict, passed, adm, sync>>
  BY Zenon DEF RegisterCommit
<1>5. RequestOK(Idle, events, owner, version) /\ Idle \in ReqState
  BY Zenon DEF RequestOK, Idle, ReqState
<1>6. CASE Clash(q)
  <2>1. UNCHANGED <<owner, version, events>>
    BY <1>6, Zenon DEF RegisterCommit
  <2>2. LifeTyped'
    BY <1>4, <1>5, <2>1, Zenon DEF LifeTyped
  <2>3. \A v \in Users : req'[v] = req[v] \/ RequestOK(req'[v], events, owner, version)
    BY <1>4, <1>5, Zenon DEF LifeTyped
  <2> QED
    BY <1>4, <2>1, <2>2, <2>3, QuietStep, Zenon
<1>7. CASE ~Clash(q)
  <2> DEFINE e1 == Event(k, CurrentState(q.n, k), "submitted", c, None, u)
             e2 == Event(k, "submitted", "scanning", c, q.scan, u)
             mid == Append(events, e1)
  <2>1. /\ owner' = IF q.newSkill THEN [owner EXCEPT ![k] = u] ELSE owner
        /\ version' = IF q.newVersion THEN [version EXCEPT ![c] = k] ELSE version
        /\ events' = events \o <<e1, e2>>
    BY <1>7, Zenon DEF RegisterCommit
  <2>2. q.n \in 0 .. Len(events) /\ events \in Seq(EventRow) /\ Len(events) \in Nat
    BY <1>2, <1>3 DEF Allowed, LifeTyped
  <2>3. CurrentState(q.n, k) = StateIn(events, q.n, k)
    BY <2>2, CurrentStateIs, Zenon DEF Now
  <2>4. StateIn(events, q.n, k) \in States \cup {None}
    BY <2>2, StateInTyped, Zenon
  <2>5. e1 \in EventRow /\ e2 \in EventRow
    BY <1>2, <2>3, <2>4, Zenon DEF Event, EventRow, States, ValidTransitions
  <2>6. /\ e1.skill = k /\ e1.from = StateIn(events, q.n, k) /\ e1.to = "submitted" /\ e1.by = u
        /\ e2.skill = k /\ e2.from = "submitted" /\ e2.to = "scanning" /\ e2.by = u
        /\ e2.scan = q.scan /\ e2.content = c
    BY <2>3, Zenon DEF Event
  <2> HIDE DEF e1, e2
  <2>7. events' = Append(mid, e2)
    BY <2>1, <2>2, <2>5
  <2>8. RowsOK(mid, passed) /\ Extends(events, mid)
    <3>1. ValidateTransition(e1.from, e1.to)
      BY <1>3, <2>6, Zenon DEF Allowed
    <3>2. e1.to # "published" /\ e1.to \notin WaitingStates
      BY <2>6, Zenon DEF WaitingStates
    <3>3. e1.from = StateIn(events, q.n, e1.skill)
      BY <2>6, Zenon
    <3> HIDE DEF k, c
    <3> QED
      BY <2>2, <2>5, <3>1, <3>2, <3>3, RowAppended, Zenon
  <2>9. /\ mid \in Seq(EventRow) /\ Len(mid) = Len(events) + 1 /\ mid[Len(mid)] = e1
        /\ Len(mid) \in 0 .. Len(mid) /\ Len(mid) # 0
    BY <2>2, <2>5
  <2>10. LastOf(mid, Len(mid), k) = Len(mid)
    BY <2>2, <2>5, <2>6, <2>9, LastOfAppended, Zenon
  <2> HIDE DEF mid
  <2>11. StateIn(mid, Len(mid), k) = "submitted"
    BY <2>6, <2>9, <2>10, Zenon DEF StateIn
  <2>12. RowsOK(events', passed) /\ Extends(mid, events')
    <3>1. ValidateTransition(e2.from, e2.to)
      BY <2>6, LifecycleAssumption DEF ValidateTransition, ValidTransitions, States
    <3>2. e2.to # "published" /\ e2.to = "scanning" /\ e2.scan \in Scans /\ e2.scan[1] = e2.content
      BY <1>2, <1>3, <2>6, Zenon
    <3>3. e2.from = StateIn(mid, Len(mid), e2.skill)
      BY <2>6, <2>11, Zenon
    <3> QED
      BY <2>5, <2>7, <2>8, <2>9, <3>1, <3>2, <3>3, RowAppended, Zenon
  <2>13. Extends(events, events')
    BY <2>8, <2>12 DEF Extends
  <2>14. LifeTyped'
    BY <1>2, <1>4, <1>5, <2>1, <2>12, Zenon DEF LifeTyped, Extends
  <2>15. /\ \A x \in Skills : owner[x] # None => owner'[x] # None
         /\ \A x \in Contents : version[x] # None => version'[x] # None
    BY <1>2, <2>1, LifecycleAssumption DEF LifeTyped
  <2>16. owner'[k] # None
    BY <1>2, <1>3, <2>1, LifecycleAssumption, Zenon DEF LifeTyped
  <2>17. \A x \in Contents : version'[x] # None => owner'[version'[x]] # None
    BY <1>2, <2>1, <2>15, <2>16, Zenon DEF LifeTyped
  <2>18. /\ \A v \in Users : RequestOK(req'[v], events', owner', version')
         /\ AdminOK(adm', events')
         /\ \A r \in Replicas : SyncOK(sync'[r], events', passed')
    <3>1. \A v \in Users : RequestOK(req'[v], events, owner, version)
      BY <1>4, <1>5, Zenon DEF LifeTyped
    <3>2. \A v \in Users : req'[v] \in ReqState
      BY <2>14, Zenon DEF LifeTyped
    <3>3. \A v \in Users : RequestOK(req'[v], events', owner', version')
      <4>1. passed \subseteq passed
        BY Zenon
      <4>2. \A w \in ReqState : \A own, ver, own2, ver2 :
                /\ RequestOK(w, events, own, ver)
                /\ \A x \in Skills : own[x] # None => own2[x] # None
                /\ \A x \in Contents : ver[x] # None => ver2[x] # None
                => RequestOK(w, events', own2, ver2)
        BY <2>13, <4>1, WaitersStay, Zenon
      <4> HIDE DEF LifeInv
      <4> QED
        BY <2>15, <3>1, <3>2, <4>2, Zenon
    <3>4. AdminOK(adm, events')
      BY <2>13, WaitersStay, Zenon DEF LifeTyped
    <3>5. \A r \in Replicas : SyncOK(sync[r], events', passed)
      BY <2>13, WaitersStay, Zenon DEF LifeTyped
    <3> QED
      BY <1>4, <3>3, <3>4, <3>5, Zenon
  <2>19. DriftIsCaught'
    <3>1. ASSUME NEW x \in Skills
          PROVE  Caught(events', baseline[x], sync, x)
      <4>1. Caught(events, baseline[x], sync, x)
        BY CaughtIs, Zenon
      <4>2. Caught(mid, baseline[x], sync, x)
        BY <2>2, <2>5, <2>6, <4>1, CaughtAppended, Zenon DEF mid
      <4> QED
        BY <2>5, <2>6, <2>7, <2>9, <4>2, CaughtAppended, Zenon
    <3>2. \A x \in Skills : Caught(events', baseline'[x], sync', x)
      BY <1>4, <3>1, Zenon
    <3> QED
      BY <3>2, Zenon DEF DriftIsCaught, Caught, Now, Catching
  <2> QED
    BY <1>4, <2>12, <2>14, <2>17, <2>18, <2>19, Zenon
<1> QED
  BY <1>6, <1>7, Zenon

\* A step that inserts a row keeps what the others wait with.
LEMMA InsertStep ==
    ASSUME LifeInv, LifeTyped', UNCHANGED <<owner, version, verdict, passed, req>>,
           Extends(events, events'), RowsOK(events', passed),
           adm' \in {adm, Idle},
           \A r \in Replicas : sync'[r] = sync[r] \/ SyncOK(sync'[r], events, passed),
           \A k \in Skills : Caught(events', baseline'[k], sync', k)
    PROVE  LifeInv'
<1> USE DEF LifeInv
<1>1. passed \subseteq passed
  BY Zenon
<1>2. \A u \in Users : RequestOK(req[u], events', owner, version)
  <2>1. \A w \in ReqState : \A own, ver, own2, ver2 :
            /\ RequestOK(w, events, own, ver)
            /\ \A x \in Skills : own[x] # None => own2[x] # None
            /\ \A x \in Contents : ver[x] # None => ver2[x] # None
            => RequestOK(w, events', own2, ver2)
    BY <1>1, WaitersStay, Zenon
  <2>2. \A u \in Users : req[u] \in ReqState
    BY Zenon DEF LifeTyped
  <2> QED
    BY <2>1, <2>2, Zenon
<1>3. AdminOK(adm', events')
  <2>1. AdminOK(adm, events')
    BY <1>1, WaitersStay, Zenon DEF LifeTyped
  <2>2. AdminOK(Idle, events')
    BY Zenon DEF AdminOK, Idle
  <2> QED
    BY <2>1, <2>2, Zenon
<1>4. \A r \in Replicas : SyncOK(sync'[r], events', passed)
  <2>1. \A q \in SyncState : SyncOK(q, events, passed) => SyncOK(q, events', passed)
    BY <1>1, WaitersStay, Zenon
  <2>2. \A r \in Replicas : sync'[r] \in SyncState /\ SyncOK(sync'[r], events, passed)
    BY Zenon DEF LifeTyped
  <2> QED
    BY <2>1, <2>2, Zenon
<1>5. DriftIsCaught'
  BY Zenon DEF DriftIsCaught, Caught, Now, Catching
<1> QED
  BY <1>2, <1>3, <1>4, <1>5, Zenon

\* An administrator's event is not the worker's.
LEMMA AdminCommitKeeps ==
    ASSUME LifeInv, AdminCommit
    PROVE  LifeInv'
<1> USE DEF LifeInv
<1> DEFINE k == adm.skill
           e == Event(k, CurrentState(adm.n, k), adm.to, None, None, Admin)
<1>1. adm \in AdmState /\ adm.pc = "commit"
  BY Zenon DEF AdminCommit, LifeTyped
<1>2. k \in Skills /\ adm.to \in AdminTargets /\ adm.n \in Nat
  BY <1>1 DEF AdmState, Idle
<1>3. Allowed(events, adm.n, k, adm.to)
  BY <1>1, Zenon DEF AdminOK
<1>4. adm.n \in 0 .. Len(events) /\ events \in Seq(EventRow) /\ Len(events) \in Nat
  BY <1>2, <1>3 DEF Allowed, LifeTyped
<1>5. CurrentState(adm.n, k) = StateIn(events, adm.n, k)
  BY <1>4, CurrentStateIs, Zenon DEF Now
<1>6. StateIn(events, adm.n, k) \in States \cup {None}
  BY <1>4, StateInTyped, Zenon
<1>7. adm.to \in States /\ adm.to \notin WaitingStates
  BY <1>2, Zenon DEF AdminTargets, States, ValidTransitions, WaitingStates
<1>8. /\ e.skill = k /\ e.from = StateIn(events, adm.n, k) /\ e.to = adm.to /\ e.by = Admin
      /\ e \in EventRow
  BY <1>2, <1>5, <1>6, <1>7, Zenon DEF Event, EventRow
<1>9. /\ events' = Append(events, e) /\ adm' = Idle
      /\ UNCHANGED <<owner, version, baseline, toolchain, job, verdict, passed, req, sync>>
  BY Zenon DEF AdminCommit
<1>10. e.by # Worker
  BY <1>8, Zenon DEF Admin, Worker
<1> HIDE DEF e, k
<1>11. RowsOK(events', passed) /\ Extends(events, events')
  <2>1. ValidateTransition(e.from, e.to)
    BY <1>3, <1>8, Zenon DEF Allowed
  <2>2. e.to \notin WaitingStates
    BY <1>7, <1>8, Zenon
  <2>3. e.from = StateIn(events, adm.n, e.skill)
    BY <1>8, Zenon
  <2> QED
    BY <1>4, <1>8, <1>9, <1>10, <2>1, <2>2, <2>3, RowAppended, Zenon
<1>12. LifeTyped'
  BY <1>9, <1>11, Zenon DEF LifeTyped, Extends, AdmState
<1>13. \A x \in Skills : Caught(events', baseline'[x], sync', x)
  <2>1. \A x \in Skills : Caught(events, baseline[x], sync, x)
    BY CaughtIs, Zenon
  <2> QED
    BY <1>4, <1>8, <1>9, <1>10, <2>1, CaughtAppended, Zenon
<1> QED
  BY <1>9, <1>11, <1>12, <1>13, InsertStep, Zenon

-----------------------------------------------------------------------------
(* The sync *)

\* A tick starts from a snapshot in which every waiting skill names its scan,
\* and finds what is due in it.
LEMMA SyncReadKeeps ==
    ASSUME LifeInv, NEW r \in Replicas,
           SyncStart(r) \/ SyncVerdicts(r) \/ SyncTxRead(r) \/ SyncReport(r)
    PROVE  LifeInv'
<1> USE DEF LifeInv
<1>0. Now \in Nat /\ Now = Len(events) /\ Now \in 0 .. Now /\ events \in Seq(EventRow)
  BY DEF LifeTyped, Now
<1>1. ASSUME NEW q \in SyncState, sync' = [sync EXCEPT ![r] = q], SyncOK(q, events, passed),
             ~Catching(sync[r]),
             UNCHANGED <<owner, version, events, baseline, toolchain, job, verdict, passed, req, adm>>
      PROVE  LifeInv'
  <2>1. LifeTyped'
    BY <1>1, Zenon DEF LifeTyped
  <2>2. \A x \in Replicas : sync'[x] = sync[x] \/ SyncOK(sync'[x], events, passed')
    BY <1>1, Zenon DEF LifeTyped
  <2>3. \A x \in Replicas : Catching(sync[x]) => sync'[x] = sync[x]
    BY <1>1, Zenon DEF LifeTyped
  <2> QED
    BY <1>1, <2>1, <2>2, <2>3, QuietStep, Zenon
<1>2. Idle \in SyncState /\ SyncOK(Idle, events, passed)
  BY Zenon DEF SyncState, SyncOK, Idle
<1>3. CASE SyncStart(r)
  <2> DEFINE q1 == [pc |-> "verdicts", n |-> Now]
             q2 == [pc |-> "next", n |-> Now, todo |-> {}]
  <2>1. q1 \in SyncState /\ q2 \in SyncState
    BY <1>0, Zenon DEF SyncState
  <2>2. SyncOK(q1, events, passed)
    BY <1>0 DEF SyncOK, RowsOK
  <2>3. SyncOK(q2, events, passed)
    BY <1>0 DEF SyncOK
  <2>4. ~Catching(sync[r])
    <3>1. sync[r] = Idle
      BY <1>3, Zenon DEF SyncStart
    <3>2. Idle.pc = "idle"
      BY Zenon DEF Idle
    <3> QED
      BY <3>1, <3>2, Zenon DEF Catching
  <2>5. /\ sync' = [sync EXCEPT ![r] = q1] \/ sync' = [sync EXCEPT ![r] = q2]
        /\ UNCHANGED <<owner, version, events, baseline, toolchain, job, verdict, passed, req, adm>>
    BY <1>3, Zenon DEF SyncStart
  <2> HIDE DEF q1, q2
  <2> QED
    BY <1>1, <2>1, <2>2, <2>3, <2>4, <2>5, Zenon
<1>4. CASE SyncReport(r)
  <2>1. sync[r].pc = "next" /\ ~Catching(sync[r])
    BY <1>4, Zenon DEF SyncReport, Catching
  <2> QED
    BY <1>1, <1>2, <1>4, <2>1, Zenon DEF SyncReport
<1>5. CASE SyncTxRead(r)
  <2>1. sync[r] \in SyncState /\ sync[r].pc = "next"
    BY <1>5, Zenon DEF SyncTxRead, LifeTyped
  <2>2. /\ sync[r] \in [pc : {"next"}, n : Nat, todo : SUBSET Change]
        /\ sync[r].n \in Nat /\ sync[r].todo \in SUBSET Change
    BY <2>1 DEF SyncState, Idle
  <2>3. /\ sync[r].n <= Len(events)
        /\ \A t \in sync[r].todo : Due(events, passed, sync[r].n, t)
    BY <2>1, Zenon DEF SyncOK
  <2>4. PICK t \in sync[r].todo :
            sync' = [sync EXCEPT ![r] =
                IF ValidateTransition(CurrentState(Now, t.skill), t.to)
                THEN [pc |-> "commit", n |-> sync[r].n, todo |-> sync[r].todo \ {t}, cur |-> t,
                      at |-> Now, base |-> baseline[t.skill]]
                ELSE [sync[r] EXCEPT !.todo = sync[r].todo \ {t}]]
    BY <1>5, Zenon DEF SyncTxRead, LifeTyped
  <2>5. t \in Change /\ t.skill \in Skills /\ baseline[t.skill] \in [content : Contents, at : Nat] \cup {None}
    BY <2>2, Zenon DEF Change, LifeTyped
  <2> DEFINE q1 == [pc |-> "commit", n |-> sync[r].n, todo |-> sync[r].todo \ {t}, cur |-> t,
                    at |-> Now, base |-> baseline[t.skill]]
             q2 == [sync[r] EXCEPT !.todo = sync[r].todo \ {t}]
  <2>6. q1 \in SyncState
    BY <1>0, <2>2, <2>5, Zenon DEF SyncState
  <2>7. q2 \in SyncState
    BY <2>2, Zenon DEF SyncState
  <2>8. ASSUME ValidateTransition(CurrentState(Now, t.skill), t.to)
        PROVE  SyncOK(q1, events, passed)
    <3>1. CurrentState(Now, t.skill) = StateIn(events, Now, t.skill)
      BY <1>0, CurrentStateIs, Zenon
    <3>2. Allowed(events, Now, t.skill, t.to)
      BY <1>0, <2>8, <3>1 DEF Allowed
    <3> QED
      BY <2>3, <3>2, Zenon DEF SyncOK
  <2>9. SyncOK(q2, events, passed)
    BY <2>2, <2>3, Zenon DEF SyncOK
  <2>10. ~Catching(sync[r])
    BY <2>1, Zenon DEF Catching
  <2>11. UNCHANGED <<owner, version, events, baseline, toolchain, job, verdict, passed, req, adm>>
    BY <1>5, Zenon DEF SyncTxRead
  <2>12. \/ sync' = [sync EXCEPT ![r] = q1] /\ ValidateTransition(CurrentState(Now, t.skill), t.to)
         \/ sync' = [sync EXCEPT ![r] = q2]
    BY <2>4, Zenon
  <2> HIDE DEF q1, q2
  <2> QED
    BY <1>1, <2>6, <2>7, <2>8, <2>9, <2>10, <2>11, <2>12, Zenon
<1>6. CASE SyncVerdicts(r)
  <2> DEFINE n == sync[r].n
             Target(k) == LET v == ResolveEventVerdict(LatestEvent(n, k))
                          IN  IF v = None THEN None ELSE VerdictTarget[v]
             due == {k \in Pending(n) : Target(k) \notin {None, LatestEvent(n, k).to}}
             todo == {[skill |-> k, to |-> Target(k)] : k \in due}
             q == [pc |-> "next", n |-> n, todo |-> todo]
  <2>1. sync[r] \in SyncState /\ sync[r].pc = "verdicts"
    BY <1>6, Zenon DEF SyncVerdicts, LifeTyped
  <2>2. n \in Nat
    BY <2>1 DEF SyncState, Idle
  <2>3. n <= Len(events) /\ \A k \in Skills : NamesScan(events, n, k)
    BY <2>1, Zenon DEF SyncOK
  <2>4. /\ sync' = [sync EXCEPT ![r] = Idle] \/ sync' = [sync EXCEPT ![r] = q]
        /\ UNCHANGED <<owner, version, events, baseline, toolchain, job, verdict, passed, req, adm>>
    BY <1>6, Zenon DEF SyncVerdicts
  <2>5. ASSUME NEW k \in due
        PROVE  /\ k \in Skills /\ Target(k) \in States
               /\ \A t \in Change : t.skill = k /\ t.to = Target(k) => Due(events, passed, n, t)
    <3> DEFINE i == LastOf(events, n, k)
    <3>1. k \in Skills /\ LatestEvent(n, k) # None /\ LatestEvent(n, k).to \in WaitingStates
      BY Zenon DEF Pending
    <3>2. Target(k) # None
      BY Zenon
    <3>3. i # 0 /\ LatestEvent(n, k) = events[i]
      BY <3>1, Zenon DEF LatestEvent
    <3>4. VerdictTarget = [PASS |-> "published", REVIEW |-> "review_pending", BLOCK |-> "blocked"]
      BY Zenon DEF VerdictTarget
    <3>5. events[i].scan \in Scans
      BY <2>3, <3>1, <3>3, Zenon DEF NamesScan
    <3> DEFINE v == verdict[events[i].scan]
    <3>6. v # None /\ Target(k) = VerdictTarget[v]
      BY <3>2, <3>3, Zenon DEF ResolveEventVerdict
    <3>7. v \in DOMAIN VerdictTarget
      BY <3>5, <3>6, Zenon DEF LifeTyped
    <3>8. /\ VerdictTarget[v] \in States
          /\ VerdictTarget[v] = "published" => v = "PASS"
      <4> HIDE DEF v
      <4>1. v = "PASS" \/ v = "REVIEW" \/ v = "BLOCK"
        BY <3>4, <3>7, Zenon
      <4> QED
        BY <3>4, <4>1 DEF States, ValidTransitions
    <3>9. Target(k) = "published" => events[i].scan \in passed
      BY <3>5, <3>6, <3>8, Zenon
    <3> HIDE DEF i, v, Target
    <3>10. ASSUME NEW t \in Change, t.skill = k, t.to = Target(k)
          PROVE  Due(events, passed, n, t)
      BY <2>3, <3>1, <3>3, <3>9, <3>10, Zenon DEF Due, i
    <3> QED
      BY <3>1, <3>6, <3>8, <3>10, Zenon
  <2> HIDE DEF due, Target, n
  <2>6. ASSUME NEW t \in todo
        PROVE  t \in Change /\ Due(events, passed, n, t)
    <3>1. PICK k \in due : t = [skill |-> k, to |-> Target(k)]
      BY Zenon
    <3>2. t \in Change /\ t.skill = k /\ t.to = Target(k)
      BY <2>5, <3>1, Zenon DEF Change
    <3> QED
      BY <2>5, <3>2, Zenon
  <2> HIDE DEF todo
  <2>7. q \in SyncState
    BY <2>2, <2>6, Zenon DEF SyncState
  <2>8. SyncOK(q, events, passed)
    BY <2>3, <2>6, Zenon DEF SyncOK
  <2>9. ~Catching(sync[r])
    BY <2>1, Zenon DEF Catching
  <2> HIDE DEF q
  <2> QED
    BY <1>1, <1>2, <2>4, <2>7, <2>8, <2>9, Zenon
<1> QED
  BY <1>3, <1>4, <1>5, <1>6, Zenon

\* The worker publishes what is due, and goes on to the drift check.
LEMMA SyncTxCommitKeeps ==
    ASSUME LifeInv, NEW r \in Replicas, SyncTxCommit(r)
    PROVE  LifeInv'
<1> USE DEF LifeInv
<1> DEFINE q == sync[r]
           k == q.cur.skill
           i == LastOf(events, q.n, k)
           w == events[i]
           e == Event(k, StateIn(events, q.at, k), q.cur.to, w.content, w.scan, Worker)
           q2 == AfterCommit(q, w)
<1>1. q \in SyncState /\ q.pc = "commit"
  BY Zenon DEF SyncTxCommit, LifeTyped
<1>2. /\ q.n \in Nat /\ q.at \in Nat /\ q.cur \in Change /\ q.todo \in SUBSET Change
  BY <1>1 DEF SyncState, Idle
<1>3. k \in Skills /\ q.cur.to \in States
  BY <1>2, Zenon DEF Change
<1>4. /\ q.n <= Len(events) /\ Due(events, passed, q.n, q.cur)
      /\ \A t \in q.todo : Due(events, passed, q.n, t)
      /\ Allowed(events, q.at, k, q.cur.to)
  BY <1>1, Zenon DEF SyncOK
<1>5. /\ q.n \in 0 .. Len(events) /\ q.at \in 0 .. Len(events)
      /\ events \in Seq(EventRow) /\ Len(events) \in Nat
  BY <1>2, <1>4 DEF Allowed, LifeTyped
<1>6. /\ i # 0 /\ w.to \in WaitingStates /\ NamesScan(events, q.n, k)
      /\ q.cur.to = "published" => w.scan \in passed
  BY <1>4, Zenon DEF Due
<1>7. i \in 1 .. q.n
  <2>1. i \in 0 .. q.n
    BY <1>5, LastOfIsLast, Zenon
  <2> QED
    BY <1>6, <2>1
<1>8. w \in EventRow
  BY <1>5, <1>7
<1>9. /\ w.scan \in Scans /\ w.scan[1] = w.content
      /\ \E j \in 1 .. q.n : /\ events[j].skill = k
                              /\ events[j].to = "scanning"
                              /\ events[j].scan = w.scan
  BY <1>6, Zenon DEF NamesScan
<1>10. w.content \in Contents
  BY <1>9, Zenon DEF Scans
<1>11. LatestEvent(q.n, k) = w
  BY <1>6, Zenon DEF LatestEvent
<1>12. CurrentState(q.at, k) = StateIn(events, q.at, k)
  BY <1>5, CurrentStateIs, Zenon DEF Now
<1>13. StateIn(events, q.at, k) \in States \cup {None}
  BY <1>5, StateInTyped, Zenon
<1>14. /\ e \in EventRow /\ e.skill = k /\ e.from = StateIn(events, q.at, k) /\ e.to = q.cur.to
       /\ e.content = w.content /\ e.scan = w.scan /\ e.by = Worker
  BY <1>3, <1>9, <1>10, <1>13, Zenon DEF Event, EventRow
<1>15. /\ events' = Append(events, e)
       /\ sync' = [sync EXCEPT ![r] = q2]
       /\ UNCHANGED <<owner, version, toolchain, job, verdict, passed, req, adm>>
  BY <1>11, <1>12, Zenon DEF SyncTxCommit
<1>16. \/ baseline' = baseline
       \/ baseline' = [baseline EXCEPT ![k] = Approve(w.content)]
  BY <1>11, Zenon DEF SyncTxCommit
<1>17. /\ q2 \in SyncState /\ q2.pc # "idle" /\ q2.n = q.n /\ q2.todo = q.todo
       /\ q2.pc \in {"next", "drift"}
       /\ q.cur.to = "published" => /\ q2.pc = "drift" /\ q2.cur = q.cur
                                    /\ q2.content = w.content
  BY <1>2, <1>10, Zenon DEF AfterCommit, SyncState
<1>18. SyncOK(q2, events, passed)
  BY <1>4, <1>17, Zenon DEF SyncOK
<1> HIDE DEF e, q2, w, i
<1>19. RowsOK(events', passed) /\ Extends(events, events')
  <2>1. ValidateTransition(e.from, e.to)
    BY <1>4, <1>14, Zenon DEF Allowed
  <2>2. e.from = StateIn(events, q.at, e.skill)
    BY <1>14, Zenon
  <2>3. /\ e.scan \in Scans /\ e.scan[1] = e.content
        /\ e.to = "published" => e.scan \in passed
        /\ \E j \in 1 .. Len(events) : /\ events[j].skill = e.skill
                                        /\ events[j].to = "scanning"
                                        /\ events[j].scan = e.scan
    BY <1>5, <1>6, <1>9, <1>14
  <2> QED
    BY <1>5, <1>14, <1>15, <2>1, <2>2, <2>3, RowAppended, Zenon
<1>20. baseline' \in [Skills -> [content : Contents, at : Nat] \cup {None}]
  <2>1. Approve(w.content) \in [content : Contents, at : Nat]
    BY <1>5, <1>10, Zenon DEF Approve, Now
  <2> QED
    BY <1>3, <1>16, <2>1, Zenon DEF LifeTyped
<1>21. LifeTyped'
  BY <1>15, <1>17, <1>19, <1>20, Zenon DEF LifeTyped, Extends
<1>22. ASSUME NEW x \in Skills
       PROVE  Caught(events', baseline'[x], sync', x)
  <2>1. sync'[r] = q2 /\ \A y \in Replicas : y # r => sync'[y] = sync[y]
    BY <1>15, Zenon DEF LifeTyped
  <2>2. ~Catching(sync[r])
    BY <1>1, Zenon DEF Catching
  <2>3. CASE x = k /\ q.cur.to = "published"
    <3>1. LastOf(events', Len(events'), x) = Len(events) + 1 /\ events'[Len(events) + 1] = e
      <4>1. /\ Len(Append(events, e)) = Len(events) + 1
            /\ Append(events, e)[Len(events) + 1] = e
        BY <1>5, <1>14
      <4>2. LastOf(Append(events, e), Len(events) + 1, x) = Len(events) + 1
        BY <1>5, <1>14, <2>3, LastOfAppended, Zenon
      <4> QED
        BY <1>15, <4>1, <4>2, Zenon
    <3>2. /\ Catching(sync'[r]) /\ sync'[r].cur.skill = x
          /\ sync'[r].content = events'[Len(events) + 1].content
      BY <1>14, <1>17, <2>1, <2>3, <3>1, Zenon DEF Catching
    <3> QED
      BY <3>1, <3>2, Zenon DEF Caught
  <2>4. CASE x = k /\ q.cur.to # "published"
    BY <1>5, <1>14, <1>15, <2>4, CaughtAppended, Zenon
  <2>5. CASE x # k
    <3>1. baseline'[x] = baseline[x]
      BY <1>16, <2>5, Zenon DEF LifeTyped
    <3>2. Caught(events, baseline[x], sync, x)
      BY CaughtIs, Zenon
    <3>3. \A y \in Replicas : Catching(sync[y]) => sync'[y] = sync[y]
      BY <2>1, <2>2, Zenon
    <3>4. \A y \in Replicas : Catching(sync[y]) /\ sync[y].cur.skill = x =>
              /\ Catching(sync'[y]) /\ sync'[y].cur = sync[y].cur
              /\ sync'[y].content = sync[y].content
      BY <3>3, Zenon
    <3>5. e.skill # x
      BY <1>14, <2>5, Zenon
    <3> QED
      BY <1>5, <1>14, <1>15, <3>1, <3>2, <3>4, <3>5, CaughtAppended, Zenon
  <2> QED
    BY <2>3, <2>4, <2>5, Zenon
<1>23. \A y \in Replicas : sync'[y] = sync[y] \/ SyncOK(sync'[y], events, passed)
  BY <1>15, <1>18, Zenon DEF LifeTyped
<1> QED
  BY <1>15, <1>19, <1>21, <1>22, <1>23, InsertStep, Zenon

\* The drift check passes over a skill only when it shows no drift, or is not
\* published any more.
LEMMA DriftReadKeeps ==
    ASSUME LifeInv, NEW r \in Replicas, DriftRead(r)
    PROVE  LifeInv'
<1> USE DEF LifeInv
<1> DEFINE q == sync[r]
           k == q.cur.skill
           acts == /\ IsDrift(baseline[k], q.content)
                   /\ ValidateTransition(CurrentState(Now, k), "quarantined")
           q1 == [pc |-> "quarantine", n |-> q.n, todo |-> q.todo, cur |-> q.cur,
                  content |-> q.content, at |-> Now]
           q2 == [pc |-> "next", n |-> q.n, todo |-> q.todo]
<1>0. Now \in Nat /\ Now = Len(events) /\ Now \in 0 .. Now /\ events \in Seq(EventRow)
  BY DEF LifeTyped, Now
<1>1. q \in SyncState /\ q.pc = "drift"
  BY Zenon DEF DriftRead, LifeTyped
<1>2. /\ q.n \in Nat /\ q.cur \in Change /\ q.todo \in SUBSET Change /\ q.content \in Contents
  BY <1>1 DEF SyncState, Idle
<1>3. k \in Skills
  BY <1>2, Zenon DEF Change
<1>4. q.n <= Len(events) /\ \A t \in q.todo : Due(events, passed, q.n, t)
  BY <1>1, Zenon DEF SyncOK
<1>5. q1 \in SyncState /\ q2 \in SyncState
  BY <1>0, <1>2, Zenon DEF SyncState
<1>6. CurrentState(Now, k) = StateIn(events, Now, k)
  BY <1>0, CurrentStateIs, Zenon
<1>7. ASSUME acts PROVE SyncOK(q1, events, passed)
  <2>1. Allowed(events, Now, k, "quarantined")
    BY <1>0, <1>6, <1>7 DEF Allowed
  <2>2. /\ q1.pc = "quarantine" /\ q1.n = q.n /\ q1.todo = q.todo
        /\ q1.cur = q.cur /\ q1.at = Now
    BY Zenon
  <2> QED
    BY <1>4, <2>1, <2>2, Zenon DEF SyncOK
<1>8. SyncOK(q2, events, passed)
  BY <1>4, Zenon DEF SyncOK
<1>9. /\ sync' = [sync EXCEPT ![r] = IF acts THEN q1 ELSE q2]
      /\ UNCHANGED <<owner, version, events, baseline, toolchain, job, verdict, passed, req, adm>>
  BY Zenon DEF DriftRead
<1>10. /\ q1.pc = "quarantine" /\ q1.cur = q.cur /\ q1.content = q.content
       /\ q2.pc = "next"
  BY Zenon
<1> HIDE DEF q1, q2, acts
<1>11. LifeTyped'
  BY <1>5, <1>9, Zenon DEF LifeTyped
<1>12. \A x \in Replicas : sync'[x] = sync[x] \/ SyncOK(sync'[x], events, passed)
  BY <1>7, <1>8, <1>9, Zenon DEF LifeTyped
<1>13. sync'[r] = (IF acts THEN q1 ELSE q2) /\ \A y \in Replicas : y # r => sync'[y] = sync[y]
  BY <1>9, Zenon DEF LifeTyped
<1>14. CASE acts
  <2>1. \A y \in Replicas : Catching(sync[y]) =>
            /\ Catching(sync'[y])
            /\ sync'[y].cur = sync[y].cur /\ sync'[y].content = sync[y].content
    BY <1>10, <1>13, <1>14, Zenon DEF Catching
  <2> QED
    BY <1>9, <1>11, <1>12, <2>1, QuietStep, Zenon
<1>15. CASE ~acts
  <2>1. ASSUME NEW x \in Skills
        PROVE  Caught(events, baseline[x], sync', x)
    <3> DEFINE i == LastOf(events, Len(events), x)
    <3> SUFFICES ASSUME i # 0, events[i].to = "published", events[i].by = Worker,
                        IsDrift(baseline[x], events[i].content), baseline[x].at < i
                 PROVE  \E y \in Replicas : /\ Catching(sync'[y])
                                            /\ sync'[y].cur.skill = x
                                            /\ sync'[y].content = events[i].content
      BY Zenon DEF Caught
    <3>1. Caught(events, baseline[x], sync, x)
      BY CaughtIs, Zenon
    <3>2. PICK y \in Replicas : /\ Catching(sync[y])
                                /\ sync[y].cur.skill = x
                                /\ sync[y].content = events[i].content
      BY <3>1, Zenon DEF Caught
    <3>3. ASSUME y = r PROVE FALSE
      <4>1. x = k /\ q.content = events[i].content
        BY <3>2, <3>3, Zenon
      <4>2. IsDrift(baseline[k], q.content)
        BY <4>1, Zenon
      <4>3. StateIn(events, Now, k) = "published"
        BY <1>0, <4>1, Zenon DEF StateIn
      <4>4. ValidateTransition("published", "quarantined")
        BY LifecycleAssumption, Zenon DEF ValidateTransition, ValidTransitions, States
      <4> QED
        BY <1>6, <1>15, <4>2, <4>3, <4>4, Zenon DEF acts
    <3> QED
      BY <1>13, <3>2, <3>3, Zenon
  <2>2. \A x \in Skills : Caught(events', baseline'[x], sync', x)
    BY <1>9, <2>1, Zenon
  <2>3. Extends(events, events')
    BY <1>0, <1>9 DEF Extends
  <2> QED
    BY <1>9, <1>11, <1>12, <2>2, <2>3, InsertStep, Zenon
<1> QED
  BY <1>14, <1>15, Zenon

\* A quarantined skill is not published any more.
LEMMA DriftCommitKeeps ==
    ASSUME LifeInv, NEW r \in Replicas, DriftCommit(r)
    PROVE  LifeInv'
<1> USE DEF LifeInv
<1> DEFINE q == sync[r]
           k == q.cur.skill
           e == Event(k, CurrentState(q.at, k), "quarantined", q.content, None, Worker)
           q2 == [pc |-> "next", n |-> q.n, todo |-> q.todo]
<1>1. q \in SyncState /\ q.pc = "quarantine"
  BY Zenon DEF DriftCommit, LifeTyped
<1>2. /\ q.n \in Nat /\ q.at \in Nat /\ q.cur \in Change /\ q.todo \in SUBSET Change
      /\ q.content \in Contents
  BY <1>1 DEF SyncState, Idle
<1>3. k \in Skills
  BY <1>2, Zenon DEF Change
<1>4. /\ q.n <= Len(events) /\ \A t \in q.todo : Due(events, passed, q.n, t)
      /\ Allowed(events, q.at, k, "quarantined")
  BY <1>1, Zenon DEF SyncOK
<1>5. q.at \in 0 .. Len(events) /\ events \in Seq(EventRow) /\ Len(events) \in Nat
  BY <1>2, <1>4 DEF Allowed, LifeTyped
<1>6. CurrentState(q.at, k) = StateIn(events, q.at, k)
  BY <1>5, CurrentStateIs, Zenon DEF Now
<1>7. StateIn(events, q.at, k) \in States \cup {None}
  BY <1>5, StateInTyped, Zenon
<1>8. /\ e.skill = k /\ e.from = StateIn(events, q.at, k) /\ e.to = "quarantined"
      /\ e \in EventRow
  BY <1>2, <1>3, <1>6, <1>7, Zenon DEF Event, EventRow, States, ValidTransitions
<1>9. /\ events' = Append(events, e) /\ sync' = [sync EXCEPT ![r] = q2]
      /\ UNCHANGED <<owner, version, baseline, toolchain, job, verdict, passed, req, adm>>
  BY Zenon DEF DriftCommit
<1>10. q2 \in SyncState /\ SyncOK(q2, events, passed)
  BY <1>2, <1>4, Zenon DEF SyncState, SyncOK
<1> HIDE DEF e, q2
<1>11. RowsOK(events', passed) /\ Extends(events, events')
  <2>1. ValidateTransition(e.from, e.to)
    BY <1>4, <1>8, Zenon DEF Allowed
  <2>2. e.to \notin WaitingStates /\ e.to # "published"
    BY <1>8, Zenon DEF WaitingStates
  <2>3. e.from = StateIn(events, q.at, e.skill)
    BY <1>8, Zenon
  <2> QED
    BY <1>5, <1>8, <1>9, <2>1, <2>2, <2>3, RowAppended, Zenon
<1>12. LifeTyped'
  BY <1>9, <1>10, <1>11, Zenon DEF LifeTyped, Extends
<1>13. ASSUME NEW x \in Skills
       PROVE  Caught(events', baseline'[x], sync', x)
  <2>1. Caught(events, baseline[x], sync, x)
    BY CaughtIs
  <2>2. \A y \in Replicas : y # r => sync'[y] = sync[y]
    BY <1>9, Zenon DEF LifeTyped
  <2>3. e.skill # x => \A y \in Replicas :
            Catching(sync[y]) /\ sync[y].cur.skill = x =>
                /\ Catching(sync'[y]) /\ sync'[y].cur = sync[y].cur
                /\ sync'[y].content = sync[y].content
    BY <1>8, <2>2, Zenon
  <2>4. e.to # "published"
    BY <1>8, Zenon
  <2> QED
    BY <1>5, <1>8, <1>9, <2>1, <2>3, <2>4, CaughtAppended, Zenon
<1>14. \A y \in Replicas : sync'[y] = sync[y] \/ SyncOK(sync'[y], events, passed)
  BY <1>9, <1>10, Zenon DEF LifeTyped
<1> QED
  BY <1>9, <1>11, <1>12, <1>13, <1>14, InsertStep, Zenon

-----------------------------------------------------------------------------
(* The theorems *)

\* Every step of the lifecycle keeps its invariant.
LEMMA LifeStepKeeps == LifeInv /\ [LifeNext]_lifeVars => LifeInv'
<1> SUFFICES ASSUME LifeInv, [LifeNext]_lifeVars PROVE LifeInv'
  BY Zenon
<1>1. CASE \E u \in Users : RequestStep(u)
  BY <1>1, RequestKeeps, RegisterKeeps, VerdictKeeps, Zenon DEF RequestStep
<1>2. CASE \E u \in Users, k \in Skills, c \in Contents :
               Preflight(u, k, c) \/ MarketPreflight(u, k, c)
  BY <1>2, RequestKeeps, Zenon
<1>3. CASE \E u \in Users, s \in Scans : ReviewRead(u, s)
  BY <1>3, RequestKeeps, Zenon
<1>4. CASE \E s \in Scans : IssueVerdict(s)
  BY <1>4, VerdictKeeps, Zenon
<1>5. CASE \E k \in Skills, to \in AdminTargets : AdminRead(k, to)
  BY <1>5, AdminReadKeeps, Zenon
<1>6. CASE AdminCommit
  BY <1>6, AdminCommitKeeps, Zenon
<1>7. CASE \E k \in Skills, c \in Contents : SetSkillBaseline(k, c)
  BY <1>7, BaselineKeeps, Zenon
<1>8. CASE \E k \in Skills, u \in Users, e \in BOOLEAN : AssignSkillOwner(k, u, e)
  BY <1>8, AssignKeeps, Zenon
<1>9. CASE \E t \in Toolchains : ToolchainChanges(t)
  BY <1>9, AdminReadKeeps, Zenon
<1>10. CASE \E r \in Replicas : SyncStep(r)
  BY <1>10, SyncReadKeeps, SyncTxCommitKeeps, DriftReadKeeps, DriftCommitKeeps, Zenon DEF SyncStep
<1>11. CASE UNCHANGED lifeVars
  <2>1. UNCHANGED <<owner, version, events, baseline, toolchain, job, verdict, passed,
                    req, adm, sync>>
    BY <1>11, Zenon DEF lifeVars
  <2>2. LifeTyped'
    BY <2>1, Zenon DEF LifeInv, LifeTyped
  <2> QED
    BY <2>1, <2>2, QuietStep, Zenon DEF LifeInv
<1> QED
  BY <1>1, <1>2, <1>3, <1>4, <1>5, <1>6, <1>7, <1>8, <1>9, <1>10, <1>11, Zenon DEF LifeNext

\* The inductive invariant of the lifecycle holds in every reachable state.
LEMMA LifeAlways == LifeSpec => []LifeInv
BY LifeInitially, LifeStepKeeps, PTL DEF LifeSpec

\* However requests, administrators and the worker's replicas interleave, the
\* table only ever holds transitions validate_transition allows, each from a
\* state the skill had really had.
THEOREM LifecycleFollowsTable == LifeSpec => []EventsFollowTable
BY LifeAlways, LifeInvImplies, PTL

\* The worker publishes a content only under a PASS of the scan its own
\* submission named (sync_lifecycle_tick).
THEOREM LifecyclePublishesPassed == LifeSpec => []PublishedUnderOwnVerdict
BY LifeAlways, LifeInvImplies, PTL

\* A skill the worker published away from its approved baseline is on its way
\* to quarantine, at some replica (_quarantine_if_drifted).
THEOREM LifecycleCatchesDrift == LifeSpec => []DriftIsCaught
BY LifeAlways, LifeInvImplies, PTL

\* No step of the lifecycle moves a content to another skill or leaves its
\* skill without an owner row (register_skill_version, assign_skill_owner).
THEOREM LifecycleContentStays == LifeSpec => ContentKeepsItsSkill
<1>1. ASSUME LifeInv, LifeInv', [LifeNext]_lifeVars
      PROVE  [\A c \in Contents : version[c] # None =>
                 version'[c] = version[c] /\ owner'[version[c]] # None]_lifeVars
  <2>1. ASSUME NEW c \in Contents, version[c] # None
        PROVE  version'[c] = version[c]
    <3>1. ASSUME NEW u \in Users, RegisterCommit(u)
          PROVE  version'[c] = version[c]
      <4> DEFINE q == req[u]
      <4>1. \/ version' = version
            \/ /\ version[q.content] = None
               /\ version' = [version EXCEPT ![q.content] = q.skill]
        BY <3>1, Zenon DEF RegisterCommit, Clash
      <4>2. version \in [Contents -> Skills \cup {None}]
        BY <1>1, Zenon DEF LifeInv, LifeTyped
      <4> HIDE DEF q
      <4> QED
        BY <2>1, <4>1, <4>2, Zenon
    <3>2. UNCHANGED version \/ \E u \in Users : RegisterCommit(u)
      BY <1>1, ZenonT(30) DEF LifeNext, lifeVars, RequestStep, SubmitScan, RegisterRead, ReviewCommit,
                  Preflight, MarketPreflight, StartSubmission, ReviewRead, IssueVerdict, AdminRead,
                  AdminCommit, SetSkillBaseline, AssignSkillOwner, ToolchainChanges,
                  SyncStep, SyncStart, SyncVerdicts, SyncTxRead, SyncTxCommit, DriftRead,
                  DriftCommit, SyncReport
    <3> QED
      BY <3>1, <3>2, Zenon
  <2>2. \A c \in Contents : version'[c] # None => owner'[version'[c]] # None
    BY <1>1, Zenon DEF LifeInv
  <2> QED
    BY <2>1, <2>2, Zenon
<1> QED
  BY <1>1, LifeAlways, PTL DEF LifeSpec, ContentKeepsItsSkill
=============================================================================
