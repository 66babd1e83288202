--------------------------- MODULE ScanPipelineProofs ---------------------------
(***************************************************************************)
(* Proofs about ScanPipeline, for any number of scans, engines, policies,  *)
(* workers, collectors, stream entries, exceptions and deaths.             *)
(***************************************************************************)
EXTENDS ScanPipeline, TLAPS

(* Consumer groups keep their type.                                        *)

\* A group that is created empty is well formed.
LEMMA EmptyGroupType ==
    ASSUME NEW Msgs PROVE EmptyGroup(Msgs) \in Group(Msgs)
  BY MaxDeliveryAssumption DEF EmptyGroup, Group

\* XADD of an entry keeps a group well formed.
LEMMA ProducedType ==
    ASSUME NEW Msgs, NEW g \in Group(Msgs), NEW m \in Msgs
    PROVE  Produced(g, m) \in Group(Msgs)
  BY Zenon DEF Produced, Group

\* Claiming hands out entries of the stream and keeps the group well formed.
LEMMA ClaimedType ==
    ASSUME NEW Msgs, NEW g \in Group(Msgs)
    PROVE  /\ Claimed(g) \in Group(Msgs)
           /\ Claimable(g) \subseteq Msgs
  <1>1. Claimable(g) \subseteq Msgs
    BY Zenon DEF Claimable, Group
  <1>2. g.cnt \in [Msgs -> 0..(MaxDelivery + 1)] /\ g.new \subseteq Msgs /\ g.pend \subseteq Msgs
    BY Zenon DEF Group
  <1>3. ASSUME NEW m \in Msgs
        PROVE  (IF m \in Claimable(g) /\ g.cnt[m] <= MaxDelivery
                  THEN g.cnt[m] + 1 ELSE g.cnt[m]) \in 0..(MaxDelivery + 1)
    BY <1>2, MaxDeliveryAssumption
  <1>4. [m \in DOMAIN g.cnt |->
           IF m \in Claimable(g) /\ g.cnt[m] <= MaxDelivery
             THEN g.cnt[m] + 1 ELSE g.cnt[m]] \in [Msgs -> 0..(MaxDelivery + 1)]
    BY <1>2, <1>3, Zenon
  <1> QED
    BY <1>1, <1>2, <1>4, Zenon DEF Claimed, Group

\* An entry that goes stale stays one of the group's entries.
LEMMA WentIdleType ==
    ASSUME NEW Msgs, NEW g \in Group(Msgs), NEW m \in Msgs
    PROVE  WentIdle(g, m) \in Group(Msgs)
  BY Zenon DEF WentIdle, Group

\* XACK keeps a group well formed.
LEMMA AckedType ==
    ASSUME NEW Msgs, NEW g \in Group(Msgs), NEW m \in Msgs
    PROVE  Acked(g, m) \in Group(Msgs)
  <1>1. [g.cnt EXCEPT ![m] = 0] \in [Msgs -> 0..(MaxDelivery + 1)]
    BY MaxDeliveryAssumption DEF Group
  <1> QED
    BY <1>1, Zenon DEF Acked, Group
-----------------------------------------------------------------------------
(* Type correctness.                                                       *)

AtScan == {"mark", "score", "gateScore", "decide", "deadCheck", "gateDead", "markFailed"}

\* A process in the middle of a scan or of a job knows which one it is.
CursorOK ==
    /\ \A c \in Collectors : pc[c] \in AtScan => cur[c] \in Scans
    /\ \A w \in Workers : wk[w].pc \in {"run", "send"} => wk[w].cur \in ScanMsgs

Typed == TypeOK /\ CursorOK

\* The conjuncts of TypeOK and CursorOK by the part of the state they are about.
DbOK ==
    /\ job \in [Scans -> JobStates]
    /\ wait \in [Scans -> {"null", "started", "expired"}]
    /\ result \in SUBSET ResultRow
    /\ verdict \in SUBSET VerdictRow

EnvOK ==
    /\ policy \in PolicyIds
    /\ toggle \in [Sandbox -> {"on", "off", "reenabled"}]

WkOK ==
    /\ scansG \in [Groups -> Group(ScanMsgs)]
    /\ engines \in [ScanMsgs -> SUBSET Floor]
    /\ blob \in [Scans -> SUBSET (Floor \cup Sandbox)]
    /\ wk \in [Workers -> WorkerState]
    /\ \A w \in Workers : wk[w].pc \in {"run", "send"} => wk[w].cur \in ScanMsgs

ColOK ==
    /\ pc \in [Collectors -> CollectorPC]
    /\ held \in [Collectors -> SUBSET ResMsgs]
    /\ todo \in [Collectors -> SUBSET Scans]
    /\ cur \in [Collectors -> Scans \cup {NoScan}]
    /\ bad \in [Collectors -> SUBSET Scans]
    /\ mode \in [Collectors -> {"tick", "force"}]
    /\ req \in [Collectors -> SUBSET Floor]
    /\ waited \in [Collectors -> SUBSET Sandbox]
    /\ timeout \in [Collectors -> SUBSET Sandbox]
    /\ \A c \in Collectors : pc[c] \in AtScan => cur[c] \in Scans

ResOK == resG \in Group(ResMsgs)
FaultsOK == faults \in 0..MaxFaults

\* The parts make the whole.
LEMMA TypedParts ==
    /\ Typed <=> DbOK /\ EnvOK /\ WkOK /\ ColOK /\ ResOK /\ FaultsOK
    /\ Typed' <=> DbOK' /\ EnvOK' /\ WkOK' /\ ColOK' /\ ResOK' /\ FaultsOK'
  BY Zenon DEF Typed, TypeOK, CursorOK, DbOK, EnvOK, WkOK, ColOK, ResOK, FaultsOK

\* The required engines of an applied policy are floor engines.
LEMMA PolicyType ==
    ASSUME NEW p \in PolicyIds PROVE Policies[p] \in SUBSET Floor
  BY PoliciesAssumption DEF PolicyIds

\* Parts that a step leaves alone keep their type.
LEMMA Untouched ==
    /\ DbOK /\ UNCHANGED dbVars => DbOK'
    /\ EnvOK /\ UNCHANGED envVars => EnvOK'
    /\ WkOK /\ UNCHANGED wkVars => WkOK'
    /\ ColOK /\ UNCHANGED colVars => ColOK'
    /\ ResOK /\ UNCHANGED resG => ResOK'
    /\ FaultsOK /\ (UNCHANGED faults \/ Fault) => FaultsOK'
  <1>1. DbOK /\ UNCHANGED dbVars => DbOK'
    BY Zenon DEF DbOK, dbVars
  <1>2. EnvOK /\ UNCHANGED envVars => EnvOK'
    BY Zenon DEF EnvOK, envVars
  <1>3. WkOK /\ UNCHANGED wkVars => WkOK'
    BY Zenon DEF WkOK, wkVars
  <1>4. ColOK /\ UNCHANGED colVars => ColOK'
    BY Zenon DEF ColOK, colVars
  <1>5. ResOK /\ UNCHANGED resG => ResOK'
    BY Zenon DEF ResOK
  <1>6. FaultsOK /\ (UNCHANGED faults \/ Fault) => FaultsOK'
    BY ConstantsAssumption DEF FaultsOK, Fault
  <1> QED
    BY <1>1, <1>2, <1>3, <1>4, <1>5, <1>6, Zenon

\* The empty pipeline is well typed.
LEMMA InitTyped == Init => Typed
  <1> SUFFICES ASSUME Init PROVE Typed
    BY Zenon
  <1>1. DbOK /\ EnvOK /\ ColOK /\ FaultsOK
    BY PoliciesAssumption, ConstantsAssumption
    DEF Init, DbOK, EnvOK, ColOK, FaultsOK, JobStates, PolicyIds, CollectorPC, AtScan
  <1>2. IdleWorker \in WorkerState /\ IdleWorker.pc = "idle"
    BY Zenon DEF IdleWorker, WorkerState
  <1>3. WkOK
    BY <1>2, EmptyGroupType, Zenon DEF Init, WkOK
  <1>4. ResOK
    BY EmptyGroupType, Zenon DEF Init, ResOK
  <1> QED
    BY <1>1, <1>3, <1>4, TypedParts, Zenon
-----------------------------------------------------------------------------
\* produce_scan_job and produce_result keep the streams well typed.
LEMMA ProduceType ==
    /\ \A s, e : WkOK /\ e \in SUBSET Floor /\ ProduceScanJob(s, e) /\ UNCHANGED <<blob, wk>>
                   => WkOK'
    /\ \A s, tag : ResOK /\ ProduceResult(s, tag) => ResOK'
  <1>1. ASSUME NEW s, NEW e \in SUBSET Floor, WkOK, ProduceScanJob(s, e), UNCHANGED <<blob, wk>>
        PROVE  WkOK'
    <2>1. PICK m \in ScanMsgs :
            /\ scansG' = [g \in Groups |-> Produced(scansG[g], m)]
            /\ engines' = [engines EXCEPT ![m] = e]
      BY <1>1, Zenon DEF ProduceScanJob, FreeScanMsgs
    <2>2. scansG' \in [Groups -> Group(ScanMsgs)]
      BY <1>1, <2>1, ProducedType, Zenon DEF WkOK
    <2> QED
      BY <1>1, <2>1, <2>2, Zenon DEF WkOK
  <1>2. ASSUME NEW s, NEW tag, ResOK, ProduceResult(s, tag)
        PROVE  ResOK'
    BY <1>2, ProducedType DEF ResOK, ProduceResult, FreeResMsgs
  <1> QED
    BY <1>1, <1>2, Zenon

\* Submissions, rescans, sweeps of queued rows, time and administrators.
LEMMA EnvironmentTyped ==
    ASSUME Typed, NEW s \in Scans,
           \/ Submit(s) \/ Commit(s) \/ Rollback(s) \/ Rescan(s)
           \/ SweepQueued(s) \/ WaitExpires(s)
    PROVE  Typed'
  <1> USE TypedParts, Untouched
  <1>1. CASE Submit(s)
    <2>1. PICK p \in 1..policy : ProduceScanJob(s, Policies[p])
      BY <1>1, Zenon DEF Submit
    <2>2. p \in PolicyIds
      BY <2>1 DEF EnvOK, PolicyIds
    <2>3. WkOK'
      BY <1>1, <2>1, <2>2, PolicyType, ProduceType, Zenon DEF Submit
    <2>4. DbOK'
      BY <1>1, Zenon DEF Submit, DbOK, JobStates
    <2> QED
      BY <1>1, <2>3, <2>4, Zenon DEF Submit
  <1>2. CASE Commit(s)
    <2>1. DbOK'
      BY <1>2, Zenon DEF Commit, DbOK, JobStates
    <2> QED
      BY <1>2, <2>1, Zenon DEF Commit
  <1>3. CASE Rollback(s)
    <2>1. DbOK'
      BY <1>3, Zenon DEF Rollback, DbOK, JobStates
    <2> QED
      BY <1>3, <2>1, Zenon DEF Rollback
  <1>4. CASE Rescan(s)
    <2>1. DbOK'
      BY <1>4, Zenon DEF Rescan, DbOK, JobStates
    <2> QED
      BY <1>4, <2>1, Zenon DEF Rescan
  <1>5. CASE SweepQueued(s)
    <2>1. CASE s \in Lost
      <3>1. UNCHANGED wkVars
        BY <1>5, <2>1, Zenon DEF SweepQueued, wkVars
      <3>2. ResOK'
        BY <1>5, <2>1, ProduceType, Zenon DEF SweepQueued
      <3> QED
        BY <1>5, <3>1, <3>2, Zenon DEF SweepQueued
    <2>2. CASE s \notin Lost
      <3>1. policy \in PolicyIds
        BY Zenon DEF EnvOK
      <3>2. WkOK'
        BY <1>5, <2>2, <3>1, PolicyType, ProduceType, Zenon DEF SweepQueued
      <3> QED
        BY <1>5, <2>2, <3>2, Zenon DEF SweepQueued
    <2> QED
      BY <2>1, <2>2, Zenon
  <1>6. CASE WaitExpires(s)
    <2>1. DbOK'
      BY <1>6, Zenon DEF WaitExpires, DbOK
    <2> QED
      BY <1>6, <2>1, Zenon DEF WaitExpires
  <1> QED
    BY <1>1, <1>2, <1>3, <1>4, <1>5, <1>6, Zenon

\* A policy is applied, an engine is switched, a stream entry goes stale.
LEMMA AmbientTyped ==
    ASSUME Typed,
           \/ ApplyPolicy
           \/ \E x \in Switchable : ToggleEngine(x)
           \/ \E g \in Groups, m \in ScanMsgs : ScanMsgGoesIdle(g, m)
           \/ \E m \in ResMsgs : ResMsgGoesIdle(m)
    PROVE  Typed'
  <1> USE TypedParts, Untouched
  <1>1. CASE ApplyPolicy
    <2>1. EnvOK'
      BY <1>1, PoliciesAssumption DEF ApplyPolicy, EnvOK, PolicyIds
    <2> QED
      BY <1>1, <2>1, Zenon DEF ApplyPolicy
  <1>2. CASE \E x \in Switchable : ToggleEngine(x)
    <2>1. PICK x \in Switchable : ToggleEngine(x)
      BY <1>2, Zenon
    <2>2. EnvOK'
      BY <2>1, Zenon DEF ToggleEngine, EnvOK
    <2> QED
      BY <2>1, <2>2, Zenon DEF ToggleEngine
  <1>3. CASE \E g \in Groups, m \in ScanMsgs : ScanMsgGoesIdle(g, m)
    <2>1. PICK g \in Groups, m \in ScanMsgs : ScanMsgGoesIdle(g, m)
      BY <1>3, Zenon
    <2>2. WentIdle(scansG[g], m) \in Group(ScanMsgs)
      BY WentIdleType, Zenon DEF WkOK
    <2>3. WkOK'
      BY <2>1, <2>2, Zenon DEF ScanMsgGoesIdle, WkOK
    <2> QED
      BY <2>1, <2>3, Zenon DEF ScanMsgGoesIdle
  <1>4. CASE \E m \in ResMsgs : ResMsgGoesIdle(m)
    <2>1. ResOK'
      BY <1>4, WentIdleType, Zenon DEF ResMsgGoesIdle, ResOK
    <2> QED
      BY <1>4, <2>1, Zenon DEF ResMsgGoesIdle
  <1> QED
    BY <1>1, <1>2, <1>3, <1>4, Zenon

\* A worker's new record keeps the worker part well typed.
LEMMA WorkerUpdate ==
    ASSUME WkOK, NEW w \in Workers, NEW r \in WorkerState,
           r.pc \in {"run", "send"} => r.cur \in ScanMsgs,
           wk' = [wk EXCEPT ![w] = r],
           scansG' \in [Groups -> Group(ScanMsgs)],
           blob' \in [Scans -> SUBSET (Floor \cup Sandbox)],
           engines' = engines
    PROVE  WkOK'
  BY Zenon DEF WkOK

\* Every worker is a consumer of one of the groups.
LEMMA WorkerGroup ==
    ASSUME NEW w \in Workers PROVE GroupOf(w) \in Groups
  BY Zenon DEF GroupOf, Groups, Workers

\* A worker that lets go of its job is well typed.
LEMMA ReleasedType ==
    ASSUME NEW r \in WorkerState
    PROVE  Released(r) \in WorkerState /\ Released(r).pc \in {"idle", "take"}
  BY Zenon DEF Released, WorkerState, IdleWorker

\* Steps, exceptions and deaths of floor and sandbox workers.
LEMMA WorkerTyped ==
    ASSUME Typed, NEW w \in Workers, WorkerStep(w) \/ JobFails(w) \/ WorkerDies(w)
    PROVE  Typed'
  <1> USE TypedParts, Untouched
  <1> DEFINE g == GroupOf(w)
  <1>0. /\ wk[w] \in WorkerState /\ g \in Groups
        /\ wk[w].held \subseteq ScanMsgs
        /\ scansG[g] \in Group(ScanMsgs)
    BY WorkerGroup, Zenon DEF WkOK, WorkerState
  <1>1. CASE Claim(w)
    <2>1. /\ Claimed(scansG[g]) \in Group(ScanMsgs)
          /\ Claimable(scansG[g]) \subseteq ScanMsgs
      BY <1>0, ClaimedType, Zenon
    <2> DEFINE r == [wk[w] EXCEPT !.pc = "take", !.held = Claimable(scansG[g]),
                                  !.off = IF g = "sandbox" THEN Disabled ELSE {}]
    <2>2. r \in WorkerState /\ r.pc = "take"
      BY <1>0, <2>1, Zenon DEF WorkerState, Disabled
    <2>3. scansG' \in [Groups -> Group(ScanMsgs)] /\ wk' = [wk EXCEPT ![w] = r]
      BY <1>1, <1>0, <2>1, Zenon DEF Claim, WkOK
    <2> HIDE DEF r
    <2>4. WkOK'
      BY <1>1, <2>2, <2>3, WorkerUpdate, Zenon DEF Claim, WkOK
    <2> QED
      BY <1>1, <2>4, Zenon DEF Claim
  <1>2. CASE FloorTake(w)
    <2>1. PICK m \in wk[w].held :
            LET poison == Exhausted(scansG["floor"], {m})
                reject == m[1] \in Rejected \cup Lost
            IN wk' = [wk EXCEPT ![w] =
                 [@ EXCEPT !.cur  = m,
                           !.held = wk[w].held \ {m},
                           !.pc   = IF poison \/ reject THEN "send" ELSE "run",
                           !.tag  = IF poison THEN POISON_PILL
                                    ELSE IF reject THEN UNPACK_REJECTED ELSE "none",
                           !.todo = IF poison \/ reject THEN {} ELSE engines[m]]]
      BY <1>2, Zenon DEF FloorTake
    <2> DEFINE poison == Exhausted(scansG["floor"], {m})
    <2> DEFINE reject == m[1] \in Rejected \cup Lost
    <2> DEFINE r == [wk[w] EXCEPT
                       !.cur  = m,
                       !.held = wk[w].held \ {m},
                       !.pc   = IF poison \/ reject THEN "send" ELSE "run",
                       !.tag  = IF poison THEN POISON_PILL
                                ELSE IF reject THEN UNPACK_REJECTED ELSE "none",
                       !.todo = IF poison \/ reject THEN {} ELSE engines[m]]
    <2>2. m \in ScanMsgs /\ engines[m] \subseteq Floor
      BY <1>0, <2>1, Zenon DEF WkOK
    <2>3. wk' = [wk EXCEPT ![w] = r]
      BY <2>1, <1>0, Zenon DEF WkOK
    <2> HIDE DEF poison, reject
    <2>4. r \in WorkerState /\ r.cur = m
      BY <1>0, <2>2, Zenon DEF WorkerState, Tags, Terminal
    <2> HIDE DEF r
    <2>5. WkOK'
      BY <1>2, <2>2, <2>3, <2>4, WorkerUpdate, Zenon DEF FloorTake, WkOK
    <2> QED
      BY <1>2, <2>5, Zenon DEF FloorTake
  <1>3. CASE SandTake(w)
    <2>1. PICK m \in wk[w].held :
            wk' = [wk EXCEPT ![w] =
              [@ EXCEPT !.cur  = m,
                        !.held = wk[w].held \ {m},
                        !.pc   = "run",
                        !.tag  = "none",
                        !.todo = IF m[1] \in Rejected \cup Lost
                                   THEN {} ELSE Sandbox \ wk[w].off]]
      BY <1>3, Zenon DEF SandTake
    <2> DEFINE r == [wk[w] EXCEPT
                       !.cur  = m,
                       !.held = wk[w].held \ {m},
                       !.pc   = "run",
                       !.tag  = "none",
                       !.todo = IF m[1] \in Rejected \cup Lost
                                  THEN {} ELSE Sandbox \ wk[w].off]
    <2>2. r \in WorkerState /\ r.cur \in ScanMsgs
      BY <1>0, <2>1, Zenon DEF WorkerState
    <2>3. wk' = [wk EXCEPT ![w] = r]
      BY <2>1, <1>0, Zenon DEF WkOK
    <2> HIDE DEF r
    <2>4. WkOK'
      BY <1>3, <2>2, <2>3, WorkerUpdate, Zenon DEF SandTake, WkOK
    <2> QED
      BY <1>3, <2>4, Zenon DEF SandTake
  <1>4. CASE PutBlob(w)
    <2>1. PICK e \in wk[w].todo :
            /\ blob' = [blob EXCEPT ![wk[w].cur[1]] = @ \cup {e}]
            /\ wk' = [wk EXCEPT ![w] =
                        [@ EXCEPT !.pc = "send", !.tag = e, !.todo = wk[w].todo \ {e}]]
      BY <1>4, Zenon DEF PutBlob
    <2> DEFINE r == [wk[w] EXCEPT !.pc = "send", !.tag = e, !.todo = wk[w].todo \ {e}]
    <2>2. wk[w].cur \in ScanMsgs /\ wk[w].cur[1] \in Scans
      BY <1>4, Zenon DEF PutBlob, WkOK, ScanMsgs
    <2>3. e \in Floor \cup Sandbox
      BY <1>0, <2>1, Zenon DEF WorkerState
    <2>4. r \in WorkerState /\ r.cur = wk[w].cur
      BY <1>0, <2>3, Zenon DEF WorkerState, Tags
    <2>5. wk' = [wk EXCEPT ![w] = r]
      BY <2>1, <1>0, Zenon DEF WkOK
    <2>6. blob' \in [Scans -> SUBSET (Floor \cup Sandbox)]
      BY <2>1, <2>2, <2>3, Zenon DEF WkOK
    <2> HIDE DEF r
    <2>7. WkOK'
      BY <1>4, <2>2, <2>4, <2>5, <2>6, WorkerUpdate, Zenon DEF PutBlob, WkOK
    <2> QED
      BY <1>4, <2>7, Zenon DEF PutBlob
  <1>5. CASE SendResult(w)
    <2> DEFINE r == [wk[w] EXCEPT !.pc = "run"]
    <2>1. r \in WorkerState /\ r.cur = wk[w].cur /\ wk[w].cur \in ScanMsgs
      BY <1>0, <1>5, Zenon DEF SendResult, WorkerState, WkOK
    <2>2. wk' = [wk EXCEPT ![w] = r]
      BY <1>5, <1>0, Zenon DEF SendResult, WkOK
    <2> HIDE DEF r
    <2>3. WkOK'
      BY <1>5, <2>1, <2>2, WorkerUpdate, Zenon DEF SendResult, WkOK
    <2>4. ResOK'
      BY <1>5, ProduceType, Zenon DEF SendResult
    <2> QED
      BY <1>5, <2>3, <2>4, Zenon DEF SendResult
  <1>6. CASE AckJob(w)
    <2>1. wk[w].cur \in ScanMsgs
      BY <1>6, Zenon DEF AckJob, WkOK
    <2>2. scansG' \in [Groups -> Group(ScanMsgs)]
      BY <1>0, <1>6, <2>1, AckedType, Zenon DEF AckJob, WkOK
    <2>3. wk' = [wk EXCEPT ![w] = Released(wk[w])]
      BY <1>6, <1>0, Zenon DEF AckJob, WkOK
    <2>4. WkOK'
      BY <1>0, <1>6, <2>2, <2>3, ReleasedType, WorkerUpdate, Zenon DEF AckJob, WkOK
    <2> QED
      BY <1>6, <2>4, Zenon DEF AckJob
  <1>7. CASE JobFails(w)
    <2>1. wk' = [wk EXCEPT ![w] = Released(wk[w])]
      BY <1>7, <1>0, Zenon DEF JobFails, WkOK
    <2>2. WkOK'
      BY <1>0, <1>7, <2>1, ReleasedType, WorkerUpdate, Zenon DEF JobFails, WkOK
    <2> QED
      BY <1>7, <2>2, Zenon DEF JobFails
  <1>8. CASE WorkerDies(w)
    <2>1. IdleWorker \in WorkerState /\ IdleWorker.pc = "idle"
      BY Zenon DEF IdleWorker, WorkerState
    <2>2. WkOK'
      BY <1>8, <2>1, WorkerUpdate, Zenon DEF WorkerDies, WkOK
    <2> QED
      BY <1>8, <2>2, Zenon DEF WorkerDies
  <1> QED
    BY <1>1, <1>2, <1>3, <1>4, <1>5, <1>6, <1>7, <1>8, Zenon DEF WorkerStep

\* Moving to the next scan of a batch keeps a collector well typed.
LEMMA NextScanType ==
    ASSUME ColOK, NEW c \in Collectors, NextScan(c),
           bad' \in [Collectors -> SUBSET Scans],
           UNCHANGED <<held, todo, mode, req, waited>>
    PROVE  ColOK'
  BY Zenon DEF ColOK, NextScan, CollectorPC, AtScan

\* A decision of the gate keeps the collector and the verdict table well typed.
LEMMA GateType ==
    ASSUME ColOK, DbOK, NEW c \in Collectors, cur[c] \in Scans,
           NEW source \in {"score", "deadletter"},
           NEW next \in CollectorPC,
           Gate(c, source, next),
           UNCHANGED <<job, wait, result, held, todo, mode, req, waited>>
    PROVE  ColOK' /\ DbOK'
  <1>1. CASE HasVerdict(cur[c])
    <2>1. bad' \in [Collectors -> SUBSET Scans] /\ NextScan(c) /\ UNCHANGED verdict
      BY <1>1 DEF Gate, Raise, ColOK
    <2> QED
      BY <2>1, NextScanType, Zenon DEF DbOK
  <1>2. CASE ~ HasVerdict(cur[c])
    <2>1. [scan |-> cur[c], src |-> source, timeout |-> timeout[c]] \in VerdictRow
      BY Zenon DEF VerdictRow, ColOK
    <2>2. DbOK'
      BY <1>2, <2>1, Zenon DEF Gate, DbOK
    <2>3. ColOK'
      BY <1>2, Zenon DEF Gate, ColOK, AtScan
    <2> QED
      BY <2>2, <2>3, Zenon
  <1> QED
    BY <1>1, <1>2, Zenon

\* Steps, exceptions and deaths of collectors.
LEMMA CollectorTyped ==
    ASSUME Typed, NEW c \in Collectors,
           Tick(c) \/ Sweep(c) \/ CollectorStep(c) \/ ScanFails(c) \/ CollectorDies(c)
    PROVE  Typed'
  <1> USE TypedParts, Untouched
  <1>0. policy \in PolicyIds /\ Policies[policy] \in SUBSET Floor
    BY PolicyType, Zenon DEF EnvOK
  <1>1. CASE Tick(c)
    <2>1. Claimed(resG) \in Group(ResMsgs) /\ Claimable(resG) \in SUBSET ResMsgs
      BY ClaimedType, Zenon DEF ResOK
    <2>2. ScanOf(Claimable(resG)) \in SUBSET Scans
      BY <2>1, Zenon DEF ScanOf, ResMsgs
    <2>3. ColOK'
      BY <1>0, <1>1, <2>1, <2>2, Zenon DEF Tick, View, ColOK, CollectorPC, AtScan
    <2>4. ResOK'
      BY <1>1, <2>1, Zenon DEF Tick, ResOK
    <2> QED
      BY <1>1, <2>3, <2>4, Zenon DEF Tick
  <1>2. CASE Sweep(c)
    <2>1. Overdue \in SUBSET Scans
      BY Zenon DEF Overdue
    <2>2. ColOK'
      BY <1>0, <1>2, <2>1, Zenon DEF Sweep, View, ColOK, CollectorPC, AtScan
    <2> QED
      BY <1>2, <2>2, Zenon DEF Sweep
  <1>3. CASE Pick(c)
    <2>1. PICK s \in todo[c] :
            /\ cur' = [cur EXCEPT ![c] = s]
            /\ todo' = [todo EXCEPT ![c] = todo[c] \ {s}]
            /\ \E p \in {"score", "deadCheck", "mark"} : pc' = [pc EXCEPT ![c] = p]
      BY <1>3, Zenon DEF Pick, ColOK
    <2>2. s \in Scans /\ todo[c] \ {s} \in SUBSET Scans
      BY <2>1, Zenon DEF ColOK
    <2>3. /\ pc' \in [Collectors -> CollectorPC]
          /\ todo' \in [Collectors -> SUBSET Scans]
          /\ cur' \in [Collectors -> Scans \cup {NoScan}]
      <3>1. pc' \in [Collectors -> CollectorPC]
        BY <2>1, Zenon DEF ColOK, CollectorPC
      <3>2. todo' \in [Collectors -> SUBSET Scans]
        BY <2>1, <2>2, Zenon DEF ColOK
      <3>3. cur' \in [Collectors -> Scans \cup {NoScan}]
        BY <2>1, <2>2, Zenon DEF ColOK
      <3> QED
        BY <3>1, <3>2, <3>3, Zenon
    <2>4. ASSUME NEW d \in Collectors, pc'[d] \in AtScan
          PROVE  cur'[d] \in Scans
      <3>1. d # c => pc'[d] = pc[d] /\ cur'[d] = cur[d]
        BY <2>1, Zenon DEF ColOK
      <3>2. d = c => cur'[d] = s
        BY <2>1, Zenon DEF ColOK
      <3> QED
        BY <2>2, <2>4, <3>1, <3>2, Zenon DEF ColOK
    <2>5. ColOK'
      BY <1>3, <2>3, <2>4, Zenon DEF Pick, ColOK
    <2> QED
      BY <1>3, <2>5, Zenon DEF Pick
  <1>4. CASE MarkRunning(c)
    <2>1. DbOK'
      BY <1>4, Zenon DEF MarkRunning, DbOK, JobStates
    <2>2. ColOK'
      BY <1>4, Zenon DEF MarkRunning, ColOK, CollectorPC, AtScan
    <2> QED
      BY <1>4, <2>1, <2>2, Zenon DEF MarkRunning
  <1>5. CASE Score(c)
    <2>0. cur[c] \in Scans /\ bad' \in [Collectors -> SUBSET Scans]
      BY <1>5, Zenon DEF Score, ColOK, AtScan
    <2>1. CASE GiveUp(c) \/ StartWait(c)
      <3>1. DbOK'
        BY <1>5, <2>1, ZenonT(30) DEF Score, GiveUp, StartWait, DbOK
      <3>2. NextScan(c)
        BY <2>1, Zenon DEF GiveUp, StartWait
      <3>3. ColOK'
        BY <1>5, <2>0, <3>2, NextScanType, Zenon DEF Score
      <3> QED
        BY <1>5, <3>1, <3>3, Zenon DEF Score
    <2>2. CASE WriteResult(c)
      <3>1. [scan |-> cur[c], missing |-> (req[c] \cup Sandbox) \ Reported(cur[c])] \in ResultRow
        BY <2>0, Zenon DEF ResultRow, ColOK
      <3>2. DbOK'
        BY <1>5, <2>2, <3>1, Zenon DEF Score, WriteResult, DbOK, JobStates
      <3>3. waited[c] \ Reported(cur[c]) \in SUBSET Sandbox
        BY Zenon DEF ColOK
      <3>4. ColOK'
        BY <1>5, <2>0, <2>2, <3>3, Zenon DEF Score, WriteResult, ColOK, CollectorPC, AtScan
      <3> QED
        BY <1>5, <3>2, <3>4, Zenon DEF Score
    <2> QED
      BY <1>5, <2>1, <2>2, Zenon DEF Score
  <1>6. CASE GateScore(c)
    <2>1. ColOK' /\ DbOK'
      BY <1>6, GateType, Zenon DEF GateScore, ColOK, CollectorPC, AtScan
    <2> QED
      BY <1>6, <2>1, Zenon DEF GateScore
  <1>7. CASE MarkDecided(c)
    <2>1. DbOK'
      BY <1>7, Zenon DEF MarkDecided, DbOK, JobStates
    <2>2. ColOK'
      BY <1>7, NextScanType, Zenon DEF MarkDecided, ColOK
    <2> QED
      BY <1>7, <2>1, <2>2, Zenon DEF MarkDecided
  <1>8. CASE DeadCheck(c)
    <2>1. CASE job[cur[c]] \in Unscored
      <3>1. ColOK'
        BY <1>8, <2>1, Zenon DEF DeadCheck, ColOK, CollectorPC, AtScan
      <3> QED
        BY <1>8, <3>1, Zenon DEF DeadCheck
    <2>2. CASE job[cur[c]] \notin Unscored
      <3>1. ColOK'
        BY <1>8, <2>2, NextScanType, Zenon DEF DeadCheck, ColOK
      <3> QED
        BY <1>8, <3>1, Zenon DEF DeadCheck
    <2> QED
      BY <2>1, <2>2, Zenon
  <1>9. CASE GateDead(c)
    <2>1. ColOK' /\ DbOK'
      BY <1>9, GateType, Zenon DEF GateDead, ColOK, CollectorPC, AtScan
    <2> QED
      BY <1>9, <2>1, Zenon DEF GateDead
  <1>10. CASE MarkFailed(c)
    <2>1. DbOK'
      BY <1>10, Zenon DEF MarkFailed, DbOK, JobStates
    <2>2. ColOK'
      BY <1>10, NextScanType, Zenon DEF MarkFailed, ColOK
    <2> QED
      BY <1>10, <2>1, <2>2, Zenon DEF MarkFailed
  <1>11. CASE AckResult(c)
    <2>1. PICK m \in Ackable(c) :
            resG' = Acked(resG, m) /\ held' = [held EXCEPT ![c] = held[c] \ {m}]
      BY <1>11, Zenon DEF AckResult, ColOK
    <2>2. m \in ResMsgs
      BY <2>1, Zenon DEF Ackable, ColOK
    <2>3. ResOK'
      BY <2>1, <2>2, AckedType, Zenon DEF ResOK
    <2>4. ColOK'
      BY <1>11, <2>1, Zenon DEF AckResult, ColOK
    <2> QED
      BY <1>11, <2>3, <2>4, Zenon DEF AckResult
  <1>12. CASE EndTick(c) \/ CollectorDies(c)
    <2>1. ColOK'
      BY <1>12, ZenonT(30) DEF EndTick, CollectorDies, Forget, ColOK, CollectorPC, AtScan
    <2> QED
      BY <1>12, <2>1, Zenon DEF EndTick, CollectorDies, Forget
  <1>13. CASE ScanFails(c)
    <2>1. bad' \in [Collectors -> SUBSET Scans] /\ NextScan(c)
      BY <1>13, Zenon DEF ScanFails, Raise, ColOK
    <2>2. ColOK'
      BY <1>13, <2>1, NextScanType, Zenon DEF ScanFails
    <2> QED
      BY <1>13, <2>2, Zenon DEF ScanFails
  <1> QED
    BY <1>1, <1>2, <1>3, <1>4, <1>5, <1>6, <1>7, <1>8, <1>9, <1>10, <1>11, <1>12, <1>13, Zenon
    DEF CollectorStep

\* Typed is inductive.
LEMMA NextTyped ==
    ASSUME Typed, [Next]_vars PROVE Typed'
  <1>1. CASE UNCHANGED vars
    BY <1>1, TypedParts, Untouched, Zenon DEF vars
  <1>2. CASE Rest
    BY <1>2, TypedParts, Untouched, Zenon DEF Rest, vars
  <1> QED
    BY <1>1, <1>2, EnvironmentTyped, AmbientTyped, WorkerTyped, CollectorTyped, Zenon DEF Next

\* TypeOK holds in every reachable state, for every value of the constants: no
\* step of a submission, sweep, worker or collector, no exception and no death
\* leaves a row, a stream or a process in a state the code does not know.
THEOREM TypeCorrect == Spec => []TypeOK
  <1>1. Typed => TypeOK
    BY Zenon DEF Typed
  <1> QED
    BY InitTyped, NextTyped, <1>1, PTL DEF Spec
-----------------------------------------------------------------------------
(* The rows of a scan: state, result and verdict.                          *)

HasResult(s)  == \E r \in result : r.scan = s
Scored(s)     == \E v \in verdict : v.scan = s /\ v.src = "score"
DeadLettered(s) == \E v \in verdict : v.scan = s /\ v.src = "deadletter"

\* What the rows of one scan say about each other between any two of the
\* transactions that write them.
RowsOK(s) ==
    /\ job[s] \in {"scored", "decided"} <=> HasResult(s)
    /\ job[s] = "decided" => Scored(s)
    /\ job[s] = "failed" => DeadLettered(s)
    /\ Scored(s) => job[s] \in {"scored", "decided"}
    /\ HasVerdict(s) => HasRow(s)

\* What a collector between two of its transactions may rely on.
StageOK(c) ==
    /\ pc[c] \in {"gateScore", "decide"} => job[cur[c]] \in {"scored", "decided"}
    /\ pc[c] = "decide" => Scored(cur[c])
    /\ pc[c] = "gateDead" => HasRow(cur[c])
    /\ pc[c] = "markFailed" => DeadLettered(cur[c])

RowsInv ==
    /\ OneVerdictPerScan
    /\ \A s \in Scans : RowsOK(s)
    /\ \A c \in Collectors : StageOK(c)

Gates == {"gateScore", "decide", "gateDead", "markFailed"}

\* No rows, no collectors at work.
LEMMA InitRows == Init => RowsInv
  BY Zenon DEF Init, RowsInv, OneVerdictPerScan, RowsOK, StageOK, HasResult, Scored,
         DeadLettered, HasVerdict, HasRow

\* Steps that write none of the three tables and do not bring a collector to a
\* transaction that relies on them.
LEMMA RowsUnwritten ==
    ASSUME RowsInv, UNCHANGED <<job, result, verdict>>,
           \A c \in Collectors : pc'[c] \in Gates => pc'[c] = pc[c] /\ cur'[c] = cur[c]
    PROVE  RowsInv'
  <1>1. OneVerdictPerScan'
    BY Zenon DEF RowsInv, OneVerdictPerScan
  <1>2. ASSUME NEW s \in Scans PROVE RowsOK(s)'
    BY Zenon DEF RowsInv, RowsOK, HasResult, Scored, DeadLettered, HasVerdict, HasRow
  <1>3. ASSUME NEW c \in Collectors PROVE StageOK(c)'
    BY DEF RowsInv, StageOK, Scored, DeadLettered, HasRow, Gates
  <1> QED
    BY <1>1, <1>2, <1>3, Zenon DEF RowsInv

\* Steps that move one scan from state to state and write neither result nor
\* verdict: the new state must agree with the rows that are there.
LEMMA RowsStateWritten ==
    ASSUME RowsInv, DbOK, ColOK, NEW s \in Scans, NEW x \in JobStates,
           job' = [job EXCEPT ![s] = x], UNCHANGED <<result, verdict>>,
           HasRow(s) => x \in {"queued", "running", "scored", "decided", "failed"},
           job[s] \in {"scored", "decided"} <=> x \in {"scored", "decided"},
           x = "decided" => Scored(s),
           x = "failed" => DeadLettered(s),
           \A c \in Collectors : pc'[c] \in Gates => pc'[c] = pc[c] /\ cur'[c] = cur[c]
    PROVE  RowsInv'
  <1>1. OneVerdictPerScan'
    BY Zenon DEF RowsInv, OneVerdictPerScan
  <1>2. ASSUME NEW t \in Scans PROVE RowsOK(t)'
    <2>1. t # s => job'[t] = job[t]
      BY Zenon DEF DbOK
    <2>2. job'[s] = x
      BY Zenon DEF DbOK
    <2>3. (HasResult(t)' <=> HasResult(t)) /\ (Scored(t)' <=> Scored(t))
          /\ (DeadLettered(t)' <=> DeadLettered(t)) /\ (HasVerdict(t)' <=> HasVerdict(t))
      BY Zenon DEF HasResult, Scored, DeadLettered, HasVerdict
    <2>4. HasRow(t) => HasRow(t)'
      BY <2>1, <2>2, Zenon DEF HasRow
    <2> QED
      BY <2>1, <2>2, <2>3, <2>4, Zenon DEF RowsInv, RowsOK
  <1>3. ASSUME NEW c \in Collectors PROVE StageOK(c)'
    <2>1. CASE pc'[c] \notin Gates
      BY <2>1, Zenon DEF StageOK, Gates
    <2>2. CASE pc'[c] \in Gates
      <3>1. pc'[c] = pc[c] /\ cur'[c] = cur[c] /\ cur[c] \in Scans /\ StageOK(c)
        BY <2>2, Zenon DEF ColOK, Gates, AtScan, RowsInv
      <3>2. /\ job[cur[c]] \in {"scored", "decided"} => job'[cur[c]] \in {"scored", "decided"}
            /\ HasRow(cur[c]) => job'[cur[c]] \in {"queued", "running", "scored", "decided", "failed"}
        BY <3>1, Zenon DEF DbOK, HasRow
      <3> QED
        BY <3>1, <3>2, Zenon DEF StageOK, Scored, DeadLettered, HasRow
    <2> QED
      BY <2>1, <2>2, Zenon
  <1> QED
    BY <1>1, <1>2, <1>3, Zenon DEF RowsInv

\* The scoring transaction: the first result row of a scan that was unscored.
LEMMA RowsResultWritten ==
    ASSUME RowsInv, DbOK, ColOK, NEW c \in Collectors, pc[c] = "score", WriteResult(c),
           UNCHANGED verdict
    PROVE  RowsInv'
  <1> DEFINE s == cur[c]
  <1> DEFINE row == [scan |-> s, missing |-> (req[c] \cup Sandbox) \ Reported(s)]
  <1>0. s \in Scans /\ job[s] \in Unscored /\ job' = [job EXCEPT ![s] = "scored"]
        /\ result' = result \cup {row} /\ row.scan = s
        /\ pc' = [pc EXCEPT ![c] = "gateScore"] /\ cur' = cur
    BY Zenon DEF WriteResult, ColOK, AtScan
  <1> HIDE DEF row
  <1>1. ~ HasResult(s)
    BY <1>0, Zenon DEF RowsInv, RowsOK, Unscored
  <1>2. OneVerdictPerScan'
    BY <1>0, <1>1, Zenon DEF RowsInv, OneVerdictPerScan, HasResult
  <1>3. ASSUME NEW t \in Scans PROVE RowsOK(t)'
    <2>1. (Scored(t)' <=> Scored(t)) /\ (DeadLettered(t)' <=> DeadLettered(t))
          /\ (HasVerdict(t)' <=> HasVerdict(t))
      BY Zenon DEF Scored, DeadLettered, HasVerdict
    <2>2. RowsOK(t)
      BY Zenon DEF RowsInv
    <2>3. CASE t = s
      <3>1. job'[t] = "scored" /\ HasResult(t)'
        BY <1>0, <2>3, Zenon DEF DbOK, HasResult
      <3> QED
        BY <2>1, <2>2, <3>1, Zenon DEF RowsOK, HasRow
    <2>4. CASE t # s
      <3>1. job'[t] = job[t] /\ (HasResult(t)' <=> HasResult(t))
        BY <1>0, <2>4, Zenon DEF DbOK, HasResult
      <3> QED
        BY <2>1, <2>2, <3>1, Zenon DEF RowsOK, HasRow
    <2> QED
      BY <2>3, <2>4, Zenon
  <1>4. ASSUME NEW d \in Collectors PROVE StageOK(d)'
    <2>1. CASE d = c
      BY <1>0, <2>1, Zenon DEF StageOK, DbOK, ColOK
    <2>2. CASE d # c
      <3>1. pc'[d] = pc[d] /\ cur'[d] = cur[d] /\ StageOK(d)
        BY <1>0, <2>2, Zenon DEF ColOK, RowsInv
      <3>2. CASE pc[d] \notin Gates
        BY <3>1, <3>2, Zenon DEF StageOK, Gates
      <3>3. CASE pc[d] \in Gates
        <4>1. cur[d] \in Scans
          BY <3>3, Zenon DEF ColOK, Gates, AtScan
        <4>2. job'[cur[d]] = IF cur[d] = s THEN "scored" ELSE job[cur[d]]
          BY <1>0, <4>1, Zenon DEF DbOK
        <4> QED
          BY <3>1, <4>2, Zenon DEF StageOK, HasRow, Scored, DeadLettered
      <3> QED
        BY <3>2, <3>3, Zenon
    <2> QED
      BY <2>1, <2>2, Zenon
  <1> QED
    BY <1>2, <1>3, <1>4, Zenon DEF RowsInv

\* The gate's transaction: the first verdict of the scan in hand, from the path
\* the collector is on.
LEMMA RowsVerdictWritten ==
    ASSUME RowsInv, DbOK, ColOK, NEW c \in Collectors,
           ~ HasVerdict(cur[c]),
           NEW source, NEW next, Gate(c, source, next),
           \/ pc[c] = "gateScore" /\ source = "score" /\ next = "decide"
           \/ pc[c] = "gateDead" /\ source = "deadletter" /\ next = "markFailed",
           UNCHANGED <<job, result>>
    PROVE  RowsInv'
  <1> DEFINE s == cur[c]
  <1> DEFINE row == [scan |-> s, src |-> source, timeout |-> timeout[c]]
  <1>0. s \in Scans /\ verdict' = verdict \cup {row} /\ row.scan = s /\ row.src = source
        /\ pc' = [pc EXCEPT ![c] = next] /\ cur' = cur
    BY Zenon DEF Gate, ColOK, AtScan
  <1> HIDE DEF row
  <1>1. StageOK(c) /\ HasRow(s)
    BY Zenon DEF RowsInv, StageOK, HasRow
  <1>2. OneVerdictPerScan'
    <2>1. ASSUME NEW v1 \in verdict', NEW v2 \in verdict', v1.scan = v2.scan
          PROVE  v1 = v2
      <3>1. \A v \in verdict : v.scan # s
        BY Zenon DEF HasVerdict
      <3> QED
        BY <1>0, <2>1, <3>1, Zenon DEF RowsInv, OneVerdictPerScan
    <2> QED
      BY <2>1, Zenon DEF RowsInv, OneVerdictPerScan
  <1>3. ASSUME NEW t \in Scans
        PROVE  /\ Scored(t)' <=> Scored(t) \/ (t = s /\ source = "score")
               /\ DeadLettered(t)' <=> DeadLettered(t) \/ (t = s /\ source = "deadletter")
               /\ HasVerdict(t)' <=> HasVerdict(t) \/ t = s
               /\ HasResult(t)' <=> HasResult(t)
    BY <1>0, Zenon DEF Scored, DeadLettered, HasVerdict, HasResult
  <1>4. ASSUME NEW t \in Scans PROVE RowsOK(t)'
    <2>1. RowsOK(t) /\ (t = s /\ source = "score" => job[t] \in {"scored", "decided"})
      BY <1>1, Zenon DEF RowsInv, StageOK
    <2> QED
      BY <1>1, <1>3, <2>1, ZenonT(30) DEF RowsOK, HasRow
  <1>5. ASSUME NEW d \in Collectors PROVE StageOK(d)'
    <2>1. CASE d = c
      <3>1. pc'[d] = next /\ cur'[d] = s
        BY <1>0, <2>1, Zenon DEF ColOK
      <3> QED
        BY <1>0, <1>1, <1>3, <3>1, Zenon DEF StageOK
    <2>2. CASE d # c
      <3>1. pc'[d] = pc[d] /\ cur'[d] = cur[d] /\ StageOK(d)
        BY <1>0, <2>2, Zenon DEF ColOK, RowsInv
      <3>2. CASE pc[d] \notin Gates
        BY <3>1, <3>2, ZenonT(30) DEF StageOK, Gates
      <3>3. CASE pc[d] \in Gates
        <4>1. cur[d] \in Scans
          BY <3>3, Zenon DEF ColOK, Gates, AtScan
        <4> QED
          BY <1>3, <3>1, <4>1, Zenon DEF StageOK, HasRow
      <3> QED
        BY <3>2, <3>3, Zenon
    <2> QED
      BY <2>1, <2>2, Zenon
  <1> QED
    BY <1>2, <1>4, <1>5, Zenon DEF RowsInv

\* A collector that moves to its next scan is before none of these transactions.
LEMMA NextScanLeavesGates ==
    ASSUME ColOK, NEW c \in Collectors, NextScan(c)
    PROVE  \A d \in Collectors : pc'[d] \in Gates => pc'[d] = pc[d] /\ cur'[d] = cur[d]
  BY Zenon DEF NextScan, ColOK, Gates

\* Submissions and rescans open a scan that has no row yet.
LEMMA EnvironmentRows ==
    ASSUME RowsInv, Typed, NEW s \in Scans,
           \/ Submit(s) \/ Commit(s) \/ Rollback(s) \/ Rescan(s)
           \/ SweepQueued(s) \/ WaitExpires(s)
    PROVE  RowsInv'
  <1> USE TypedParts
  <1>1. CASE SweepQueued(s) \/ WaitExpires(s)
    BY <1>1, RowsUnwritten, Zenon DEF SweepQueued, WaitExpires, dbVars, colVars
  <1>2. CASE Submit(s) \/ Commit(s) \/ Rollback(s) \/ Rescan(s)
    <2>1. PICK x \in {"uncommitted", "queued", "rolledback"} :
            job' = [job EXCEPT ![s] = x]
      BY <1>2, Zenon DEF Submit, Commit, Rollback, Rescan
    <2>2. ~ HasRow(s) /\ UNCHANGED <<result, verdict, pc, cur>>
      BY <1>2, Zenon DEF Submit, Commit, Rollback, Rescan, HasRow, colVars
    <2> QED
      BY <2>1, <2>2, RowsStateWritten, Zenon DEF JobStates, HasRow
  <1> QED
    BY <1>1, <1>2, Zenon

\* Administrators, time and workers do not touch the rows.
LEMMA BystanderRows ==
    ASSUME RowsInv,
           \/ ApplyPolicy
           \/ \E x \in Switchable : ToggleEngine(x)
           \/ \E g \in Groups, m \in ScanMsgs : ScanMsgGoesIdle(g, m)
           \/ \E m \in ResMsgs : ResMsgGoesIdle(m)
           \/ \E w \in Workers : WorkerStep(w) \/ JobFails(w) \/ WorkerDies(w)
           \/ UNCHANGED vars
    PROVE  RowsInv'
  <1>1. UNCHANGED <<dbVars, colVars>>
    BY Zenon DEF ApplyPolicy, ToggleEngine, ScanMsgGoesIdle, ResMsgGoesIdle, WorkerStep, Claim,
           FloorTake, SandTake, PutBlob, SendResult, AckJob, JobFails, WorkerDies, vars
  <1> QED
    BY <1>1, RowsUnwritten, Zenon DEF dbVars, colVars

\* Every transaction of a collector keeps the rows in agreement.
LEMMA CollectorRows ==
    ASSUME RowsInv, Typed, NEW c \in Collectors,
           Tick(c) \/ Sweep(c) \/ CollectorStep(c) \/ ScanFails(c) \/ CollectorDies(c)
    PROVE  RowsInv'
  <1> USE TypedParts
  <1>1. CASE Tick(c) \/ Sweep(c) \/ EndTick(c) \/ CollectorDies(c)
    <2>1. UNCHANGED <<job, result, verdict>>
      BY <1>1, Zenon DEF Tick, Sweep, EndTick, CollectorDies, Forget, dbVars
    <2>2. \A d \in Collectors : pc'[d] \in Gates => pc'[d] = pc[d] /\ cur'[d] = cur[d]
      <3>1. \/ pc' = [pc EXCEPT ![c] = "idle"]
            \/ pc' = [pc EXCEPT ![c] = "pick"]
        BY <1>1, Zenon DEF Tick, Sweep, EndTick, CollectorDies, Forget
      <3>2. pc'[c] \notin Gates
        BY <3>1, Zenon DEF ColOK, Gates
      <3>3. cur' = cur \/ cur' = [cur EXCEPT ![c] = NoScan]
        BY <1>1, Zenon DEF Tick, Sweep, EndTick, CollectorDies, Forget
      <3>4. ASSUME NEW d \in Collectors, d # c PROVE pc'[d] = pc[d] /\ cur'[d] = cur[d]
        BY <3>1, <3>3, <3>4 DEF ColOK
      <3> QED
        BY <3>2, <3>4, Zenon
    <2> QED
      BY <2>1, <2>2, RowsUnwritten, Zenon
  <1>2. CASE Pick(c)
    <2>1. PICK s \in todo[c], p \in {"score", "deadCheck", "mark"} :
            cur' = [cur EXCEPT ![c] = s] /\ pc' = [pc EXCEPT ![c] = p]
      BY <1>2, Zenon DEF Pick
    <2>2. \A d \in Collectors : pc'[d] \in Gates => pc'[d] = pc[d] /\ cur'[d] = cur[d]
      BY <2>1, Zenon DEF ColOK, Gates
    <2> QED
      BY <1>2, <2>2, RowsUnwritten, Zenon DEF Pick, dbVars
  <1>3. CASE MarkRunning(c)
    <2> DEFINE x == IF job[cur[c]] = "queued" THEN "running" ELSE job[cur[c]]
    <2>1. cur[c] \in Scans /\ job' = [job EXCEPT ![cur[c]] = x] /\ x \in JobStates
      BY <1>3, Zenon DEF MarkRunning, ColOK, AtScan, DbOK, JobStates
    <2>2. \A d \in Collectors : pc'[d] \in Gates => pc'[d] = pc[d] /\ cur'[d] = cur[d]
      BY <1>3, Zenon DEF MarkRunning, ColOK, Gates
    <2>3. RowsOK(cur[c])
          /\ (HasRow(cur[c]) => x \in {"queued", "running", "scored", "decided", "failed"})
      BY <1>3, <2>1, Zenon DEF RowsInv, HasRow, MarkRunning, DbOK
    <2>4. UNCHANGED <<result, verdict>>
      BY <1>3, Zenon DEF MarkRunning
    <2>5. /\ job[cur[c]] \in {"scored", "decided"} <=> x \in {"scored", "decided"}
          /\ x = "decided" => Scored(cur[c])
          /\ x = "failed" => DeadLettered(cur[c])
      BY <2>3, Zenon DEF RowsOK
    <2> HIDE DEF x
    <2> QED
      BY <2>1, <2>2, <2>3, <2>4, <2>5, RowsStateWritten, Zenon
  <1>4. CASE Score(c)
    <2>1. CASE GiveUp(c) \/ StartWait(c)
      <3>1. NextScan(c) /\ UNCHANGED <<job, result, verdict>>
        BY <1>4, <2>1, ZenonT(30) DEF Score, GiveUp, StartWait
      <3> QED
        BY <3>1, NextScanLeavesGates, RowsUnwritten, Zenon
    <2>2. CASE WriteResult(c)
      BY <1>4, <2>2, RowsResultWritten, Zenon DEF Score
    <2> QED
      BY <1>4, <2>1, <2>2, ZenonT(30) DEF Score
  <1>5. CASE GateScore(c) \/ GateDead(c)
    <2>1. PICK source, next :
            /\ Gate(c, source, next)
            /\ \/ pc[c] = "gateScore" /\ source = "score" /\ next = "decide"
               \/ pc[c] = "gateDead" /\ source = "deadletter" /\ next = "markFailed"
      BY <1>5, Zenon DEF GateScore, GateDead
    <2>2. UNCHANGED <<job, result>>
      BY <1>5, Zenon DEF GateScore, GateDead
    <2>3. CASE HasVerdict(cur[c])
      <3>1. NextScan(c) /\ UNCHANGED verdict
        BY <2>1, <2>3, Zenon DEF Gate, Raise
      <3> QED
        BY <2>2, <3>1, NextScanLeavesGates, RowsUnwritten, Zenon
    <2>4. CASE ~ HasVerdict(cur[c])
      BY <2>1, <2>2, <2>4, RowsVerdictWritten, Zenon
    <2> QED
      BY <2>3, <2>4, Zenon
  <1>6. CASE MarkDecided(c)
    <2> DEFINE x == IF job[cur[c]] = "scored" THEN "decided" ELSE job[cur[c]]
    <2>1. cur[c] \in Scans /\ job' = [job EXCEPT ![cur[c]] = x] /\ x \in JobStates
      BY <1>6, Zenon DEF MarkDecided, ColOK, AtScan, DbOK, JobStates
    <2>2. RowsOK(cur[c]) /\ Scored(cur[c])
          /\ (HasRow(cur[c]) => x \in {"queued", "running", "scored", "decided", "failed"})
      BY <1>6, <2>1, Zenon DEF RowsInv, StageOK, HasRow, MarkDecided, DbOK
    <2>3. NextScan(c) /\ UNCHANGED <<result, verdict>>
      BY <1>6, Zenon DEF MarkDecided
    <2>4. /\ job[cur[c]] \in {"scored", "decided"} <=> x \in {"scored", "decided"}
          /\ x = "failed" => DeadLettered(cur[c])
      BY <2>2, Zenon DEF RowsOK
    <2> HIDE DEF x
    <2> QED
      BY <2>1, <2>2, <2>3, <2>4, NextScanLeavesGates, RowsStateWritten, Zenon
  <1>7. CASE DeadCheck(c)
    <2>1. CASE job[cur[c]] \in Unscored
      <3>1. pc' = [pc EXCEPT ![c] = "gateDead"] /\ UNCHANGED <<job, result, verdict, cur>>
        BY <1>7, <2>1, Zenon DEF DeadCheck, dbVars
      <3>2. OneVerdictPerScan' /\ \A s \in Scans : RowsOK(s)'
        BY <3>1, Zenon DEF RowsInv, OneVerdictPerScan, RowsOK, HasResult, Scored, DeadLettered,
                    HasVerdict, HasRow
      <3>3. ASSUME NEW d \in Collectors PROVE StageOK(d)'
        BY <2>1, <3>1, ZenonT(30) DEF RowsInv, StageOK, Scored, DeadLettered,
               HasRow, Unscored, ColOK
      <3> QED
        BY <3>2, <3>3, Zenon DEF RowsInv
    <2>2. CASE job[cur[c]] \notin Unscored
      BY <1>7, <2>2, NextScanLeavesGates, RowsUnwritten, Zenon DEF DeadCheck, dbVars
    <2> QED
      BY <2>1, <2>2, Zenon
  <1>8. CASE MarkFailed(c)
    <2> DEFINE x == IF job[cur[c]] \in Unscored THEN "failed" ELSE job[cur[c]]
    <2>1. cur[c] \in Scans /\ job' = [job EXCEPT ![cur[c]] = x] /\ x \in JobStates
      BY <1>8, Zenon DEF MarkFailed, ColOK, AtScan, DbOK, JobStates
    <2>2. RowsOK(cur[c]) /\ DeadLettered(cur[c])
          /\ (HasRow(cur[c]) => x \in {"queued", "running", "scored", "decided", "failed"})
      BY <1>8, <2>1, Zenon DEF RowsInv, StageOK, HasRow, MarkFailed, DbOK, Unscored
    <2>3. NextScan(c) /\ UNCHANGED <<result, verdict>>
      BY <1>8, Zenon DEF MarkFailed
    <2>4. /\ job[cur[c]] \in {"scored", "decided"} <=> x \in {"scored", "decided"}
          /\ x = "decided" => Scored(cur[c])
      BY <2>2, Zenon DEF RowsOK, Unscored
    <2> HIDE DEF x
    <2> QED
      BY <2>1, <2>2, <2>3, <2>4, NextScanLeavesGates, RowsStateWritten, Zenon
  <1>9. CASE AckResult(c)
    BY <1>9, RowsUnwritten, ZenonT(30) DEF AckResult, dbVars
  <1>10. CASE ScanFails(c)
    <2>1. NextScan(c) /\ UNCHANGED <<job, result, verdict>>
      BY <1>10, Zenon DEF ScanFails, Raise, dbVars
    <2> QED
      BY <2>1, NextScanLeavesGates, RowsUnwritten, Zenon
  <1> QED
    BY <1>1, <1>2, <1>3, <1>4, <1>5, <1>6, <1>7, <1>8, <1>9, <1>10, Zenon DEF CollectorStep

\* RowsInv is inductive, given the types.
LEMMA NextRows ==
    ASSUME RowsInv, Typed, [Next]_vars PROVE RowsInv'
  <1>1. CASE Rest
    BY <1>1, BystanderRows, Zenon DEF Rest
  <1> QED
    BY <1>1, EnvironmentRows, BystanderRows, CollectorRows, Zenon DEF Next

\* RowsInv holds in every reachable state.
LEMMA RowsAlways == Spec => [](Typed /\ RowsInv)
  <1>1. Init => Typed /\ RowsInv
    BY InitTyped, InitRows, Zenon
  <1>2. Typed /\ RowsInv /\ [Next]_vars => Typed' /\ RowsInv'
    BY NextTyped, NextRows, Zenon
  <1> QED
    BY <1>1, <1>2, PTL DEF Spec

\* At most one verdict and one result row per scan, for any number of replicas,
\* redeliveries, exceptions and deaths: the primary key of verdict and the
\* FOR UPDATE check of _try_score_and_decide suffice.
THEOREM VerdictsAreUnique == Spec => []OneVerdictPerScan
  <1>1. RowsInv => OneVerdictPerScan
    BY Zenon DEF RowsInv
  <1> QED
    BY RowsAlways, <1>1, PTL

\* scan_job.state agrees with the result and verdict rows in every reachable
\* state, although the three are written in three transactions.
THEOREM StateAgreesWithRows == Spec => []StateMatchesRows
  <1>1. RowsInv => StateMatchesRows
    BY Zenon DEF RowsInv, RowsOK, StateMatchesRows, HasResult, Scored, DeadLettered
  <1> QED
    BY RowsAlways, <1>1, PTL
=============================================================================
