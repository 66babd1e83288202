--------------------------- MODULE ServicesProofs ---------------------------
(***************************************************************************)
(* The safety of services around the pipeline, for any numbers of          *)
(* processes, skills, engines and any lifetimes: WorkerLoop (the dedup key *)
(* of the scheduled reports), ShareProbe (what ready says about the blob   *)
(* store) and MarketplaceAnswer (what a safe answer says about the scans). *)
(***************************************************************************)
EXTENDS WorkerLoop, ShareProbe, MarketplaceAnswer, WellFoundedInduction, TLAPS

(***************************************************************************)
(* WorkerLoop                                                              *)
(***************************************************************************)

ReportTyped ==
    /\ loopClock \in Nat
    /\ schedules \in Seq(Crons)
    /\ pass \in [Loops -> [stamp : Int, todo : SUBSET Nat]]
    /\ firedKey \in [Stamps -> Int] /\ emitted \in [Stamps -> Nat]

\* A pass under way started at most MaxPass minutes ago.
PassesOK ==
    \A l \in Loops : pass[l] # NoPass =>
        pass[l].stamp <= loopClock /\ loopClock <= pass[l].stamp + MaxPass

\* The key of a report that went out outlives every pass of its minute: it was
\* set during one, and so not before the minute itself.
KeysOK ==
    \A k \in Stamps : emitted[k] # 0 => emitted[k] = 1 /\ firedKey[k] >= k[2] + FiredTtl

LoopInv == ReportTyped /\ PassesOK /\ KeysOK

\* No pass is under way and nothing has gone out.
LEMMA LoopInitially == LoopInit => LoopInv
BY DEF LoopInit, LoopInv, ReportTyped, PassesOK, KeysOK, NoPass

\* What a step does that leaves the rows, the keys and the clock alone and
\* starts no pass.
LEMMA QuietKeeps ==
    ASSUME LoopInv, UNCHANGED <<loopClock, schedules, firedKey, emitted>>,
           pass' = pass \/ \E l \in Loops : pass' = [pass EXCEPT ![l] = NoPass]
    PROVE  LoopInv'
<1>1. NoPass \in [stamp : Int, todo : SUBSET Nat]
  BY DEF NoPass
<1>2. pass' \in [Loops -> [stamp : Int, todo : SUBSET Nat]]
  BY <1>1, Zenon DEF LoopInv, ReportTyped
<1>3. \A l \in Loops : pass'[l] = pass[l] \/ pass'[l] = NoPass
  BY Zenon DEF LoopInv, ReportTyped
<1>4. PassesOK'
  BY <1>3, Zenon DEF LoopInv, PassesOK
<1>5. QED
  BY <1>2, <1>4, Zenon DEF LoopInv, ReportTyped, KeysOK

\* The clock waits for the passes that have taken MaxPass minutes.
LEMMA ClockKeeps ==
    ASSUME LoopInv, ClockTicks
    PROVE  LoopInv'
<1>1. loopClock' = loopClock + 1 /\ UNCHANGED <<schedules, pass, firedKey, emitted>>
  BY Zenon DEF ClockTicks, reportVars
<1>2. PassesOK'
  <2> SUFFICES ASSUME NEW l \in Loops, pass[l] # NoPass
               PROVE  /\ pass[l].stamp <= loopClock + 1
                      /\ loopClock + 1 <= pass[l].stamp + MaxPass
    BY <1>1, Zenon DEF PassesOK
  <2>1. loopClock < pass[l].stamp + MaxPass /\ pass[l].stamp <= loopClock
    BY Zenon DEF ClockTicks, LoopInv, PassesOK
  <2>2. loopClock \in Nat /\ pass[l].stamp \in Int /\ MaxPass \in Nat
    BY DedupAssumption, Zenon DEF LoopInv, ReportTyped
  <2>3. QED
    BY <2>1, <2>2
<1>3. QED
  BY <1>1, <1>2 DEF LoopInv, ReportTyped, KeysOK

\* A new schedule
LEMMA ScheduleKeeps ==
    ASSUME LoopInv, NEW c \in Crons, ScheduleReport(c)
    PROVE  LoopInv'
<1>1. schedules' \in Seq(Crons)
  BY DEF LoopInv, ReportTyped, ScheduleReport
<1>2. UNCHANGED <<loopClock, pass, firedKey, emitted>>
  BY Zenon DEF ScheduleReport
<1>3. QED
  BY <1>1, <1>2, Zenon DEF LoopInv, ReportTyped, PassesOK, KeysOK

\* A pass starts with the time it reads.
LEMMA ReadKeeps ==
    ASSUME LoopInv, NEW l \in Loops, ReportsRead(l)
    PROVE  LoopInv'
<1>1. PICK p : /\ p = [stamp |-> loopClock,
                       todo |-> {s \in DOMAIN schedules :
                                     CronMatches(schedules[s], Calendar[loopClock])}]
               /\ pass' = [pass EXCEPT ![l] = p]
  BY Zenon DEF ReportsRead
<1>2. p \in [stamp : Int, todo : SUBSET Nat] /\ p.stamp = loopClock
  <2>1. DOMAIN schedules \subseteq Nat /\ loopClock \in Int
    BY DEF LoopInv, ReportTyped
  <2>2. QED
    BY <1>1, <2>1, Zenon
<1>3. pass' \in [Loops -> [stamp : Int, todo : SUBSET Nat]]
  BY <1>1, <1>2, Zenon DEF LoopInv, ReportTyped
<1>4. UNCHANGED <<loopClock, schedules, firedKey, emitted>>
  BY Zenon DEF ReportsRead
<1>5. \A m \in Loops : pass'[m] = pass[m] \/ pass'[m].stamp = loopClock
  BY <1>1, <1>2, Zenon DEF LoopInv, ReportTyped
<1>6. PassesOK'
  <2>1. loopClock <= loopClock /\ loopClock <= loopClock + MaxPass
    BY DedupAssumption DEF LoopInv, ReportTyped
  <2>2. QED
    BY <1>4, <1>5, <2>1, Zenon DEF LoopInv, PassesOK
<1>7. QED
  BY <1>3, <1>4, <1>6, Zenon DEF LoopInv, ReportTyped, KeysOK

\* SET NX: a report goes out only under a key that was free, and the key of one
\* that went out is not free again during a pass of its minute.
LEMMA FireKeeps ==
    ASSUME LoopInv, NEW l \in Loops, ReportFires(l)
    PROVE  LoopInv'
<1>1. PICK s \in pass[l].todo, generated \in BOOLEAN :
          LET k == <<s, pass[l].stamp>>
              claim == ClaimMinute(l, s)
          IN  /\ pass' = [pass EXCEPT ![l].todo = @ \ {s}]
              /\ firedKey' = IF claim.free THEN [firedKey EXCEPT ![k] = claim.expires]
                             ELSE firedKey
              /\ emitted' = IF claim.free /\ generated THEN [emitted EXCEPT ![k] = @ + 1]
                            ELSE emitted
  BY Zenon DEF ReportFires
<1>2. UNCHANGED <<loopClock, schedules>> /\ pass[l] # NoPass
  BY Zenon DEF ReportFires
<1>3. PICK q \in [stamp : Int, todo : SUBSET Nat] : q = pass[l]
  BY Zenon DEF LoopInv, ReportTyped
<1>4. /\ pass' \in [Loops -> [stamp : Int, todo : SUBSET Nat]]
      /\ \A m \in Loops : pass'[m] = pass[m] \/ (m = l /\ pass'[m].stamp = q.stamp)
  <2>1. pass' = [pass EXCEPT ![l] = [q EXCEPT !.todo = q.todo \ {s}]]
    BY <1>1, <1>3, Zenon
  <2>2. PICK n \in [stamp : Int, todo : SUBSET Nat] : n = [q EXCEPT !.todo = q.todo \ {s}]
    BY <1>3, Zenon
  <2>3. n.stamp = q.stamp
    BY <2>2, Zenon
  <2>4. QED
    BY <2>1, <2>2, <2>3, Zenon DEF LoopInv, ReportTyped
<1>5. PassesOK'
  BY <1>2, <1>3, <1>4, Zenon DEF LoopInv, PassesOK
<1>6. PICK k : k = <<s, q.stamp>>
  BY Zenon
<1>7. CASE ~(firedKey[k] <= loopClock)
  <2>1. UNCHANGED <<firedKey, emitted>>
    BY <1>1, <1>3, <1>6, <1>7, Zenon DEF ClaimMinute
  <2>2. QED
    BY <1>2, <1>4, <1>5, <2>1, Zenon DEF LoopInv, ReportTyped, KeysOK
<1>8. CASE firedKey[k] <= loopClock
  <2>1. /\ firedKey' = [firedKey EXCEPT ![k] = loopClock + FiredTtl]
        /\ emitted' = IF generated THEN [emitted EXCEPT ![k] = @ + 1] ELSE emitted
    BY <1>1, <1>3, <1>6, <1>8, Zenon DEF ClaimMinute
  <2>2. loopClock \in Nat /\ q.stamp \in Int /\ q.stamp <= loopClock
        /\ loopClock <= q.stamp + MaxPass /\ MaxPass < FiredTtl
        /\ MaxPass \in Nat /\ FiredTtl \in Nat
    BY <1>2, <1>3, DedupAssumption, Zenon DEF LoopInv, ReportTyped, PassesOK
  <2>3. firedKey' \in [Stamps -> Int]
    <3>1. firedKey \in [Stamps -> Int] /\ loopClock + FiredTtl \in Int
      BY <2>2 DEF LoopInv, ReportTyped
    <3> HIDE DEF Stamps
    <3>2. QED
      BY <2>1, <3>1, Zenon
  <2>4. emitted' \in [Stamps -> Nat]
    <3>1. emitted \in [Stamps -> Nat]
      BY Zenon DEF LoopInv, ReportTyped
    <3>2. CASE k \in Stamps
      <4>1. emitted[k] + 1 \in Nat
        BY <3>1, <3>2
      <4>2. QED
        BY <2>1, <3>1, <4>1, Zenon
    <3>3. CASE k \notin Stamps
      <4>1. emitted' = emitted
        BY <2>1, <3>1, <3>3, Zenon
      <4>2. QED
        BY <3>1, <4>1, Zenon
    <3>4. QED
      BY <3>2, <3>3, Zenon
  <2>5. ASSUME NEW j \in Stamps, emitted'[j] # 0
        PROVE  emitted'[j] = 1 /\ firedKey'[j] >= j[2] + FiredTtl
    <3>1. CASE j # k
      BY <2>1, <2>5, <3>1, Zenon DEF LoopInv, ReportTyped, KeysOK
    <3>2. CASE j = k
      <4>1. j[2] = q.stamp /\ firedKey[j] \in Int /\ firedKey[j] <= loopClock
        BY <1>6, <1>8, <3>2, Zenon DEF LoopInv, ReportTyped
      <4>2. emitted[j] = 0
        BY <2>2, <4>1 DEF LoopInv, KeysOK
      <4>3. emitted'[j] \in {0, 1} /\ firedKey'[j] = loopClock + FiredTtl
        BY <2>1, <3>2, <4>2 DEF LoopInv, ReportTyped
      <4>4. QED
        BY <2>2, <2>5, <4>1, <4>3
    <3>3. QED
      BY <3>1, <3>2, Zenon
  <2>6. QED
    BY <1>2, <1>4, <1>5, <2>3, <2>4, <2>5, Zenon DEF LoopInv, ReportTyped, KeysOK
<1>9. QED
  BY <1>7, <1>8, Zenon

\* The invariant holds throughout.
LEMMA LoopAlways == LoopSpec => []LoopInv
<1>1. ASSUME LoopInv, UNCHANGED loopVars PROVE LoopInv'
  BY <1>1, QuietKeeps, Zenon DEF loopVars
<1>2. ASSUME LoopInv, NEW l \in Loops, LoopStarts(l) \/ TickStarts(l) \/ OtherStep(l)
                                       \/ TakeLease(l) \/ SweepBatch(l)
      PROVE  LoopInv'
  <2>1. UNCHANGED <<loopClock, reportVars>>
    BY <1>2, Zenon DEF LoopStarts, TickStarts, OtherStep, TakeLease, SweepBatch
  <2>2. QED
    BY <1>2, <2>1, QuietKeeps, Zenon DEF reportVars
<1>3. ASSUME LoopInv, NEW l \in Loops, TickFails(l) \/ ReportsDone(l) PROVE LoopInv'
  <2>1. /\ UNCHANGED <<loopClock, schedules, firedKey, emitted>>
        /\ pass' = [pass EXCEPT ![l] = NoPass]
    BY <1>3, Zenon DEF TickFails, ReportsDone
  <2>2. QED
    BY <1>3, <2>1, QuietKeeps, Zenon
<1>4. LoopInv /\ LoopNext => LoopInv'
  BY <1>2, <1>3, ClockKeeps, ScheduleKeeps, ReadKeeps, FireKeeps, Zenon DEF LoopNext, LoopStep
<1>5. QED
  BY <1>1, <1>4, LoopInitially, PTL DEF LoopSpec

\* run_due_report_schedules emits a report at most once for a schedule and a
\* minute, with any number of replicas, exceptions and overlapping passes.
THEOREM OneReportPerMinute == LoopSpec => []ReportAtMostOnce
<1>1. LoopInv => ReportAtMostOnce
  <2> SUFFICES ASSUME LoopInv, NEW k \in Stamps PROVE emitted[k] <= 1
    BY Zenon DEF ReportAtMostOnce
  <2>1. emitted[k] \in {0, 1}
    BY Zenon DEF LoopInv, KeysOK
  <2>2. QED
    BY <2>1
<1>2. QED
  BY <1>1, LoopAlways, PTL

-----------------------------------------------------------------------------
(***************************************************************************)
(* ShareProbe                                                              *)
(***************************************************************************)

ProbeTyped ==
    /\ volume \in [Probers -> Volumes]
    /\ uptime \in [Probers -> Nat] /\ since \in [Probers -> Nat] /\ silence \in [Probers -> Nat]
    /\ files \subseteq Probers /\ ready \in [Probers -> BOOLEAN]
    /\ probeFails \in 0 .. MaxProbeFails

\* The time that rounds which raised may have cost
Lost(n) == n * ProbeInterval

\* A process that has just started passes no time before its first round.
\* Later its own file is as old as its last round that did not raise.
RoundsOK ==
    \A p \in Probers : uptime[p] # Down =>
        \/ uptime[p] = 1 /\ since[p] = ProbeInterval /\ silence[p] = LongSilence /\ p \notin files
        \/ since[p] <= ProbeInterval /\ silence[p] <= Lost(probeFails) + since[p]

\* If that round came after the grace, it has seen a peer's fresh file.
StatusOK ==
    \A p \in Probers : ready[p] /\ uptime[p] > ProbeGrace + silence[p] =>
        \E q \in Peers(p) : volume[q] = volume[p] /\ silence[q] <= ProbeTtl + silence[p]

ProbeInv == ProbeTyped /\ RoundsOK /\ StatusOK

\* Fewer rounds that raise cost less time.
LEMMA LostGrows ==
    ASSUME NEW n \in 0 .. MaxProbeFails
    PROVE  /\ Lost(n) \in Nat /\ Lost(n + 1) = Lost(n) + ProbeInterval
           /\ Lost(n) + ProbeInterval <= Rounds
           /\ Rounds \in Nat /\ Rounds >= ProbeInterval
<1>1. /\ n \in Nat /\ MaxProbeFails \in Nat /\ ProbeInterval \in Nat
      /\ MaxProbeFails - n \in Nat
  BY ProbeAssumption
<1>2. (n + 1) * ProbeInterval = n * ProbeInterval + ProbeInterval
  BY <1>1
<1>3. /\ (MaxProbeFails - n) * ProbeInterval \in Nat /\ n * ProbeInterval \in Nat
      /\ MaxProbeFails * ProbeInterval \in Nat
  BY <1>1
<1>4. MaxProbeFails * ProbeInterval = n * ProbeInterval + (MaxProbeFails - n) * ProbeInterval
  BY <1>1
<1>5. (1 + MaxProbeFails) * ProbeInterval = MaxProbeFails * ProbeInterval + ProbeInterval
  BY <1>1
<1> QED
  BY <1>1, <1>2, <1>3, <1>4, <1>5 DEF Lost, Rounds

\* Everybody is down at first.
LEMMA ProbeInitially == ProbeInit => ProbeInv
<1> SUFFICES ASSUME ProbeInit PROVE ProbeInv
  BY Zenon
<1>1. 0 \in 0 .. MaxProbeFails
  BY ProbeAssumption
<1>2. LongSilence \in Nat /\ LongSilence > 0
  BY <1>1, LostGrows, ProbeAssumption DEF LongSilence
<1> HIDE DEF LongSilence
<1> QED
  BY <1>1, <1>2, ProbeAssumption
  DEF ProbeInit, ProbeInv, ProbeTyped, RoundsOK, StatusOK, Down

\* A start has its first round before it.
LEMMA StartKeeps ==
    ASSUME ProbeInv, NEW p \in Probers, StartProber(p)
    PROVE  ProbeInv'
<1>1. LongSilence \in Nat /\ LongSilence > 0
  BY LostGrows, ProbeAssumption DEF LongSilence, ProbeInv, ProbeTyped
<1> HIDE DEF LongSilence
<1>2. ProbeTyped'
  BY ProbeAssumption, Zenon DEF StartProber, ProbeInv, ProbeTyped
<1>3. RoundsOK'
  BY ProbeAssumption, Zenon DEF StartProber, ProbeInv, ProbeTyped, RoundsOK
<1>4. StatusOK'
  <2> SUFFICES ASSUME NEW x \in Probers, ready'[x], uptime'[x] > ProbeGrace + silence[x]
               PROVE  \E q \in Peers(x) : volume[q] = volume[x] /\ silence[q] <= ProbeTtl + silence[x]
    BY Zenon DEF StatusOK, StartProber
  <2>1. x # p
    BY <1>1, ProbeAssumption DEF StartProber, ProbeInv, ProbeTyped
  <2>2. ready[x] /\ uptime[x] > ProbeGrace + silence[x]
    BY <2>1, Zenon DEF StartProber, ProbeInv, ProbeTyped
  <2> QED
    BY <2>2, Zenon DEF ProbeInv, StatusOK
<1> QED
  BY <1>2, <1>3, <1>4, Zenon DEF ProbeInv

\* A process that is down owes nothing.
LEMMA StopKeepsProbe ==
    ASSUME ProbeInv, NEW p \in Probers, StopProber(p)
    PROVE  ProbeInv'
<1>1. ProbeTyped'
  BY Zenon DEF StopProber, ProbeInv, ProbeTyped, Down
<1>2. \A x \in Probers : uptime'[x] = uptime[x] \/ uptime'[x] = 0
  BY Zenon DEF StopProber, ProbeInv, ProbeTyped, Down
<1>3. RoundsOK'
  BY <1>2, Zenon DEF StopProber, ProbeInv, RoundsOK, Down
<1>4. StatusOK'
  <2> SUFFICES ASSUME NEW x \in Probers, ready[x], uptime'[x] > ProbeGrace + silence[x]
               PROVE  \E q \in Peers(x) : volume[q] = volume[x] /\ silence[q] <= ProbeTtl + silence[x]
    BY Zenon DEF StatusOK, StopProber
  <2>1. uptime[x] > ProbeGrace + silence[x]
    BY <1>2, ProbeAssumption DEF ProbeInv, ProbeTyped
  <2> QED
    BY <2>1, Zenon DEF ProbeInv, StatusOK
<1> QED
  BY <1>1, <1>3, <1>4 DEF ProbeInv

\* Time makes every file older by the same tick, until the ages stop counting.
LEMMA TimeKeeps ==
    ASSUME ProbeInv, PassTime
    PROVE  ProbeInv'
<1>1. probeFails \in 0 .. MaxProbeFails
  BY Zenon DEF ProbeInv, ProbeTyped
<1>2. /\ Lost(probeFails) \in Nat /\ Lost(probeFails) + ProbeInterval <= Rounds
      /\ Rounds \in Nat /\ ProbeInterval \in Nat /\ ProbeGrace \in Nat /\ ProbeTtl \in Nat
  BY <1>1, LostGrows, ProbeAssumption, Zenon
<1>3. /\ volume' = volume /\ files' = files /\ ready' = ready /\ probeFails' = probeFails
      /\ \A p \in Probers : /\ uptime[p] # 0 => since[p] < ProbeInterval
                            /\ uptime'[p] = IF uptime[p] = 0 THEN 0 ELSE Older(uptime[p], LongUp)
                            /\ since'[p] = IF uptime[p] = 0 THEN 0 ELSE since[p] + 1
                            /\ silence'[p] = Older(silence[p], LongSilence)
  BY Zenon DEF PassTime, Down
<1>4. \A p \in Probers : uptime[p] \in Nat /\ since[p] \in Nat /\ silence[p] \in Nat
  BY Zenon DEF ProbeInv, ProbeTyped
<1>5. ProbeTyped'
  BY <1>3, <1>4 DEF ProbeInv, ProbeTyped, PassTime, Older, Down
<1>6. ASSUME NEW p \in Probers, uptime[p] # 0
      PROVE  /\ silence[p] <= Lost(probeFails) + since[p] /\ since[p] + 1 <= ProbeInterval
             /\ silence'[p] = silence[p] + 1
  <2>1. since[p] < ProbeInterval
    BY <1>3, <1>6, Zenon
  <2>2. silence[p] <= Lost(probeFails) + since[p]
    BY <1>2, <1>6, <2>1 DEF ProbeInv, RoundsOK, Down
  <2>3. silence[p] < LongSilence
    BY <1>2, <1>4, <2>1, <2>2 DEF LongSilence
  <2> QED
    BY <1>2, <1>3, <1>4, <2>1, <2>2, <2>3 DEF Older
<1>7. RoundsOK'
  <2> SUFFICES ASSUME NEW p \in Probers, uptime'[p] # 0
               PROVE  /\ since'[p] <= ProbeInterval
                      /\ silence'[p] <= Lost(probeFails) + since'[p]
    BY <1>3, Zenon DEF RoundsOK, Down
  <2>1. uptime[p] # 0 /\ since'[p] = since[p] + 1
    BY <1>3, Zenon
  <2> QED
    BY <1>2, <1>4, <1>6, <2>1
<1>8. StatusOK'
  <2> SUFFICES ASSUME NEW p \in Probers, ready[p], uptime'[p] > ProbeGrace + silence'[p]
               PROVE  \E q \in Peers(p) : /\ volume[q] = volume[p]
                                           /\ silence'[q] <= ProbeTtl + silence'[p]
    BY <1>3, Zenon DEF StatusOK
  <2>1. uptime'[p] \in Nat /\ silence'[p] \in Nat
    BY <1>5, Zenon DEF ProbeTyped
  <2>2. uptime[p] # 0
    BY <1>2, <1>3, <2>1
  <2>3. uptime'[p] <= uptime[p] + 1
    BY <1>3, <1>4, <2>2 DEF Older
  <2>4. uptime[p] > ProbeGrace + silence[p]
    BY <1>2, <1>4, <1>6, <2>1, <2>2, <2>3
  <2>5. PICK q \in Peers(p) : volume[q] = volume[p] /\ silence[q] <= ProbeTtl + silence[p]
    BY <2>4, Zenon DEF ProbeInv, StatusOK
  <2>6. q \in Probers
    BY Zenon DEF Peers, Probers
  <2>7. silence'[q] <= silence[q] + 1
    BY <1>3, <1>4, <2>6 DEF Older
  <2>8. silence'[q] \in Nat
    BY <1>5, <2>6, Zenon DEF ProbeTyped
  <2>9. silence'[q] <= ProbeTtl + silence'[p]
    BY <1>2, <1>4, <1>6, <2>2, <2>5, <2>6, <2>7, <2>8
  <2> QED
    BY <2>5, <2>9, Zenon
<1> QED
  BY <1>5, <1>7, <1>8, Zenon DEF ProbeInv

\* A round writes the own file and, after the grace, stays ready only on a
\* fresh one of the other role.
LEMMA RoundKeeps ==
    ASSUME ProbeInv, NEW p \in Probers, CheckShare(p)
    PROVE  ProbeInv'
<1>0. \A x \in Probers : uptime[x] \in Nat /\ since[x] \in Nat /\ silence[x] \in Nat
  BY Zenon DEF ProbeInv, ProbeTyped
<1>1. probeFails \in 0 .. MaxProbeFails /\ Lost(probeFails) \in Nat
  BY LostGrows, Zenon DEF ProbeInv, ProbeTyped
<1>2. /\ uptime' = uptime /\ volume' = volume /\ probeFails' = probeFails
      /\ since' = [since EXCEPT ![p] = 0] /\ silence' = [silence EXCEPT ![p] = 0]
      /\ ready' = [ready EXCEPT ![p] = Seen(p) # {} \/ uptime[p] <= ProbeGrace]
      /\ files' \subseteq files \cup {p}
  BY Zenon DEF CheckShare
<1>3. ProbeTyped'
  <2>1. (Seen(p) # {} \/ uptime[p] <= ProbeGrace) \in BOOLEAN
    BY Zenon
  <2>2. ready' \in [Probers -> BOOLEAN]
    BY <1>2, <2>1, Zenon DEF ProbeInv, ProbeTyped
  <2> QED
    BY <1>2, <2>2, Zenon DEF ProbeInv, ProbeTyped
<1>4. /\ since'[p] = 0 /\ silence'[p] = 0
      /\ \A x \in Probers : x # p => since'[x] = since[x] /\ silence'[x] = silence[x]
  BY <1>2, Zenon DEF ProbeInv, ProbeTyped
<1>5. RoundsOK'
  <2> SUFFICES ASSUME NEW x \in Probers, uptime[x] # Down
               PROVE  \/ /\ uptime[x] = 1 /\ since'[x] = ProbeInterval
                         /\ silence'[x] = LongSilence /\ x \notin files'
                      \/ since'[x] <= ProbeInterval /\ silence'[x] <= Lost(probeFails) + since'[x]
    BY <1>2, Zenon DEF RoundsOK
  <2>1. CASE x = p
    BY <1>1, <1>4, <2>1, ProbeAssumption
  <2>2. CASE x # p
    BY <1>2, <1>4, <2>2, Zenon DEF ProbeInv, RoundsOK
  <2> QED
    BY <2>1, <2>2, Zenon
<1>6. StatusOK'
  <2> SUFFICES ASSUME NEW x \in Probers, ready'[x], uptime[x] > ProbeGrace + silence'[x]
               PROVE  \E q \in Peers(x) : /\ volume[q] = volume[x]
                                           /\ silence'[q] <= ProbeTtl + silence'[x]
    BY <1>2, Zenon DEF StatusOK
  <2>1. \A q \in Peers(x) : q \in Probers /\ silence'[q] <= silence[q]
    BY <1>0, <1>4 DEF Peers, Probers
  <2>2. CASE x = p
    <3>1. ~(uptime[p] <= ProbeGrace)
      BY <1>0, <1>4, <2>2, ProbeAssumption
    <3>2. ready'[p] = (Seen(p) # {} \/ uptime[p] <= ProbeGrace)
      BY <1>2, Zenon DEF ProbeInv, ProbeTyped
    <3>3. Seen(p) # {}
      BY <2>2, <3>1, <3>2, Zenon
    <3>4. PICK q \in Peers(p) : volume[q] = volume[p] /\ silence[q] <= ProbeTtl
      BY <3>3, Zenon DEF Seen, Fresh
    <3>5. silence'[q] <= ProbeTtl + silence'[p]
      BY <1>0, <1>3, <1>4, <2>1, <2>2, <3>4, ProbeAssumption DEF ProbeTyped
    <3> QED
      BY <2>2, <3>4, <3>5, Zenon
  <2>3. CASE x # p
    <3>1. ready'[x] = ready[x]
      BY <1>2, <2>3, Zenon DEF ProbeInv, ProbeTyped
    <3>2. silence'[x] = silence[x]
      BY <1>4, <2>3, Zenon
    <3>3. PICK q \in Peers(x) : volume[q] = volume[x] /\ silence[q] <= ProbeTtl + silence[x]
      BY <3>1, <3>2, Zenon DEF ProbeInv, StatusOK
    <3>4. silence'[q] <= ProbeTtl + silence'[x]
      BY <1>0, <1>3, <2>1, <3>2, <3>3, ProbeAssumption DEF ProbeTyped
    <3> QED
      BY <3>3, <3>4, Zenon
  <2> QED
    BY <2>2, <2>3, Zenon
<1> QED
  BY <1>3, <1>5, <1>6 DEF ProbeInv

\* A round that raises costs at most one interval.
LEMMA FailedRoundKeeps ==
    ASSUME ProbeInv, NEW p \in Probers, CheckShareFails(p)
    PROVE  ProbeInv'
<1>0. \A x \in Probers : uptime[x] \in Nat /\ since[x] \in Nat /\ silence[x] \in Nat
  BY DEF ProbeInv, ProbeTyped
<1>1. /\ probeFails \in 0 .. MaxProbeFails /\ probeFails' = probeFails + 1
      /\ probeFails + 1 \in 0 .. MaxProbeFails
  BY ProbeAssumption DEF ProbeInv, ProbeTyped, CheckShareFails
<1>2. /\ Lost(probeFails) \in Nat /\ Lost(probeFails + 1) = Lost(probeFails) + ProbeInterval
      /\ ProbeInterval \in Nat
  BY <1>1, LostGrows, ProbeAssumption, Zenon
<1>3. /\ UNCHANGED <<volume, uptime, files, silence, ready>> /\ p \in files
      /\ since' = [since EXCEPT ![p] = 0]
  BY Zenon DEF CheckShareFails
<1>4. ProbeTyped'
  BY <1>1, <1>3, Zenon DEF ProbeInv, ProbeTyped
<1>5. since'[p] = 0 /\ \A x \in Probers : x # p => since'[x] = since[x]
  BY <1>3, Zenon DEF ProbeInv, ProbeTyped
<1>6. RoundsOK'
  <2> SUFFICES ASSUME NEW x \in Probers, uptime[x] # Down
               PROVE  \/ /\ uptime[x] = 1 /\ since'[x] = ProbeInterval
                         /\ silence[x] = LongSilence /\ x \notin files
                      \/ /\ since'[x] <= ProbeInterval
                         /\ silence[x] <= Lost(probeFails + 1) + since'[x]
    BY <1>1, <1>3, Zenon DEF RoundsOK
  <2>1. \/ /\ uptime[x] = 1 /\ since[x] = ProbeInterval
           /\ silence[x] = LongSilence /\ x \notin files
        \/ since[x] <= ProbeInterval /\ silence[x] <= Lost(probeFails) + since[x]
    BY Zenon DEF ProbeInv, RoundsOK
  <2>2. CASE x = p
    BY <1>0, <1>2, <1>3, <1>5, <2>1, <2>2
  <2>3. CASE x # p
    BY <1>0, <1>2, <1>5, <2>1, <2>3
  <2> QED
    BY <2>2, <2>3, Zenon
<1>7. StatusOK'
  BY <1>3, Zenon DEF ProbeInv, StatusOK
<1> QED
  BY <1>4, <1>6, <1>7 DEF ProbeInv

\* Once the grace and the longest run of rounds that raise are over, a process
\* says it is ready only if a process of the other role has lately written to
\* the same volume, for any lifetimes and numbers of processes.
THEOREM ReadyIsShared == ProbeSpec => []ReadyMeansShared
<1>1. ProbeInv => ReadyMeansShared
  <2> SUFFICES ASSUME ProbeInv, NEW p \in Probers, ready[p], uptime[p] > ProbeGrace + Rounds
               PROVE  \E q \in Peers(p) : /\ volume[q] = volume[p]
                                           /\ silence[q] <= ProbeTtl + Rounds
    BY Zenon DEF ReadyMeansShared
  <2>1. /\ Lost(probeFails) \in Nat /\ Lost(probeFails) + ProbeInterval <= Rounds
        /\ Rounds \in Nat /\ Rounds >= ProbeInterval
    BY LostGrows, Zenon DEF ProbeInv, ProbeTyped
  <2>2. uptime[p] \in Nat /\ since[p] \in Nat /\ silence[p] \in Nat
    BY Zenon DEF ProbeInv, ProbeTyped
  <2>3. silence[p] <= Rounds
    BY <2>1, <2>2, ProbeAssumption DEF ProbeInv, RoundsOK, Down
  <2>4. uptime[p] > ProbeGrace + silence[p]
    BY <2>1, <2>2, <2>3, ProbeAssumption
  <2>5. PICK q \in Peers(p) : volume[q] = volume[p] /\ silence[q] <= ProbeTtl + silence[p]
    BY <2>4, Zenon DEF ProbeInv, StatusOK
  <2>6. q \in Probers /\ silence[q] \in Nat
    BY Zenon DEF Peers, Probers, ProbeInv, ProbeTyped
  <2> QED
    BY <2>1, <2>2, <2>3, <2>5, <2>6, ProbeAssumption
<1>2. ProbeInv /\ UNCHANGED probeVars => ProbeInv'
  BY Zenon DEF ProbeInv, ProbeTyped, RoundsOK, StatusOK, probeVars
<1>3. ProbeInv /\ [ProbeNext]_probeVars => ProbeInv'
  BY <1>2, StartKeeps, StopKeepsProbe, TimeKeeps, RoundKeeps, FailedRoundKeeps, Zenon DEF ProbeNext
<1> QED
  BY <1>1, <1>3, ProbeInitially, PTL DEF ProbeSpec

-----------------------------------------------------------------------------
(***************************************************************************)
(* MarketplaceAnswer                                                       *)
(***************************************************************************)

ScanRow == [content : Contents \cup {"none"}, at : Nat,
            state : {"none", "queued", "running", "scored", "decided", "failed"},
            verdict : {"none", "PASS", "REVIEW", "BLOCK"}]

\* x is s, or a later scan of the same bytes.
Covers(rows, x, s) ==
    rows[x].content = rows[s].content /\ (x = s \/ rows[x].at > rows[s].at)

\* Every scan asked for is covered by one that is being read or was read, and
\* a safe answer is about a scan that has passed.
PollOK(q, rows) ==
    /\ q.asked \subseteq PolledScans /\ q.hashes \subseteq Contents
    /\ \A r \in q.reading : r.scan \in PolledScans
    /\ \A s \in q.asked : rows[s].content # "none"
    /\ q.pc = "scans" => \A s \in q.asked : rows[s].content \in q.hashes
    /\ q.pc = "verdicts" =>
          /\ \A s \in q.asked : \E x \in PolledScans :
                /\ Covers(rows, x, s)
                /\ (\E r \in q.reading : r.scan = x) \/ (\E a \in q.answers : a.scan = x)
          /\ \A a \in q.answers :
                a.isSafe => a.scan \in PolledScans /\ rows[a.scan].verdict = "PASS"
    /\ q.pc = "given" => \A s \in q.asked : (\A a \in q.answers : a.isSafe) =>
           \E x \in PolledScans : Covers(rows, x, s) /\ rows[x].verdict = "PASS"

AnswerInv ==
    /\ second \in Nat /\ scanRow \in [PolledScans -> ScanRow]
    /\ \A s \in PolledScans : scanRow[s].at <= second
    /\ poll.pc \in {"idle", "scans", "verdicts", "given"}
    /\ PollOK(poll, scanRow)

\* A row that is there keeps its bytes and its second, and a PASS is final.
RowsKept(rows, rows2) ==
    \A x \in PolledScans :
        /\ rows[x].content # "none" =>
               rows2[x].content = rows[x].content /\ rows2[x].at = rows[x].at
        /\ rows[x].verdict = "PASS" => rows2[x].verdict = "PASS"

\* The pipeline and the reviewers keep rows like that.
LEMMA RowStepKeeps ==
    ASSUME NEW r \in ScanRow, NEW r2 \in RowStep(r)
    PROVE  /\ r2 \in ScanRow /\ r2.content = r.content /\ r2.at = r.at
           /\ r.verdict = "PASS" => r2.verdict = "PASS"
<1> DEFINE V == {"none", "PASS", "REVIEW", "BLOCK"}
           S == {"none", "queued", "running", "scored", "decided", "failed"}
<1>1. \/ \E v \in S : r2 = [r EXCEPT !.state = v]
      \/ \E v \in V : r.verdict # "PASS" /\ r2 = [r EXCEPT !.verdict = v]
  BY DEF RowStep
<1> QED
  BY <1>1, Zenon DEF ScanRow

\* What the request has learnt stays true while the rows go on.
LEMMA PollStays ==
    ASSUME NEW rows, NEW rows2, RowsKept(rows, rows2), NEW q, PollOK(q, rows)
    PROVE  PollOK(q, rows2)
<1>1. \A s \in q.asked : s \in PolledScans /\ rows[s].content # "none"
  BY Zenon DEF PollOK
<1>2. \A s \in q.asked : rows2[s].content = rows[s].content /\ rows2[s].content # "none"
  BY <1>1, Zenon DEF RowsKept
<1>3. \A s \in q.asked : \A x \in PolledScans :
          Covers(rows, x, s) => Covers(rows2, x, s)
  BY <1>1, Zenon DEF RowsKept, Covers
<1>4. q.pc = "scans" => \A s \in q.asked : rows2[s].content \in q.hashes
  BY <1>2, Zenon DEF PollOK
<1>5. q.pc = "given" => \A s \in q.asked : (\A a \in q.answers : a.isSafe) =>
           \E x \in PolledScans : Covers(rows2, x, s) /\ rows2[x].verdict = "PASS"
  <2> SUFFICES ASSUME q.pc = "given", NEW s \in q.asked, \A a \in q.answers : a.isSafe
               PROVE  \E x \in PolledScans : Covers(rows2, x, s) /\ rows2[x].verdict = "PASS"
    BY Zenon
  <2>1. PICK x \in PolledScans : Covers(rows, x, s) /\ rows[x].verdict = "PASS"
    BY Zenon DEF PollOK
  <2> QED
    BY <1>3, <2>1, Zenon DEF RowsKept
<1>6. q.pc = "verdicts" =>
          /\ \A s \in q.asked : \E x \in PolledScans :
                /\ Covers(rows2, x, s)
                /\ (\E r \in q.reading : r.scan = x) \/ (\E a \in q.answers : a.scan = x)
          /\ \A a \in q.answers :
                a.isSafe => a.scan \in PolledScans /\ rows2[a.scan].verdict = "PASS"
  BY <1>3, Zenon DEF PollOK, RowsKept
<1>7. /\ q.asked \subseteq PolledScans /\ q.hashes \subseteq Contents
      /\ \A r \in q.reading : r.scan \in PolledScans
  BY Zenon DEF PollOK
<1> QED
  BY <1>2, <1>4, <1>5, <1>6, <1>7, Zenon DEF PollOK

\* A poll that has not begun and rows that nobody has submitted
LEMMA AnswerInitially == AnswerInit => AnswerInv
BY DEF AnswerInit, AnswerInv, PollOK, NoPoll, NoScanRow, ScanRow

\* Some number of a bounded set is the greatest.
LEMMA GreatestOf ==
    ASSUME NEW n \in Nat, NEW T, T \subseteq 0 .. n, T # {}
    PROVE  \E i \in T : \A j \in T : j <= i
<1> DEFINE D == {n - i : i \in T}
<1>1. D \subseteq Nat /\ D # {}
  <2>1. \A i \in T : i \in 0 .. n
    BY Zenon
  <2>2. \A i \in T : n - i \in Nat
    BY <2>1
  <2> QED
    BY <2>2, Zenon
<1>2. \E x \in D : \A y \in D : ~(<<y, x>> \in OpToRel(<, Nat))
  BY <1>1, NatLessThanWellFounded, WFMin, Zenon
<1>3. PICK x \in D : \A y \in D : ~(y < x)
  BY <1>1, <1>2, Zenon DEF OpToRel
<1>4. PICK i \in T : x = n - i
  BY Zenon
<1>5. ASSUME NEW j \in T PROVE j <= i
  <2>1. n - j \in D
    BY Zenon
  <2>2. ~(n - j < n - i) /\ j \in 0 .. n /\ i \in 0 .. n
    BY <1>3, <1>4, <2>1, Zenon
  <2> QED
    BY <2>2
<1> QED
  BY <1>5, Zenon

\* Steps of the other parts
LEMMA RowsMoveOn ==
    ASSUME AnswerInv,
           \/ NextSecond \/ \E c \in Contents : RegisterVersion(c)
           \/ \E s \in PolledScans : ScanMoves(s)
           \/ \E p \in ScanOf : SubmitOf(p[1], p[2])
    PROVE  AnswerInv'
<1> USE DEF AnswerInv
<1>1. CASE NextSecond \/ \E c \in Contents : RegisterVersion(c)
  <2>1. scanRow' = scanRow /\ poll' = poll /\ second' \in {second, second + 1}
    BY <1>1, Zenon DEF NextSecond, RegisterVersion
  <2>2. \A s \in PolledScans : scanRow[s].at \in Nat
    BY Zenon DEF ScanRow
  <2> QED
    BY <2>1, <2>2
<1>2. CASE \E s \in PolledScans : ScanMoves(s)
  <2>1. PICK s \in PolledScans : ScanMoves(s)
    BY <1>2, Zenon
  <2>2. PICK r \in RowStep(scanRow[s]) : scanRow' = [scanRow EXCEPT ![s] = r]
    BY <2>1, Zenon DEF ScanMoves
  <2>3. /\ r \in ScanRow /\ r.content = scanRow[s].content /\ r.at = scanRow[s].at
        /\ scanRow[s].verdict = "PASS" => r.verdict = "PASS"
    BY RowStepKeeps, Zenon
  <2>4. UNCHANGED <<second, poll>>
    BY <2>1, Zenon DEF ScanMoves
  <2>5. RowsKept(scanRow, scanRow') /\ \A x \in PolledScans : scanRow'[x].at = scanRow[x].at
    BY <2>2, <2>3, Zenon DEF RowsKept
  <2>6. scanRow' \in [PolledScans -> ScanRow]
    BY <2>2, <2>3, Zenon
  <2>7. PollOK(poll, scanRow')
    BY <2>5, PollStays, Zenon
  <2> QED
    BY <2>4, <2>5, <2>6, <2>7, Zenon
<1>3. CASE \E p \in ScanOf : SubmitOf(p[1], p[2])
  <2>1. PICK s \in PolledScans, c \in Contents : SubmitOf(s, c)
    BY <1>3, AnswerAssumption, Zenon
  <2> DEFINE r == [content |-> c, at |-> second, state |-> "queued", verdict |-> "none"]
  <2>2. /\ scanRow[s].content = "none" /\ scanRow[s].verdict = "none"
        /\ scanRow' = [scanRow EXCEPT ![s] = r] /\ UNCHANGED <<second, poll>>
    BY <2>1 DEF SubmitOf, NoScanRow
  <2>3. r \in ScanRow /\ r.at = second
    BY Zenon DEF ScanRow
  <2> HIDE DEF r
  <2>4. RowsKept(scanRow, scanRow')
    BY <2>2, Zenon DEF RowsKept
  <2>5. /\ scanRow' \in [PolledScans -> ScanRow]
        /\ \A x \in PolledScans : scanRow'[x].at = scanRow[x].at \/ scanRow'[x].at = second
    BY <2>2, <2>3, Zenon
  <2>6. PollOK(poll, scanRow')
    BY <2>4, PollStays, Zenon
  <2> QED
    BY <2>2, <2>5, <2>6
<1> QED
  BY <1>1, <1>2, <1>3, Zenon

\* The newest scans of the bytes of a scan cover it.
LEMMA NewestCovers ==
    ASSUME AnswerInv, NEW s \in PolledScans
    PROVE  \E x \in LatestScans(scanRow[s].content) :
               x \in PolledScans /\ Covers(scanRow, x, s)
<1> USE DEF AnswerInv
<1> DEFINE of == {x \in PolledScans : scanRow[x].content = scanRow[s].content}
           T == {scanRow[x].at : x \in of}
<1>1. \A x \in of : scanRow[x].at \in 0 .. second
  BY DEF ScanRow
<1>2. s \in of
  BY Zenon
<1>3. T \subseteq 0 .. second /\ T # {}
  BY <1>1, <1>2, Zenon
<1>4. PICK i \in T : \A j \in T : j <= i
  BY <1>3, GreatestOf, Zenon
<1>5. PICK x \in of : scanRow[x].at = i
  BY Zenon
<1>6. \A y \in of : scanRow[y].at <= scanRow[x].at
  BY <1>4, <1>5, Zenon
<1>7. x \in LatestScans(scanRow[s].content)
  BY <1>6, Zenon DEF LatestScans
<1>8. CASE scanRow[s].at = scanRow[x].at
  <2>1. s \in LatestScans(scanRow[s].content)
    BY <1>2, <1>6, <1>8, Zenon DEF LatestScans
  <2> QED
    BY <2>1, Zenon DEF Covers
<1>9. CASE scanRow[s].at # scanRow[x].at
  <2>1. scanRow[x].at > scanRow[s].at
    BY <1>1, <1>2, <1>6, <1>9
  <2> QED
    BY <1>7, <2>1, Zenon DEF Covers
<1> QED
  BY <1>8, <1>9, Zenon

\* The request's reads
LEMMA PollMovesOn ==
    ASSUME AnswerInv, ReadVersions \/ ReadScans \/ ReadVerdict \/ GiveAnswer
    PROVE  AnswerInv'
<1> USE DEF AnswerInv
<1> SUFFICES /\ UNCHANGED <<second, scanRow>>
             /\ poll'.pc \in {"idle", "scans", "verdicts", "given"} /\ PollOK(poll', scanRow)
  BY Zenon
<1>1. CASE ReadVersions
  <2> DEFINE asked == UNION {LatestScans(c) : c \in LatestVersions}
  <2>1. /\ poll'.pc = (IF LatestVersions = {} THEN "verdicts" ELSE "scans")
        /\ poll'.asked = asked /\ poll'.hashes = LatestVersions /\ poll'.reading = {}
        /\ UNCHANGED <<second, scanRow>>
    BY <1>1, Zenon DEF ReadVersions, NoPoll
  <2>2. LatestVersions \subseteq Contents
    BY Zenon DEF LatestVersions
  <2>3. \A s \in asked : /\ s \in PolledScans /\ scanRow[s].content \in LatestVersions
                          /\ scanRow[s].content # "none"
    BY <2>2, AnswerAssumption, Zenon DEF LatestScans
  <2>4. LatestVersions = {} => asked = {} /\ poll'.answers = {Project("none", "none", "none")}
    BY <1>1, Zenon DEF ReadVersions, NoPoll
  <2>5. ~Project("none", "none", "none").isSafe
    BY Zenon DEF Project, ClassifySafety
  <2> HIDE DEF asked
  <2> QED
    BY <2>1, <2>2, <2>3, <2>4, <2>5, Zenon DEF PollOK
<1>2. CASE ReadScans
  <2> DEFINE found == UNION {LatestScans(c) : c \in poll.hashes}
             reading == {[scan |-> s, state |-> scanRow[s].state] : s \in found}
  <2>1. /\ poll.pc = "scans" /\ poll'.pc = "verdicts" /\ poll'.asked = poll.asked
        /\ poll'.hashes = {} /\ poll'.reading = reading
        /\ \A a \in poll'.answers : a = Project("none", "none", "none")
        /\ UNCHANGED <<second, scanRow>>
    BY <1>2 DEF ReadScans
  <2>2. ~Project("none", "none", "none").isSafe
    BY Zenon DEF Project, ClassifySafety
  <2>3. ASSUME NEW x \in found
        PROVE  x \in PolledScans /\ \E r \in reading : r.scan = x
    <3>1. x \in PolledScans
      BY Zenon DEF LatestScans
    <3>2. [scan |-> x, state |-> scanRow[x].state] \in reading
      BY Zenon
    <3> HIDE DEF reading, found
    <3> QED
      BY <3>1, <3>2, Zenon
  <2>4. \A r \in reading : r.scan \in PolledScans
    BY DEF LatestScans
  <2>5. ASSUME NEW s \in poll.asked
        PROVE  \E x \in PolledScans : Covers(scanRow, x, s) /\ \E r \in reading : r.scan = x
    <3>1. s \in PolledScans /\ scanRow[s].content \in poll.hashes
      BY <2>1, Zenon DEF PollOK
    <3>2. PICK x \in LatestScans(scanRow[s].content) : Covers(scanRow, x, s)
      BY <3>1, NewestCovers, Zenon
    <3>3. x \in found
      BY <3>1, Zenon
    <3> QED
      BY <2>3, <3>2, <3>3, Zenon
  <2> HIDE DEF reading, found
  <2> QED
    BY <2>1, <2>2, <2>4, <2>5, Zenon DEF PollOK
<1>3. CASE ReadVerdict
  <2> DEFINE r == CHOOSE r \in poll.reading : TRUE
             a == Project(r.scan, r.state, scanRow[r.scan].verdict)
  <2>1. r \in poll.reading /\ r.scan \in PolledScans
    BY <1>3, Zenon DEF ReadVerdict, PollOK
  <2>2. /\ poll.pc = "verdicts" /\ poll'.pc = "verdicts" /\ poll'.asked = poll.asked
        /\ poll'.hashes = poll.hashes /\ poll'.reading = poll.reading \ {r}
        /\ poll'.answers = poll.answers \cup {a}
        /\ UNCHANGED <<second, scanRow>>
    BY <1>3 DEF ReadVerdict
  <2>3. a.scan = r.scan /\ (a.isSafe => scanRow[r.scan].verdict = "PASS")
    BY Zenon DEF Project, ClassifySafety
  <2> HIDE DEF r, a
  <2>4. \A b \in poll'.answers :
            b.isSafe => b.scan \in PolledScans /\ scanRow[b.scan].verdict = "PASS"
    BY <2>1, <2>2, <2>3, Zenon DEF PollOK
  <2>5. \A s \in poll'.asked : \E x \in PolledScans :
            /\ Covers(scanRow, x, s)
            /\ (\E y \in poll'.reading : y.scan = x) \/ (\E b \in poll'.answers : b.scan = x)
    <3> SUFFICES ASSUME NEW s \in poll.asked
                 PROVE  \E x \in PolledScans :
                           /\ Covers(scanRow, x, s)
                           /\ \/ \E y \in poll'.reading : y.scan = x
                              \/ \E b \in poll'.answers : b.scan = x
      BY <2>2, Zenon
    <3>1. PICK x \in PolledScans :
              /\ Covers(scanRow, x, s)
              /\ (\E y \in poll.reading : y.scan = x) \/ (\E b \in poll.answers : b.scan = x)
      BY <2>2, Zenon DEF PollOK
    <3> QED
      BY <2>2, <2>3, <3>1, Zenon
  <2> QED
    BY <2>2, <2>4, <2>5, Zenon DEF PollOK
<1>4. CASE GiveAnswer
  <2> DEFINE a == LeastSafe(poll.answers)
  <2>1. /\ poll.pc = "verdicts" /\ poll.reading = {} /\ poll'.pc = "given"
        /\ poll'.asked = poll.asked /\ poll'.hashes = poll.hashes /\ poll'.reading = {}
        /\ poll'.answers = {a} /\ UNCHANGED <<second, scanRow>>
    BY <1>4 DEF GiveAnswer
  <2>2. poll.answers # {} => \A b \in poll.answers : a.isSafe => b.isSafe
    <3>1. poll.answers # {} =>
              \E x \in poll.answers : \A b \in poll.answers : x.isSafe => b.isSafe
      BY Zenon
    <3> QED
      BY <3>1, Zenon DEF LeastSafe
  <2> HIDE DEF a
  <2>3. ASSUME NEW s \in poll.asked, a.isSafe
        PROVE  \E x \in PolledScans : Covers(scanRow, x, s) /\ scanRow[x].verdict = "PASS"
    <3>1. PICK x \in PolledScans : Covers(scanRow, x, s) /\ \E b \in poll.answers : b.scan = x
      BY <2>1, Zenon DEF PollOK
    <3>2. PICK b \in poll.answers : b.scan = x
      BY <3>1, Zenon
    <3>3. b.isSafe
      BY <2>2, <2>3, Zenon
    <3> QED
      BY <2>1, <3>1, <3>2, <3>3, Zenon DEF PollOK
  <2> QED
    BY <2>1, <2>3, Zenon DEF PollOK
<1> QED
  BY <1>1, <1>2, <1>3, <1>4, Zenon

\* A poll calls a skill safe only if every scan that was newest when it began
\* has passed, or a later scan of the same bytes has, for any number of
\* versions, scans and seconds and whatever moved between the three reads.
THEOREM SafeAnswersArePassed == AnswerSpec => []SafeMeansPassed
<1>1. AnswerInv => SafeMeansPassed
  BY Zenon DEF AnswerInv, PollOK, Covers, SafeMeansPassed
<1>2. AnswerInv /\ UNCHANGED answerVars => AnswerInv'
  BY Zenon DEF AnswerInv, answerVars
<1>3. AnswerInv /\ [AnswerNext]_answerVars => AnswerInv'
  BY <1>2, RowsMoveOn, PollMovesOn, Zenon DEF AnswerNext
<1> QED
  BY <1>1, <1>3, AnswerInitially, PTL DEF AnswerSpec
=============================================================================
