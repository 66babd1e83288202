----------------------------- MODULE WorkerLoop -----------------------------
(***************************************************************************)
(* The background loop of a replica (worker.py): worker_tick runs its      *)
(* steps one after the other, an exception ends the tick and not the loop. *)
(* Two of the steps are modelled here, the scheduled reports               *)
(* (reporting/service.py) and the retention of engine-health rows          *)
(* (orchestration/retention.py); the others are the actions of other       *)
(* modules.  One unit of the clock is a minute to the first and a day to   *)
(* the second.                                                             *)
(***************************************************************************)
EXTENDS Integers, Sequences, FiniteSets

CONSTANTS Loops,
          Background,      \* the steps before the reports, in order
          Calendar,        \* time -> [minute, dom, dow]
          Crons,           \* expressions an administrator may enter
          MinuteRange, DomRange, DowRange,   \* <<lo, hi>> of the fields
          FiredTtl,        \* life of a dedup key
          MaxPass,         \* bound: minutes a report pass takes
          RetentionEnvs,   \* values of the retention variable: {} or {days}
          OldDays,         \* days before the start that have health rows
          DefaultDays, MinimumDays, RetentionBatch, MaxBatches, LeaseTtl,
          MaxTickFaults, MaxSchedules   \* bounds

\* A pass is over before the key of a minute expires.
ASSUME DedupAssumption ==
    /\ FiredTtl \in Nat /\ MaxPass \in Nat /\ MaxPass < FiredTtl
    /\ DOMAIN Calendar \subseteq Nat

VARIABLES loopClock,
          step,            \* loop -> the step of its tick, 0 when asleep
          live,            \* loop -> the loop runs
          faultsLeft,      \* bound
          schedules,       \* id -> cron of a report_schedule row
          pass,            \* loop -> [stamp, todo] of its report pass
          firedKey,        \* <<schedule, stamp>> -> when the Redis key expires
          emitted,         \* <<schedule, stamp>> -> reports emitted (ghost)
          retentionEnv, lease,
          sweeping,        \* loop -> [cutoff, batches] of its retention pass
          pruned           \* days whose health row was deleted

loopVars == <<loopClock, step, live, faultsLeft, schedules, pass, firedKey, emitted,
              retentionEnv, lease, sweeping, pruned>>

\* worker_tick
TickSteps == Background \o <<"reports", "retention">>

AtStep(l, name) == live[l] /\ step[l] > 0 /\ TickSteps[step[l]] = name
NoPass == [stamp |-> -1, todo |-> {}]
NoSweepPass == [cutoff |-> -1, batches |-> 0]
Stamps == (1 .. MaxSchedules) \X DOMAIN Calendar

LoopInit ==
    /\ loopClock = 0 /\ step = [l \in Loops |-> 0] /\ live = [l \in Loops |-> FALSE]
    /\ faultsLeft = MaxTickFaults
    /\ schedules = <<>> /\ pass = [l \in Loops |-> NoPass]
    /\ firedKey = [k \in Stamps |-> -1] /\ emitted = [k \in Stamps |-> 0]
    /\ retentionEnv \in RetentionEnvs /\ lease = -1
    /\ sweeping = [l \in Loops |-> NoSweepPass] /\ pruned = {}

reportVars == <<schedules, pass, firedKey, emitted>>
retentionVars == <<retentionEnv, lease, sweeping, pruned>>

-----------------------------------------------------------------------------
\* Time passes; a report pass is over before MaxPass more minutes.
ClockTicks ==
    /\ loopClock + 1 \in DOMAIN Calendar
    /\ \A l \in Loops : pass[l] # NoPass => loopClock < pass[l].stamp + MaxPass
    /\ loopClock' = loopClock + 1
    /\ UNCHANGED <<step, live, faultsLeft, reportVars, retentionVars>>

\* run_worker_loop: the loop starts, and starts a tick when it has slept.
LoopStarts(l) ==
    /\ ~live[l] /\ step[l] = 0 /\ live' = [live EXCEPT ![l] = TRUE]
    /\ UNCHANGED <<loopClock, step, faultsLeft, reportVars, retentionVars>>

TickStarts(l) ==
    /\ live[l] /\ step[l] = 0
    /\ step' = [step EXCEPT ![l] = 1]
    /\ UNCHANGED <<loopClock, live, faultsLeft, reportVars, retentionVars>>

Advance(l) == step' = [step EXCEPT ![l] = IF @ = Len(TickSteps) THEN 0 ELSE @ + 1]

\* A step that another module models
OtherStep(l) ==
    /\ live[l] /\ step[l] \in DOMAIN Background
    /\ Advance(l)
    /\ UNCHANGED <<loopClock, live, faultsLeft, reportVars, retentionVars>>

\* A step raises: the rest of the tick is left out, and the loop sleeps.
TickFails(l) ==
    /\ live[l] /\ step[l] > 0 /\ faultsLeft > 0 /\ faultsLeft' = faultsLeft - 1
    /\ step' = [step EXCEPT ![l] = 0]
    /\ pass' = [pass EXCEPT ![l] = NoPass] /\ sweeping' = [sweeping EXCEPT ![l] = NoSweepPass]
    /\ UNCHANGED <<loopClock, live, schedules, firedKey, emitted, retentionEnv, lease, pruned>>

-----------------------------------------------------------------------------
\* _cron_field_matches: tokens are tried in order, and one that is out of
\* range is an error when it is reached.
Malformed(t, range) ==
    t.step < 1 \/ ~(range[1] <= t.start /\ t.start <= t.end /\ t.end <= range[2])

FieldMatches(f, value, range) ==
    LET Covers(t) == t.start <= value /\ value <= t.end /\ (value - t.start) % t.step = 0
        hits == {i \in DOMAIN f : Malformed(f[i], range) \/ Covers(f[i])}
        first == CHOOSE i \in hits : \A j \in hits : i <= j
    IN  IF hits = {} THEN "no" ELSE IF Malformed(f[first], range) THEN "invalid" ELSE "yes"

AnyOf(range) == <<[start |-> range[1], end |-> range[2], step |-> 1]>>

\* validate_cron
ValidCron(c) ==
    /\ FieldMatches(c.minute, MinuteRange[1], MinuteRange) # "invalid"
    /\ FieldMatches(c.dom, DomRange[1], DomRange) # "invalid"
    /\ FieldMatches(c.dow, DowRange[1], DowRange) # "invalid"

\* cron_matches, of minute, day of month and day of week; Sunday is 0 and 7.
CronMatches(c, at) ==
    LET dom == FieldMatches(c.dom, at.dom, DomRange)
        dow == FieldMatches(c.dow, at.dow, DowRange)
        sunday == IF at.dow = 0 THEN FieldMatches(c.dow, 7, DowRange) ELSE "no"
        either == c.dom # AnyOf(DomRange) /\ c.dow # AnyOf(DowRange)
        dowOk == dow = "yes" \/ sunday = "yes"
    IN  /\ ValidCron(c) /\ "invalid" \notin {dom, dow}
        /\ FieldMatches(c.minute, at.minute, MinuteRange) = "yes"
        /\ IF either THEN dom = "yes" \/ dowOk ELSE dom = "yes" /\ dowOk

\* schedule_report and its endpoint
ScheduleReport(c) ==
    /\ Len(schedules) < MaxSchedules /\ ValidCron(c)
    /\ schedules' = Append(schedules, c)
    /\ UNCHANGED <<loopClock, step, live, faultsLeft, pass, firedKey, emitted, retentionVars>>

\* run_due_report_schedules: the time and the rows are read once.
ReportsRead(l) ==
    /\ AtStep(l, "reports") /\ pass[l] = NoPass
    /\ pass' = [pass EXCEPT ![l] = [stamp |-> loopClock,
                   todo |-> {s \in DOMAIN schedules : CronMatches(schedules[s], Calendar[loopClock])}]]
    /\ UNCHANGED <<loopClock, step, live, faultsLeft, schedules, firedKey, emitted, retentionVars>>

\* The key expires a minute early.
ClaimShortLived(l, s) ==
    LET k == <<s, pass[l].stamp>>
    IN  [free |-> firedKey[k] <= loopClock, expires |-> loopClock + FiredTtl - 1]

\* SET NX of the dedup key of a schedule and a minute
ClaimMinute(l, s) ==
    LET k == <<s, pass[l].stamp>>
    IN  [free |-> firedKey[k] <= loopClock, expires |-> loopClock + FiredTtl]

\* ... one schedule: claimed by one replica, generated, and emitted unless the
\* generation fails.
ReportFires(l) ==
    /\ AtStep(l, "reports") /\ pass[l] # NoPass /\ pass[l].todo # {}
    /\ \E s \in pass[l].todo, generated \in BOOLEAN :
           LET k == <<s, pass[l].stamp>>
               claim == ClaimMinute(l, s)
           IN  /\ pass' = [pass EXCEPT ![l].todo = @ \ {s}]
               /\ firedKey' = IF claim.free THEN [firedKey EXCEPT ![k] = claim.expires]
                              ELSE firedKey
               /\ emitted' = IF claim.free /\ generated THEN [emitted EXCEPT ![k] = @ + 1]
                             ELSE emitted
    /\ UNCHANGED <<loopClock, step, live, faultsLeft, schedules, retentionVars>>

ReportsDone(l) ==
    /\ AtStep(l, "reports") /\ pass[l] # NoPass /\ pass[l].todo = {}
    /\ pass' = [pass EXCEPT ![l] = NoPass] /\ Advance(l)
    /\ UNCHANGED <<loopClock, live, faultsLeft, schedules, firedKey, emitted, retentionVars>>

\* retention_days
RetentionDays ==
    IF \E d \in retentionEnv : d >= MinimumDays THEN CHOOSE d \in retentionEnv : TRUE
    ELSE DefaultDays

\* retention_cutoff, retention_delete_stmt: one row a day stands for the rows
\* written that day.
Cutoff == loopClock - RetentionDays
Expired(cutoff) == {d \in (-OldDays) .. loopClock : d < cutoff} \ pruned

\* run_engine_health_retention: the lease, or nothing to do this pass
TakeLease(l) ==
    /\ AtStep(l, "retention") /\ sweeping[l] = NoSweepPass
    /\ IF lease > loopClock
       THEN Advance(l) /\ UNCHANGED <<lease, sweeping>>
       ELSE /\ lease' = loopClock + LeaseTtl /\ UNCHANGED step
            /\ sweeping' = [sweeping EXCEPT ![l] = [cutoff |-> Cutoff, batches |-> 1]]
    /\ UNCHANGED <<loopClock, live, faultsLeft, reportVars, retentionEnv, pruned>>

\* sweep_engine_health_retention: one statement; the sweep ends with a batch
\* that is not full, at its budget, or on a database error.
SweepBatch(l) ==
    LET old == Expired(sweeping[l].cutoff)
    IN  /\ AtStep(l, "retention") /\ sweeping[l] # NoSweepPass
        /\ \E gone \in SUBSET old, fails \in BOOLEAN :
               /\ IF fails THEN gone = {} /\ faultsLeft > 0
                  ELSE Cardinality(gone) = IF Cardinality(old) < RetentionBatch
                                           THEN Cardinality(old) ELSE RetentionBatch
               /\ faultsLeft' = IF fails THEN faultsLeft - 1 ELSE faultsLeft
               /\ pruned' = pruned \cup gone
               /\ IF fails \/ Cardinality(gone) < RetentionBatch \/ sweeping[l].batches = MaxBatches
                  THEN sweeping' = [sweeping EXCEPT ![l] = NoSweepPass] /\ Advance(l)
                  ELSE sweeping' = [sweeping EXCEPT ![l].batches = @ + 1] /\ UNCHANGED step
        /\ UNCHANGED <<loopClock, live, reportVars, retentionEnv, lease>>

LoopStep(l) ==
    \/ TickStarts(l) \/ OtherStep(l) \/ ReportsRead(l) \/ ReportFires(l) \/ ReportsDone(l)
    \/ TakeLease(l) \/ SweepBatch(l)

LoopNext ==
    \/ ClockTicks
    \/ \E c \in Crons : ScheduleReport(c)
    \/ \E l \in Loops : LoopStarts(l) \/ LoopStep(l) \/ TickFails(l)

LoopSpec == LoopInit /\ [][LoopNext]_loopVars

-----------------------------------------------------------------------------
\* A scheduled report is emitted at most once for a minute, however the ticks
\* of the replicas overlap, as long as a pass takes less than the life of the
\* dedup key.
ReportAtMostOnce == \A k \in Stamps : emitted[k] <= 1
=============================================================================
