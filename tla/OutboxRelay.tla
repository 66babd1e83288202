---------------------------- MODULE OutboxRelay ----------------------------
(***************************************************************************)
(* The relay (integration_relay): replicas drain the gate's outbox to the  *)
(* marketplace and the SIEM, each row in a transaction of its own.         *)
(* A marketplace and a SIEM are configured; without one the code only logs *)
(* the row.                                                                *)
(***************************************************************************)
EXTENDS Naturals, FiniteSets

CONSTANTS Rows,         \* gate_outbox rows, by id
          VerdictRows,  \* those with event_type verdict_issued
          Poison,       \* those the marketplace refuses whenever it is asked
          Relays,       \* replicas that run drain_pending_outbox
          BatchSize,
          MaxOutages    \* bound: transient refusals and deaths

ASSUME RowsAssumption == /\ Rows \subseteq Nat \ {0} /\ VerdictRows \subseteq Rows
                         /\ Poison \subseteq VerdictRows /\ BatchSize \in Nat

VARIABLES outbox,       \* rows the gate has committed
          dispatched,   \* those with dispatched = TRUE
          received,     \* rows the marketplace has accepted
          siem,         \* rows the SIEM was told of
          relay,        \* local state of a drain
          outages

relayVars == <<outbox, dispatched, received, siem, relay, outages>>

Resting == [pc |-> "idle", row |-> 0, left |-> 0, failed |-> {}]

RelayInit ==
    /\ outbox = {} /\ dispatched = {} /\ received = {}
    /\ siem = {}
    /\ relay = [r \in Relays |-> Resting]
    /\ outages = 0

\* decide_and_record adds the row with the verdict, and submit_review_decision
\* one for the verdict it puts in the place of an earlier one.
Record(o) ==
    /\ o \notin outbox
    /\ outbox' = outbox \cup {o}
    /\ UNCHANGED <<dispatched, received, siem, relay, outages>>

Selectable(r) ==
    {o \in outbox \ (dispatched \cup relay[r].failed) : \A x \in Relays : relay[x].row # o}

StartDrain(r) ==
    /\ relay[r].pc = "idle" /\ outbox # dispatched
    /\ relay' = [relay EXCEPT ![r] = [Resting EXCEPT !.pc = "next", !.left = BatchSize]]
    /\ UNCHANGED <<outbox, dispatched, received, siem, outages>>

\* The next attempt: the lowest row nobody has locked; none ends the batch.
SelectRow(r) ==
    /\ relay[r].pc = "next"
    /\ IF relay[r].left = 0 \/ Selectable(r) = {}
       THEN relay' = [relay EXCEPT ![r] = Resting]
       ELSE \E o \in Selectable(r) :
               /\ \A x \in Selectable(r) : o <= x
               /\ relay' = [relay EXCEPT ![r].pc = IF o \in VerdictRows THEN "put" ELSE "mark",
                                         ![r].row = o, ![r].left = @ - 1]
    /\ UNCHANGED <<outbox, dispatched, received, siem, outages>>

WriteVerdict(r) ==
    /\ relay[r].pc = "put" /\ relay[r].row \notin Poison
    /\ received' = received \cup {relay[r].row}
    /\ relay' = [relay EXCEPT ![r].pc = "emit"]
    /\ UNCHANGED <<outbox, dispatched, siem, outages>>

\* Variant: a refusal is logged like the SIEM's.
WriteVerdictFailsSwallowed(r) ==
    /\ relay[r].pc = "put"
    /\ \/ relay[r].row \in Poison /\ outages' = outages
       \/ relay[r].row \notin Poison /\ outages < MaxOutages /\ outages' = outages + 1
    /\ relay' = [relay EXCEPT ![r].pc = "emit"]
    /\ UNCHANGED <<outbox, dispatched, received, siem>>

\* The row stays undispatched and out of this batch.
WriteVerdictFails(r) ==
    /\ relay[r].pc = "put"
    /\ \/ relay[r].row \in Poison /\ outages' = outages
       \/ relay[r].row \notin Poison /\ outages < MaxOutages /\ outages' = outages + 1
    /\ relay' = [relay EXCEPT ![r].pc = "next", ![r].failed = @ \cup {relay[r].row},
                              ![r].row = 0]
    /\ UNCHANGED <<outbox, dispatched, received, siem>>

\* notifier.emit, whose failure is swallowed.
Emit(r) ==
    /\ relay[r].pc = "emit"
    /\ \/ siem' = siem \cup {relay[r].row}
       \/ siem' = siem
    /\ relay' = [relay EXCEPT ![r].pc = "mark"]
    /\ UNCHANGED <<outbox, dispatched, received, outages>>

\* dispatched = True and the commit.
MarkDispatched(r) ==
    /\ relay[r].pc = "mark"
    /\ dispatched' = dispatched \cup {relay[r].row}
    /\ relay' = [relay EXCEPT ![r].pc = "next", ![r].row = 0]
    /\ UNCHANGED <<outbox, received, siem, outages>>

\* The process dies, or its commit is lost: the lock is gone, the PUT is not.
RelayDies(r) ==
    /\ relay[r].pc \in {"put", "emit", "mark"} /\ outages < MaxOutages
    /\ relay' = [relay EXCEPT ![r] = Resting]
    /\ outages' = outages + 1
    /\ UNCHANGED <<outbox, dispatched, received, siem>>

RelayStep(r) == \/ StartDrain(r) \/ SelectRow(r) \/ WriteVerdict(r) \/ WriteVerdictFails(r)
                \/ Emit(r) \/ MarkDispatched(r)

RelayNext == \/ \E o \in Rows : Record(o)
             \/ \E r \in Relays : RelayStep(r) \/ RelayDies(r)

RelaySpec == RelayInit /\ [][RelayNext]_relayVars

\* drain_pending_outbox runs in every worker tick.
RelayFairness == \A r \in Relays : WF_relayVars(RelayStep(r))

-----------------------------------------------------------------------------

\* Every verdict row reaches the marketplace and is marked then, whatever failed
\* or died in between: the rows the marketplace keeps refusing do not starve the
\* others, as long as they are fewer than a batch, and no row is marked that it
\* has not received (drain_one, drain_pending_outbox).
HealthyRowsGetDispatched ==
    outbox \ (Poison \cup dispatched) # {} ~>
        outbox \ Poison \subseteq dispatched /\ dispatched \cap VerdictRows \subseteq received
=============================================================================
