----------------------------- MODULE AuditChain -----------------------------
(***************************************************************************)
(* The audit ledger (audit/service.py): replicas drain audit intents into  *)
(* a hash chain, each intent in a transaction of its own.                  *)
(*                                                                         *)
(* The transaction locks an intent (SKIP LOCKED), then the chain's tail    *)
(* (ORDER BY seq DESC LIMIT 1 FOR UPDATE), looks whether a newer entry has *)
(* been committed, inserts its entry and commits.  A transaction that      *)
(* waited for the tail's lock is handed the row it waited for, which by    *)
(* then need not be the tail: the module comment of audit/service.py.      *)
(***************************************************************************)
EXTENDS Naturals, Sequences

CONSTANTS Intents,      \* audit_intent rows, by id
          Drainers,     \* replicas that run drain_pending_intents
          MaxAborts     \* bound: deadlocks, lock timeouts and deaths

ASSUME IntentsAssumption == Intents \subseteq Nat \ {0}
ASSUME AbortsAssumption == MaxAborts \in Nat

VARIABLES written,      \* intents some business transaction has committed
          chained,      \* intents with chained = TRUE
          entries,      \* audit_entry, committed rows in seq order
          drainer,      \* local state of a drain transaction
          aborts

auditVars == <<written, chained, entries, drainer, aborts>>

Genesis == << >>

\* compute_entry_hash: a hash stands for everything that went into it.
Hashes == Seq(Intents \cup {0})
HashOf(prev, intent) == Append(prev, intent)

EntryOf(prev, intent) == [prev |-> prev, intent |-> intent, hash |-> HashOf(prev, intent)]

\* The row the initial migration inserts.
GenesisEntry == EntryOf(Genesis, 0)

AtRest == [pc |-> "idle", intent |-> 0, row |-> 0]

Holds(d, row) == drainer[d].pc \in {"locked", "checked", "inserted"} /\ drainer[d].row = row

\* Somebody's uncommitted entry: it is found by a locking read, and locked.
Inserting == \E d \in Drainers : drainer[d].pc = "inserted"

AuditInit ==
    /\ written = {} /\ chained = {}
    /\ entries = << GenesisEntry >>
    /\ drainer = [d \in Drainers |-> AtRest]
    /\ aborts = 0

WriteIntent(i) ==
    /\ i \notin written
    /\ written' = written \cup {i}
    /\ UNCHANGED <<chained, entries, drainer, aborts>>

Claimable(i) == /\ i \in written \ chained
                /\ \A d \in Drainers : drainer[d].intent # i

\* The lowest pending intent that nobody has locked.
ClaimIntent(d, i) ==
    /\ drainer[d].pc = "idle"
    /\ Claimable(i) /\ \A j \in Intents : Claimable(j) => i <= j
    /\ drainer' = [drainer EXCEPT ![d] = [pc |-> "claimed", intent |-> i, row |-> 0]]
    /\ UNCHANGED <<written, chained, entries, aborts>>

\* The locking read meets the newest row, committed or not.
ReachTail(d) ==
    /\ drainer[d].pc = "claimed"
    /\ drainer' = [drainer EXCEPT ![d].pc = "waiting",
                      ![d].row = IF Inserting THEN Len(entries) + 1 ELSE Len(entries)]
    /\ UNCHANGED <<written, chained, entries, aborts>>

\* It is granted the row it waited for; a row that was rolled back is gone.
LockTail(d) ==
    /\ drainer[d].pc = "waiting"
    /\ \/ /\ drainer[d].row <= Len(entries)
          /\ \A x \in Drainers : ~Holds(x, drainer[d].row)
          /\ drainer' = [drainer EXCEPT ![d].pc = "locked"]
       \/ /\ drainer[d].row > Len(entries) /\ ~Inserting
          /\ drainer' = [drainer EXCEPT ![d].row = Len(entries)]
    /\ UNCHANGED <<written, chained, entries, aborts>>

\* Variant: trusts the lock.
CheckNewerSkipped(d) ==
    /\ drainer[d].pc = "locked"
    /\ drainer' = [drainer EXCEPT ![d].pc = "checked"]
    /\ UNCHANGED <<written, chained, entries, aborts>>

\* Variant: a stale tail is looked at again under the same lock.
CheckNewerInPlace(d) ==
    /\ drainer[d].pc = "locked" /\ Len(entries) <= drainer[d].row
    /\ drainer' = [drainer EXCEPT ![d].pc = "checked"]
    /\ UNCHANGED <<written, chained, entries, aborts>>

\* _StaleTailDetected rolls back, and the loop tries again.
CheckNewer(d) ==
    /\ drainer[d].pc = "locked"
    /\ drainer' = [drainer EXCEPT ![d] =
                      IF Len(entries) > @.row THEN AtRest ELSE [@ EXCEPT !.pc = "checked"]]
    /\ UNCHANGED <<written, chained, entries, aborts>>

InsertEntry(d) ==
    /\ drainer[d].pc = "checked"
    /\ drainer' = [drainer EXCEPT ![d].pc = "inserted"]
    /\ UNCHANGED <<written, chained, entries, aborts>>

CommitEntry(d) ==
    /\ drainer[d].pc = "inserted"
    /\ entries' = Append(entries, EntryOf(entries[drainer[d].row].hash, drainer[d].intent))
    /\ chained' = chained \cup {drainer[d].intent}
    /\ drainer' = [drainer EXCEPT ![d] = AtRest]
    /\ UNCHANGED <<written, aborts>>

\* A deadlock, a lock wait timeout or the death of the process.
AbortDrain(d) ==
    /\ drainer[d].pc # "idle" /\ aborts < MaxAborts
    /\ drainer' = [drainer EXCEPT ![d] = AtRest]
    /\ aborts' = aborts + 1
    /\ UNCHANGED <<written, chained, entries>>

DrainStep(d) == \/ \E i \in Intents : ClaimIntent(d, i)
                \/ ReachTail(d) \/ LockTail(d) \/ CheckNewer(d)
                \/ InsertEntry(d) \/ CommitEntry(d)

AuditNext == \/ \E i \in Intents : WriteIntent(i)
             \/ \E d \in Drainers : DrainStep(d) \/ AbortDrain(d)

AuditSpec == AuditInit /\ [][AuditNext]_auditVars

\* drain_pending_intents runs in every worker tick.
AuditFairness == \A d \in Drainers : WF_auditVars(DrainStep(d))

-----------------------------------------------------------------------------

\* The tables and the drainers' local state are well formed.
AuditTypeOK ==
    /\ written \subseteq Intents /\ chained \subseteq written
    /\ entries \in Seq([prev : Hashes, intent : Intents \cup {0}, hash : Hashes])
    /\ drainer \in [Drainers -> [pc : {"idle", "claimed", "waiting", "locked", "checked",
                                       "inserted"},
                                 intent : Intents \cup {0}, row : Nat]]
    /\ aborts \in 0..MaxAborts

\* verify_chain: what GET /v1/audit computes over the whole ledger.
VerifyChain ==
    /\ entries # << >>
    /\ entries[1].prev = Genesis
    /\ \A n \in 2..Len(entries) :
          /\ entries[n].prev = entries[n - 1].hash
          /\ entries[n].hash = HashOf(entries[n].prev, entries[n].intent)

\* However the drainers interleave, wait for locks, retry and die, the ledger
\* verifies: no two entries continue the same predecessor (append_one_intent).
ChainIsIntact == VerifyChain

\* An intent is in the ledger once if it is marked chained and not at all
\* otherwise, whatever was retried (_drain_one_with_retry).
IntentChainedOnce ==
    /\ \A n \in 2..Len(entries) : entries[n].intent \in chained
    /\ \A i \in chained : \E n \in 2..Len(entries) :
          /\ entries[n].intent = i
          /\ \A k \in 2..Len(entries) : entries[k].intent = i => k = n

\* Every intent is chained in the end: no drainer waits for another for ever
\* and a stale tail is always retried.
IntentsGetChained == written # chained ~> written = chained
=============================================================================
