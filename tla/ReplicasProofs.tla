-------------------------- MODULE ReplicasProofs ---------------------------
(***************************************************************************)
(* Processes that share tables and counters: the ledger of AuditChain      *)
(* stays a chain, the four-eyes rule of PolicyWorkflow holds, the rows of  *)
(* OutboxRelay are sent before they are marked and the counters of         *)
(* LoginLockout are bounded, for any numbers of replicas, rows, people,    *)
(* callers and failures.                                                   *)
(***************************************************************************)
EXTENDS AuditChain, PolicyWorkflow, OutboxRelay, LoginLockout, FiniteSetTheorems,
        WellFoundedInduction, TLAPS

(* AuditChain: drainers of the intents *)

Holding == {"locked", "checked", "inserted"}

\* What a drainer's program point says about the row and the intent it has:
\* a lock is on a committed row and exclusive, and from the check for newer
\* entries to the commit that row is the tail.
LocksOK ==
    /\ \A d \in Drainers : drainer[d].pc \in Holding =>
          drainer[d].row \in 1..Len(entries)
    /\ \A d, x \in Drainers :
          drainer[d].pc \in Holding /\ drainer[x].pc \in Holding
             /\ drainer[d].row = drainer[x].row => d = x
    /\ \A d \in Drainers : drainer[d].pc \in {"checked", "inserted"} =>
          drainer[d].row = Len(entries)

\* The row a waiting drainer will be granted exists or is being inserted.
WaitsOK ==
    \A d \in Drainers : drainer[d].pc = "waiting" =>
        drainer[d].row \in 1..(Len(entries) + 1)

\* An intent in hand is pending and in one hand only.
ClaimsOK ==
    /\ \A d \in Drainers : drainer[d].pc # "idle" => drainer[d].intent \in written \ chained
    /\ \A d \in Drainers : drainer[d].pc = "idle" => drainer[d].intent = 0
    /\ \A d, x \in Drainers :
          drainer[d].pc # "idle" /\ drainer[d].intent = drainer[x].intent => d = x

ChainInv == AuditTypeOK /\ LocksOK /\ WaitsOK /\ ClaimsOK /\ ChainIsIntact /\ IntentChainedOnce

\* An element of a sequence is of the sequence's type.
LEMMA ElementIn ==
    ASSUME NEW T, NEW s \in Seq(T), NEW n \in 1 .. Len(s)
    PROVE  s[n] \in T
  OBVIOUS

\* Entry records are of their type.
LEMMA EntryType ==
    ASSUME NEW prev \in Hashes, NEW i \in Intents \cup {0}
    PROVE  EntryOf(prev, i) \in [prev : Hashes, intent : Intents \cup {0}, hash : Hashes]
<1>1. HashOf(prev, i) \in Hashes
  BY DEF HashOf, Hashes
<1>2. QED
  BY <1>1, Zenon DEF EntryOf

\* The initial ledger is the genesis row alone (the initial migration).
LEMMA ChainInit == AuditInit => ChainInv
<1> SUFFICES ASSUME AuditInit PROVE ChainInv
  BY Zenon
<1>1. Genesis \in Hashes
  BY DEF Genesis, Hashes
<1>2. entries \in Seq([prev : Hashes, intent : Intents \cup {0}, hash : Hashes])
  BY <1>1, EntryType DEF AuditInit, GenesisEntry
<1>3. AuditTypeOK
  BY <1>2, AbortsAssumption DEF AuditInit, AuditTypeOK, AtRest
<1>4. LocksOK /\ WaitsOK /\ ClaimsOK
  BY Zenon DEF AuditInit, LocksOK, WaitsOK, ClaimsOK, AtRest, Holding
<1>5. Len(entries) = 1 /\ entries[1].prev = Genesis /\ entries # << >>
  BY Zenon DEF AuditInit, GenesisEntry, EntryOf
<1>6. ChainIsIntact
  BY <1>5 DEF ChainIsIntact, VerifyChain
<1>7. IntentChainedOnce
  BY <1>5 DEF AuditInit, IntentChainedOnce
<1>8. QED
  BY <1>3, <1>4, <1>6, <1>7, Zenon DEF ChainInv

\* Steps that leave the tables alone keep what is said about the tables.
LEMMA TablesStay ==
    ASSUME ChainIsIntact, IntentChainedOnce, UNCHANGED <<entries, chained>>
    PROVE  ChainIsIntact' /\ IntentChainedOnce'
BY DEF ChainIsIntact, VerifyChain, IntentChainedOnce

\* A commit appends to the tail, which is the row the transaction has locked.
LEMMA CommitKeeps ==
    ASSUME ChainInv, NEW d \in Drainers, CommitEntry(d)
    PROVE  ChainInv'
<1> USE DEF ChainInv
<1> DEFINE e == EntryOf(entries[drainer[d].row].hash, drainer[d].intent)
           T == [prev : Hashes, intent : Intents \cup {0}, hash : Hashes]
           n == Len(entries)
<1>1. /\ drainer[d].pc = "inserted" /\ drainer[d].row = n
      /\ drainer[d].intent \in written \ chained
  BY Zenon DEF CommitEntry, LocksOK, ClaimsOK
<1>2. entries \in Seq(T) /\ n \in Nat /\ n >= 1 /\ entries[n] \in T
  <2>1. entries \in Seq(T) /\ n \in Nat
    BY DEF AuditTypeOK
  <2>2. n >= 1
    BY <1>1, <2>1 DEF LocksOK, Holding
  <2>3. n \in 1..Len(entries)
    BY <2>1, <2>2
  <2>4. entries[n] \in T
    BY <2>1, <2>3, ElementIn, Zenon
  <2>5. QED
    BY <2>1, <2>2, <2>4, Zenon
<1>3. e \in T
  BY <1>1, <1>2, EntryType, Zenon DEF AuditTypeOK
<1>4. /\ entries' = Append(entries, e) /\ entries' \in Seq(T) /\ Len(entries') = n + 1
      /\ entries'[n + 1] = e /\ \A k \in 1..n : entries'[k] = entries[k]
  <2>1. entries' = Append(entries, e)
    BY Zenon DEF CommitEntry
  <2>2. QED
    BY <2>1, <1>2, <1>3
<1>5. e.prev = entries[n].hash /\ e.hash = HashOf(e.prev, e.intent) /\ e.intent = drainer[d].intent
  BY <1>1, Zenon DEF EntryOf
<1>6. ChainIsIntact'
  <2>1. entries' # << >> /\ entries'[1].prev = Genesis
    BY <1>2, <1>4 DEF ChainIsIntact, VerifyChain
  <2>2. ASSUME NEW k \in 2..(n + 1)
        PROVE  /\ entries'[k].prev = entries'[k - 1].hash
               /\ entries'[k].hash = HashOf(entries'[k].prev, entries'[k].intent)
    <3>1. CASE k = n + 1
      BY <3>1, <1>2, <1>4, <1>5
    <3>2. CASE k \in 2..n
      <4>1. k - 1 \in 1..n /\ k \in 1..n
        BY <3>2, <1>2
      <4>2. entries'[k] = entries[k] /\ entries'[k - 1] = entries[k - 1]
        BY <4>1, <1>4, Zenon
      <4>3. QED
        BY <3>2, <4>2, Zenon DEF ChainIsIntact, VerifyChain
    <3>3. QED
      BY <3>1, <3>2, <1>2
  <2>3. QED
    BY <2>1, <2>2, <1>4, Zenon DEF ChainIsIntact, VerifyChain
<1>7. IntentChainedOnce'
  <2>1. chained' = chained \cup {drainer[d].intent}
    BY Zenon DEF CommitEntry
  <2>2. ASSUME NEW k \in 2..(n + 1) PROVE entries'[k].intent \in chained'
    <3>1. CASE k = n + 1
      BY <3>1, <2>1, <1>4, <1>5, Zenon
    <3>2. CASE k \in 2..n
      BY <3>2, <2>1, <1>2, <1>4 DEF IntentChainedOnce
    <3>3. QED
      BY <3>1, <3>2, <1>2
  <2>3. ASSUME NEW i \in chained'
        PROVE  \E m \in 2..(n + 1) : /\ entries'[m].intent = i
                                     /\ \A k \in 2..(n + 1) : entries'[k].intent = i => k = m
    <3>1. CASE i = drainer[d].intent
      <4>1. \A k \in 2..n : entries'[k].intent # i
        BY <3>1, <1>1, <1>2, <1>4 DEF IntentChainedOnce
      <4>2. n + 1 \in 2..(n + 1) /\ entries'[n + 1].intent = i
        BY <3>1, <1>2, <1>4, <1>5
      <4>3. \A k \in 2..(n + 1) : entries'[k].intent = i => k = n + 1
        BY <4>1, <1>2
      <4>4. QED
        BY <4>2, <4>3, Zenon
    <3>2. CASE i \in chained
      <4>1. PICK m \in 2..n : /\ entries[m].intent = i
                              /\ \A k \in 2..n : entries[k].intent = i => k = m
        BY <3>2, Zenon DEF IntentChainedOnce
      <4>2. m \in 2..(n + 1) /\ entries'[m].intent = i
        BY <4>1, <1>2, <1>4
      <4>3. entries'[n + 1].intent # i
        BY <3>2, <1>1, <1>4, <1>5, Zenon
      <4>4. ASSUME NEW k \in 2..(n + 1), entries'[k].intent = i PROVE k = m
        <5>1. k # n + 1
          BY <4>3, <4>4, Zenon
        <5>2. k \in 2..n /\ k \in 1..n
          BY <5>1, <1>2
        <5>3. entries[k].intent = i
          BY <5>2, <4>4, <1>4, Zenon
        <5>4. QED
          BY <5>2, <5>3, <4>1, Zenon
      <4>5. QED
        BY <4>2, <4>4, Zenon
    <3>3. QED
      BY <2>1, <3>1, <3>2, Zenon
  <2>4. Len(entries') = n + 1
    BY <1>4, Zenon
  <2> HIDE DEF n, e
  <2>5. QED
    BY <2>2, <2>3, <2>4, Zenon DEF IntentChainedOnce
<1>8. drainer' = [drainer EXCEPT ![d] = AtRest] /\ written' = written /\ aborts' = aborts
  BY Zenon DEF CommitEntry
<1>9. AuditTypeOK'
  BY <1>1, <1>4, <1>8 DEF AuditTypeOK, CommitEntry, AtRest
<1>10. \A x \in Drainers \ {d} : drainer'[x] = drainer[x]
  BY <1>8, Zenon DEF AuditTypeOK
<1>11. drainer'[d].pc = "idle" /\ drainer'[d].intent = 0
  BY <1>8, Zenon DEF AuditTypeOK, AtRest
<1>12. \A x \in Drainers \ {d} : drainer[x].pc \notin {"checked", "inserted"}
  BY <1>1, Zenon DEF LocksOK, Holding
<1>13. LocksOK' /\ WaitsOK'
  <2>1. Len(entries') = n + 1 /\ n \in Nat
    BY <1>2, <1>4, Zenon
  <2>2. \A x \in Drainers : drainer'[x].pc # "idle" => x # d /\ drainer'[x] = drainer[x]
    BY <1>10, <1>11, Zenon
  <2>3. \A x \in Drainers : drainer'[x].pc \in Holding =>
            /\ drainer[x].pc \in Holding /\ drainer'[x].row = drainer[x].row
            /\ drainer[x].row \in 1..n /\ drainer'[x].pc = "locked"
    BY <2>2, <1>12, Zenon DEF Holding, LocksOK
  <2>4. \A x \in Drainers : drainer'[x].pc \in Holding => drainer'[x].row \in 1..Len(entries')
    BY <2>1, <2>3
  <2>5. LocksOK'
    BY <2>3, <2>4 DEF LocksOK, Holding
  <2>6. WaitsOK'
    BY <2>1, <2>2 DEF WaitsOK
  <2>7. QED
    BY <2>5, <2>6, Zenon
<1>14. ClaimsOK'
  <2>1. chained' = chained \cup {drainer[d].intent}
    BY DEF CommitEntry
  <2>2. \A x \in Drainers \ {d} : drainer[x].pc # "idle" => drainer[x].intent # drainer[d].intent
    BY <1>1, Zenon DEF ClaimsOK
  <2>3. drainer[d].intent # 0
    BY <1>1, IntentsAssumption, Zenon DEF AuditTypeOK
  <2>4. \A i \in written : i # 0
    BY IntentsAssumption, Zenon DEF AuditTypeOK
  <2>5. QED
    BY <1>8, <1>10, <1>11, <2>1, <2>2, <2>4 DEF ClaimsOK
<1>15. QED
  BY <1>6, <1>7, <1>9, <1>13, <1>14, Zenon

\* Every step preserves the invariant.
LEMMA ChainStep == ChainInv /\ [AuditNext]_auditVars => ChainInv'
<1> SUFFICES ASSUME ChainInv, [AuditNext]_auditVars PROVE ChainInv'
  BY Zenon
<1> USE DEF ChainInv
<1>0. Len(entries) \in Nat /\ Len(entries) >= 1
  BY DEF AuditTypeOK, ChainIsIntact, VerifyChain
<1>1. ASSUME NEW i \in Intents, WriteIntent(i) PROVE ChainInv'
  <2>1. AuditTypeOK' /\ LocksOK' /\ WaitsOK' /\ ClaimsOK'
    BY <1>1, Zenon DEF WriteIntent, AuditTypeOK, LocksOK, WaitsOK, ClaimsOK
  <2>2. QED
    BY <1>1, <2>1, TablesStay, Zenon DEF WriteIntent
<1>2. ASSUME NEW d \in Drainers, NEW i \in Intents, ClaimIntent(d, i) PROVE ChainInv'
  <2>1. AuditTypeOK' /\ LocksOK' /\ WaitsOK'
    BY <1>2, Zenon DEF ClaimIntent, AuditTypeOK, LocksOK, WaitsOK, Holding
  <2>2. ClaimsOK'
    BY <1>2, IntentsAssumption DEF ClaimIntent, Claimable, AuditTypeOK, ClaimsOK
  <2>3. QED
    BY <1>2, <2>1, <2>2, TablesStay, Zenon DEF ClaimIntent
<1>3. ASSUME NEW d \in Drainers, ReachTail(d) PROVE ChainInv'
  <2>0. entries' = entries /\ chained' = chained /\ written' = written /\ aborts' = aborts
    BY <1>3, Zenon DEF ReachTail
  <2>r. PICK r \in 1..(Len(entries) + 1) :
            /\ drainer[d].pc = "claimed"
            /\ drainer' = [drainer EXCEPT ![d].pc = "waiting", ![d].row = r]
    <3>1. (IF Inserting THEN Len(entries) + 1 ELSE Len(entries)) \in 1..(Len(entries) + 1)
      BY <1>0
    <3>2. QED
      BY <3>1, <1>3, Zenon DEF ReachTail
  <2>1. \A x \in Drainers \ {d} : drainer'[x] = drainer[x]
    BY <2>r, Zenon DEF AuditTypeOK
  <2>2. /\ drainer[d].pc = "claimed" /\ drainer'[d].pc = "waiting"
        /\ drainer'[d].intent = drainer[d].intent /\ drainer'[d].row \in 1..(Len(entries) + 1)
    BY <2>r, Zenon DEF AuditTypeOK
  <2>3. AuditTypeOK'
    <3>1. r \in Nat
      BY <1>0
    <3>2. QED
      BY <2>0, <2>r, <3>1, Zenon DEF AuditTypeOK
  <2>4. LocksOK'
    BY <2>0, <2>1, <2>2 DEF LocksOK, Holding
  <2>5. WaitsOK'
    BY <2>0, <2>1, <2>2, Zenon DEF WaitsOK
  <2>6. ClaimsOK'
    BY <2>0, <2>1, <2>2 DEF ClaimsOK
  <2>7. QED
    BY <2>0, <2>3, <2>4, <2>5, <2>6, TablesStay, Zenon
<1>4. ASSUME NEW d \in Drainers, LockTail(d) PROVE ChainInv'
  <2>0. entries' = entries /\ chained' = chained /\ written' = written /\ aborts' = aborts
    BY <1>4, Zenon DEF LockTail
  <2>1. \A x \in Drainers \ {d} : drainer'[x] = drainer[x]
    BY <1>4, Zenon DEF LockTail, AuditTypeOK
  <2>2. /\ drainer[d].pc = "waiting" /\ drainer'[d].intent = drainer[d].intent
        /\ \/ /\ drainer'[d].pc = "waiting" /\ drainer'[d].row \in 1..(Len(entries) + 1)
           \/ /\ drainer'[d].pc = "locked" /\ drainer'[d].row \in 1..Len(entries)
              /\ \A x \in Drainers \ {d} : drainer[x].pc \in Holding =>
                    drainer[x].row # drainer'[d].row
    <3>1. drainer[d].pc = "waiting" /\ drainer[d].row \in 1..(Len(entries) + 1)
      BY <1>4, Zenon DEF LockTail, WaitsOK
    <3>2. CASE drainer[d].row <= Len(entries) /\ drainer' = [drainer EXCEPT ![d].pc = "locked"]
      <4>1. \A x \in Drainers : ~Holds(x, drainer[d].row)
        BY <1>4, <3>1, <3>2, <1>0 DEF LockTail
      <4>2. drainer'[d].pc = "locked" /\ drainer'[d].row = drainer[d].row
            /\ drainer'[d].intent = drainer[d].intent
        BY <3>2, Zenon DEF AuditTypeOK
      <4>3. QED
        BY <1>0, <3>1, <3>2, <4>1, <4>2 DEF Holds, Holding
    <3>3. CASE drainer' = [drainer EXCEPT ![d].row = Len(entries)]
      BY <1>0, <3>1, <3>3 DEF AuditTypeOK
    <3>4. QED
      BY <1>4, <3>2, <3>3, Zenon DEF LockTail
  <2>3. AuditTypeOK'
    BY <1>0, <1>4, Zenon DEF LockTail, AuditTypeOK
  <2>4. LocksOK'
    BY <2>0, <2>1, <2>2 DEF LocksOK, Holding
  <2>5. WaitsOK'
    BY <2>0, <2>1, <2>2, Zenon DEF WaitsOK
  <2>6. ClaimsOK'
    BY <2>0, <2>1, <2>2 DEF ClaimsOK
  <2>7. QED
    BY <2>0, <2>3, <2>4, <2>5, <2>6, TablesStay, Zenon
<1>5. ASSUME NEW d \in Drainers, CheckNewer(d) PROVE ChainInv'
  <2>1. AuditTypeOK' /\ LocksOK' /\ WaitsOK' /\ ClaimsOK'
    BY <1>0, <1>5, IntentsAssumption DEF CheckNewer, AtRest, AuditTypeOK, LocksOK, WaitsOK, ClaimsOK, Holding
  <2>2. QED
    BY <1>5, <2>1, TablesStay, Zenon DEF CheckNewer
<1>6. ASSUME NEW d \in Drainers, InsertEntry(d) PROVE ChainInv'
  <2>1. AuditTypeOK' /\ LocksOK' /\ WaitsOK' /\ ClaimsOK'
    BY <1>0, <1>6, Zenon DEF InsertEntry, AuditTypeOK, LocksOK, WaitsOK, ClaimsOK, Holding
  <2>2. QED
    BY <1>6, <2>1, TablesStay, Zenon DEF InsertEntry
<1>7. ASSUME NEW d \in Drainers, AbortDrain(d) PROVE ChainInv'
  <2>1. AuditTypeOK' /\ LocksOK' /\ WaitsOK' /\ ClaimsOK'
    BY <1>0, <1>7, IntentsAssumption, AbortsAssumption
    DEF AbortDrain, AtRest, AuditTypeOK, LocksOK, WaitsOK, ClaimsOK, Holding
  <2>2. QED
    BY <1>7, <2>1, TablesStay, Zenon DEF AbortDrain
<1>8. CASE UNCHANGED auditVars
  BY <1>8 DEF auditVars, AuditTypeOK, LocksOK, WaitsOK, ClaimsOK, ChainIsIntact, VerifyChain,
       IntentChainedOnce
<1>9. QED
  BY <1>1, <1>2, <1>3, <1>4, <1>5, <1>6, <1>7, <1>8, CommitKeeps, Zenon DEF AuditNext, DrainStep

\* Concurrent drainers never fork the ledger: GET /v1/audit always finds the
\* chain valid (append_one_intent, verify_chain).
THEOREM LedgerIsIntact == AuditSpec => []ChainIsIntact
<1>1. AuditInit => ChainInv
  BY ChainInit, Zenon
<1>2. ChainInv /\ [AuditNext]_auditVars => ChainInv'
  BY ChainStep, Zenon
<1>3. ChainInv => ChainIsIntact
  BY Zenon DEF ChainInv
<1>4. QED
  BY <1>1, <1>2, <1>3, PTL DEF AuditSpec

\* No retry chains an intent twice and none is marked without an entry
\* (_drain_one_with_retry).
THEOREM IntentsAreChainedOnce == AuditSpec => []IntentChainedOnce
<1>1. AuditInit => ChainInv
  BY ChainInit
<1>2. ChainInv /\ [AuditNext]_auditVars => ChainInv'
  BY ChainStep
<1>3. ChainInv => IntentChainedOnce
  BY Zenon DEF ChainInv
<1>4. QED
  BY <1>1, <1>2, <1>3, PTL DEF AuditSpec

-----------------------------------------------------------------------------
(* PolicyWorkflow: proposals and what is in force *)

Statuses == {"pending", "approved", "rejected", "applied"}
Steps == {"idle", "approve", "reject", "promote", "install"}

Proposed == [draft : Drafts, by : Admins, status : Statuses, approvedBy : SUBSET Admins]
Deciding == [id : Nat, at : Steps, replica : Replicas \cup {CHOOSE r \in Replicas : TRUE}]

\* The ids are consecutive: a new one is none of the old ones.
PolicyTyped ==
    /\ \E n \in Nat : proposal \in [1 .. n -> Proposed]
    /\ DOMAIN inForce = Replicas
    /\ decision \in [Admins -> Deciding]

\* What has been committed for the proposal that an administrator has in hand.
InHandOK ==
    \A a \in Admins :
        /\ decision[a].at # "idle" => decision[a].id \in Ids
        /\ decision[a].at \in {"approve", "promote", "install"} =>
               a # proposal[decision[a].id].by
        /\ decision[a].at \in {"promote", "install"} => <<decision[a].id, a>> \in seconded

Seconded(i) == \E a \in Admins : <<i, a>> \in seconded /\ a # proposal[i].by

\* Nothing is applied that only its author approved.
AppliedOK == \A i \in Ids : proposal[i].status = "applied" => Seconded(i)

PolicyInv == PolicyTyped /\ InHandOK /\ AppliedOK /\ PolicyHasTwoPeople

\* Every process starts with the file's policy and nobody has proposed anything.
LEMMA PolicyInitially == PolicyInit => PolicyInv
<1> SUFFICES ASSUME PolicyInit PROVE PolicyInv
  BY Zenon
<1>1. proposal \in [1 .. 0 -> Proposed] /\ Ids = {}
  BY DEF PolicyInit, Ids
<1>2. Undecided \in Deciding
  BY Zenon DEF Undecided, Deciding, Steps
<1>3. PolicyTyped
  BY <1>1, <1>2, Zenon DEF PolicyInit, PolicyTyped
<1>4. QED
  BY <1>1, <1>3, Zenon DEF PolicyInit, PolicyInv, InHandOK, AppliedOK, PolicyHasTwoPeople, Undecided

\* The rows a step leaves: authors, documents and approvals are never taken back.
RowsGrow ==
    /\ Ids \subseteq Ids'
    /\ \A i \in Ids : proposal'[i].by = proposal[i].by /\ proposal'[i].draft = proposal[i].draft
    /\ seconded \subseteq seconded'

\* A policy in force that a step does not touch keeps its two people.
LEMMA TwoPeopleStay ==
    ASSUME PolicyHasTwoPeople, RowsGrow, NEW r \in Replicas,
           inForce'[r] = inForce[r] \/ inForce'[r] = FilePolicy
    PROVE  inForce'[r] # FilePolicy =>
               \E i \in Ids', a \in Admins :
                   proposal'[i].draft = inForce'[r] /\ <<i, a>> \in seconded'
                       /\ a # proposal'[i].by
BY DEF PolicyHasTwoPeople, RowsGrow

\* The document of a seconded proposal may be put in force.
LEMMA SecondedMayRule ==
    ASSUME PolicyHasTwoPeople, RowsGrow, NEW i \in Ids, Seconded(i), NEW r,
           DOMAIN inForce = Replicas, inForce' = [inForce EXCEPT ![r] = proposal[i].draft]
    PROVE  PolicyHasTwoPeople'
<1> SUFFICES ASSUME NEW q \in Replicas, inForce'[q] # FilePolicy
             PROVE  \E j \in Ids', a \in Admins :
                        proposal'[j].draft = inForce'[q] /\ <<j, a>> \in seconded'
                            /\ a # proposal'[j].by
  BY Zenon DEF PolicyHasTwoPeople
<1>1. CASE inForce'[q] = inForce[q]
  BY <1>1, TwoPeopleStay, Zenon
<1>2. CASE inForce'[q] = proposal[i].draft
  BY <1>2, Zenon DEF Seconded, RowsGrow
<1>3. QED
  BY <1>1, <1>2, Zenon

\* propose_policy_change adds a row behind the others.
LEMMA ProposeKeeps ==
    ASSUME PolicyInv, NEW a \in Admins, NEW r \in Replicas, NEW d \in Drafts, Propose(a, r, d)
    PROVE  PolicyInv'
<1> DEFINE row == [draft |-> d, by |-> a,
                   status |-> IF d.hard # inForce[r].hard THEN "pending" ELSE "approved",
                   approvedBy |-> IF d.hard # inForce[r].hard THEN {} ELSE {a}]
<1>1. PICK n \in Nat : proposal \in [1 .. n -> Proposed]
  BY Zenon DEF PolicyInv, PolicyTyped
<1>2. Ids = 1 .. n /\ Cardinality(Ids) = n
  BY <1>1, FS_Interval DEF Ids
<1>3. row \in Proposed /\ row.status # "applied"
  BY Zenon DEF Proposed, Statuses
<1>4. proposal' = [i \in 1 .. n + 1 |-> IF i \in Ids THEN proposal[i] ELSE row]
  BY <1>2, Zenon DEF Propose
<1>5. proposal' \in [1 .. n + 1 -> Proposed] /\ Ids' = 1 .. n + 1
  BY <1>1, <1>2, <1>3, <1>4, Zenon DEF Ids
<1>6. \A i \in Ids : i \in Ids' /\ proposal'[i] = proposal[i]
  BY <1>2, <1>4, <1>5
<1>7. inForce' = inForce /\ decision' = decision /\ seconded' = seconded
  BY Zenon DEF Propose
<1>8. RowsGrow
  BY <1>6, <1>7, Zenon DEF RowsGrow
<1>9. PolicyTyped'
  BY <1>5, <1>7 DEF PolicyInv, PolicyTyped
<1>10. InHandOK'
  BY <1>6, <1>7, Zenon DEF PolicyInv, InHandOK
<1>11. AppliedOK'
  <2> SUFFICES ASSUME NEW i \in Ids', proposal'[i].status = "applied" PROVE Seconded(i)'
    BY Zenon DEF AppliedOK
  <2>1. i \in Ids
    BY <1>3, <1>4, <1>5, Zenon
  <2>2. QED
    BY <2>1, <1>6, <1>7, Zenon DEF PolicyInv, AppliedOK, Seconded
<1>12. PolicyHasTwoPeople'
  BY <1>7, <1>8, TwoPeopleStay, Zenon DEF PolicyInv, PolicyHasTwoPeople
<1>13. QED
  BY <1>9, <1>10, <1>11, <1>12, Zenon DEF PolicyInv

\* A decision in hand is checked against its row when it is taken up.
LEMMA OpenKeeps ==
    ASSUME PolicyInv, NEW a \in Admins, NEW r \in Replicas, NEW i \in Ids, OpenDecision(a, r, i)
    PROVE  PolicyInv'
<1>1. proposal' = proposal /\ inForce' = inForce /\ seconded' = seconded
  BY Zenon DEF OpenDecision
<1>2. PICK at \in {"approve", "reject"} :
          /\ at = "approve" => a # proposal[i].by
          /\ decision' = [decision EXCEPT ![a] = [id |-> i, at |-> at, replica |-> r]]
  BY Zenon DEF OpenDecision, MayApprove
<1>3. i \in Nat
  BY DEF PolicyInv, PolicyTyped, Ids
<1>4. [id |-> i, at |-> at, replica |-> r] \in Deciding
  BY <1>3, Zenon DEF Deciding, Steps
<1>5. PolicyTyped'
  BY <1>1, <1>2, <1>4, Zenon DEF PolicyInv, PolicyTyped
<1>6. InHandOK'
  BY <1>1, <1>2, Zenon DEF PolicyInv, InHandOK, PolicyTyped, Ids
<1>7. AppliedOK' /\ PolicyHasTwoPeople'
  BY <1>1, Zenon DEF PolicyInv, AppliedOK, Seconded, PolicyHasTwoPeople, Ids
<1>8. QED
  BY <1>5, <1>6, <1>7, Zenon DEF PolicyInv

\* A step that changes one row, and leaves its author and document.
LEMMA RowWritten ==
    ASSUME PolicyTyped, NEW i \in Ids, NEW row \in Proposed,
           row.by = proposal[i].by, row.draft = proposal[i].draft,
           proposal' = [proposal EXCEPT ![i] = row]
    PROVE  /\ \E n \in Nat : proposal' \in [1 .. n -> Proposed]
           /\ Ids' = Ids
           /\ \A j \in Ids : /\ proposal'[j].by = proposal[j].by
                             /\ proposal'[j].draft = proposal[j].draft
                             /\ proposal'[j].status =
                                    IF j = i THEN row.status ELSE proposal[j].status
<1>1. PICK n \in Nat : proposal \in [1 .. n -> Proposed]
  BY Zenon DEF PolicyTyped
<1>2. proposal' \in [1 .. n -> Proposed]
  BY <1>1, Zenon DEF Ids
<1>3. QED
  BY <1>1, <1>2, Zenon DEF Ids

\* Approval and rejection overwrite the status, and only an approval is counted.
LEMMA CommitKeepsPolicy ==
    ASSUME PolicyInv, NEW a \in Admins, CommitDecision(a)
    PROVE  PolicyInv'
<1> DEFINE i == decision[a].id
<1>1. /\ decision[a].at \in {"approve", "reject"}
      /\ inForce' = inForce
      /\ seconded \subseteq seconded'
  BY Zenon DEF CommitDecision
<1>2. i \in Ids /\ decision \in [Admins -> Deciding] /\ PolicyTyped
  BY <1>1, Zenon DEF PolicyInv, PolicyTyped, InHandOK
<1>3. PICK row \in Proposed : /\ row.by = proposal[i].by /\ row.draft = proposal[i].draft
                          /\ row.status # "applied"
                          /\ proposal' = [proposal EXCEPT ![i] = row]
  <2> DEFINE st == IF decision[a].at = "approve" THEN "approved" ELSE "rejected"
             new == [proposal[i] EXCEPT !.status = st, !.approvedBy = {a}]
  <2>1. proposal[i] \in Proposed
    BY <1>2, Zenon DEF PolicyTyped, Ids
  <2>2. new \in Proposed /\ new.by = proposal[i].by /\ new.draft = proposal[i].draft
          /\ new.status # "applied"
    BY <2>1, Zenon DEF Proposed, Statuses
  <2>3. proposal' = [proposal EXCEPT ![i] = new]
    BY Zenon DEF CommitDecision
  <2> HIDE DEF new, i
  <2>4. QED
    BY <2>2, <2>3, Zenon
<1>4. /\ \E n \in Nat : proposal' \in [1 .. n -> Proposed]
      /\ Ids' = Ids
      /\ \A j \in Ids : /\ proposal'[j].by = proposal[j].by
                        /\ proposal'[j].draft = proposal[j].draft
                        /\ proposal'[j].status = IF j = i THEN row.status ELSE proposal[j].status
  BY <1>2, <1>3, RowWritten, Zenon
<1>5. RowsGrow
  BY <1>1, <1>4, Zenon DEF RowsGrow
<1>6. Undecided \in Deciding
  BY Zenon DEF Undecided, Deciding, Steps
<1>7. PolicyTyped'
  <2>1. [decision[a] EXCEPT !.at = "promote"] \in Deciding
    BY <1>2, Zenon DEF Deciding, Steps
  <2>2. \E v \in Deciding : decision' = [decision EXCEPT ![a] = v]
    BY <2>1, <1>6, Zenon DEF CommitDecision
  <2>3. decision' \in [Admins -> Deciding]
    BY <2>2, <1>2, Zenon
  <2>4. QED
    BY <1>1, <1>4, <2>3, Zenon DEF PolicyInv, PolicyTyped
<1>8. InHandOK'
  <2> SUFFICES ASSUME NEW b \in Admins
               PROVE  /\ decision'[b].at # "idle" => decision'[b].id \in Ids'
                      /\ decision'[b].at \in {"approve", "promote", "install"} =>
                             b # proposal'[decision'[b].id].by
                      /\ decision'[b].at \in {"promote", "install"} =>
                             <<decision'[b].id, b>> \in seconded'
    BY Zenon DEF InHandOK
  <2>1. CASE b # a
    <3>1. decision'[b] = decision[b]
      BY <2>1, <1>2, Zenon DEF CommitDecision
    <3>2. QED
      BY <3>1, <1>1, <1>2, <1>4 DEF PolicyInv, InHandOK
  <2>2. CASE b = a /\ decision[a].at = "approve"
    <3>1. decision'[a].at = "promote" /\ decision'[a].id = i /\ <<i, a>> \in seconded'
      BY <2>2, <1>2, Zenon DEF CommitDecision, Deciding
    <3>2. QED
      BY <2>2, <3>1, <1>2, <1>4 DEF PolicyInv, InHandOK
  <2>3. CASE b = a /\ decision[a].at = "reject"
    BY <2>3, <1>2, Zenon DEF CommitDecision, Undecided
  <2>4. QED
    BY <1>1, <2>1, <2>2, <2>3, Zenon
<1>9. AppliedOK'
  <2> SUFFICES ASSUME NEW j \in Ids, proposal'[j].status = "applied" PROVE Seconded(j)'
    BY <1>4, Zenon DEF AppliedOK
  <2>1. proposal[j].status = "applied" /\ proposal'[j].by = proposal[j].by
    BY <1>3, <1>4, Zenon
  <2>2. QED
    BY <2>1, <1>1, Zenon DEF PolicyInv, AppliedOK, Seconded
<1>10. PolicyHasTwoPeople'
  BY <1>1, <1>5, TwoPeopleStay, Zenon DEF PolicyInv, PolicyHasTwoPeople
<1>11. QED
  BY <1>7, <1>8, <1>9, <1>10, Zenon DEF PolicyInv

\* promote_approved_policy applies what the administrator in hand has seconded.
LEMMA PromoteKeeps ==
    ASSUME PolicyInv, NEW a \in Admins, Promote(a)
    PROVE  PolicyInv'
<1> DEFINE i == decision[a].id
<1>1. decision[a].at = "promote" /\ inForce' = inForce /\ seconded' = seconded
  BY Zenon DEF Promote
<1>2. /\ i \in Ids /\ decision \in [Admins -> Deciding] /\ PolicyTyped
      /\ a # proposal[i].by /\ <<i, a>> \in seconded
  BY <1>1, Zenon DEF PolicyInv, PolicyTyped, InHandOK
<1>3. Undecided \in Deciding
  BY Zenon DEF Undecided, Deciding, Steps
<1>4. CASE proposal' = proposal /\ decision' = [decision EXCEPT ![a] = Undecided]
  <2>1. PolicyTyped'
    BY <1>1, <1>3, <1>4, Zenon DEF PolicyInv, PolicyTyped
  <2>2. InHandOK'
    BY <1>1, <1>2, <1>4, Zenon DEF PolicyInv, InHandOK, Ids, Undecided
  <2>3. AppliedOK' /\ PolicyHasTwoPeople'
    BY <1>1, <1>4, Zenon DEF PolicyInv, AppliedOK, Seconded, PolicyHasTwoPeople, Ids
  <2>4. QED
    BY <2>1, <2>2, <2>3, Zenon DEF PolicyInv
<1>5. CASE /\ proposal' = [proposal EXCEPT ![i].status = "applied"]
           /\ decision' = [decision EXCEPT ![a].at = "install"]
  <2>1. PICK row \in Proposed : /\ row.by = proposal[i].by /\ row.draft = proposal[i].draft
                            /\ row.status = "applied"
                            /\ proposal' = [proposal EXCEPT ![i] = row]
    <3> DEFINE new == [proposal[i] EXCEPT !.status = "applied"]
    <3>1. proposal[i] \in Proposed
      BY <1>2, Zenon DEF PolicyTyped, Ids
    <3>2. new \in Proposed /\ new.by = proposal[i].by /\ new.draft = proposal[i].draft
            /\ new.status = "applied"
      BY <3>1, Zenon DEF Proposed, Statuses
    <3>3. proposal' = [proposal EXCEPT ![i] = new]
      BY <1>5, Zenon
    <3> HIDE DEF new, i
    <3>4. QED
      BY <3>2, <3>3, Zenon
  <2>2. /\ \E n \in Nat : proposal' \in [1 .. n -> Proposed]
        /\ Ids' = Ids
        /\ \A j \in Ids : /\ proposal'[j].by = proposal[j].by
                          /\ proposal'[j].draft = proposal[j].draft
                          /\ proposal'[j].status = IF j = i THEN row.status ELSE proposal[j].status
    BY <1>2, <2>1, RowWritten, Zenon
  <2>3. RowsGrow
    BY <1>1, <2>2, Zenon DEF RowsGrow
  <2>4. PolicyTyped'
    <3>1. decision' \in [Admins -> Deciding]
      BY <1>2, <1>5, Zenon DEF Deciding, Steps
    <3>2. QED
      BY <1>1, <2>2, <3>1, Zenon DEF PolicyInv, PolicyTyped
  <2>5. InHandOK'
    BY <1>1, <1>2, <1>5, <2>2 DEF PolicyInv, InHandOK, Deciding
  <2>6. AppliedOK'
    <3> SUFFICES ASSUME NEW j \in Ids, proposal'[j].status = "applied" PROVE Seconded(j)'
      BY <2>2 DEF AppliedOK
    <3>1. CASE j = i
      BY <3>1, <1>1, <1>2, <2>2, Zenon DEF Seconded
    <3>2. CASE j # i
      <4>1. proposal'[j].by = proposal[j].by /\ proposal[j].status = "applied"
        BY <3>2, <2>2, Zenon
      <4>2. Seconded(j)
        BY <4>1, Zenon DEF PolicyInv, AppliedOK
      <4>3. QED
        BY <4>1, <4>2, <1>1, Zenon DEF Seconded
    <3>3. QED
      BY <3>1, <3>2, Zenon
  <2>7. PolicyHasTwoPeople'
    BY <1>1, <2>3, TwoPeopleStay, Zenon DEF PolicyInv, PolicyHasTwoPeople
  <2>8. QED
    BY <2>4, <2>5, <2>6, <2>7 DEF PolicyInv
<1>6. QED
  BY <1>4, <1>5, Zenon DEF Promote

\* runtime.policy becomes the document that was promoted.
LEMMA InstallKeeps ==
    ASSUME PolicyInv, NEW a \in Admins, Install(a)
    PROVE  PolicyInv'
<1> DEFINE i == decision[a].id
<1>1. /\ proposal' = proposal /\ seconded' = seconded
      /\ inForce' = [inForce EXCEPT ![decision[a].replica] = proposal[i].draft]
      /\ decision' = [decision EXCEPT ![a] = Undecided]
  BY Zenon DEF Install
<1>2. i \in Ids /\ Seconded(i)
  BY Zenon DEF PolicyInv, InHandOK, Seconded, Install
<1>3. RowsGrow
  BY <1>1, Zenon DEF RowsGrow, Ids
<1>4. Undecided \in Deciding
  BY DEF Undecided, Deciding, Steps
<1>5. PolicyTyped'
  BY <1>1, <1>4, Zenon DEF PolicyInv, PolicyTyped
<1>6. InHandOK'
  BY <1>1, Zenon DEF PolicyInv, InHandOK, PolicyTyped, Ids, Undecided
<1>7. AppliedOK'
  BY <1>1, Zenon DEF PolicyInv, AppliedOK, Seconded, Ids
<1>8. PolicyHasTwoPeople'
  <2> HIDE DEF i
  <2>1. QED
    BY <1>1, <1>2, <1>3, SecondedMayRule, Zenon DEF PolicyInv, PolicyTyped
<1>9. QED
  BY <1>5, <1>6, <1>7, <1>8, Zenon DEF PolicyInv

\* Some id is the highest.
LEMMA HasGreatest ==
    ASSUME NEW n \in Nat, NEW T, T \subseteq 1 .. n, T # {}
    PROVE  \E i \in T : \A j \in T : j <= i
<1> DEFINE D == {n - i : i \in T}
<1>1. D \subseteq Nat /\ D # {}
  <2>1. \A i \in T : i \in 1 .. n
    BY Zenon
  <2>2. \A i \in T : n - i \in Nat
    BY <2>1
  <2>3. QED
    BY <2>2, Zenon
<1>2. \E x \in D : \A y \in D : ~(<<y, x>> \in OpToRel(<, Nat))
  BY <1>1, NatLessThanWellFounded, WFMin, Zenon
<1>3. PICK x \in D : \A y \in D : ~(y < x)
  BY <1>1, <1>2, Zenon DEF OpToRel
<1>4. PICK i \in T : x = n - i
  BY Zenon
<1>5. ASSUME NEW j \in T PROVE j <= i
  <2>1. ~(n - j < n - i)
    BY <1>3, <1>4, Zenon
  <2>2. i \in 1 .. n /\ j \in 1 .. n
    BY Zenon
  <2> HIDE DEF D
  <2> QED
    BY <2>1, <2>2, SMT
<1>6. QED
  BY <1>5, Zenon

\* reload_policy_if_changed takes a document from an applied row only.
LEMMA ReloadKeeps ==
    ASSUME PolicyInv, NEW r \in Replicas, Reload(r)
    PROVE  PolicyInv'
<1>1. /\ proposal' = proposal /\ seconded' = seconded /\ decision' = decision
      /\ inForce' = [inForce EXCEPT ![r] = proposal[LastApplied].draft]
      /\ Applied # {}
  BY Zenon DEF Reload
<1>2. LastApplied \in Applied
  <2>1. PICK n \in Nat : Ids = 1 .. n
    BY Zenon DEF PolicyInv, PolicyTyped, Ids
  <2>2. Applied \subseteq 1 .. n
    BY <2>1, Zenon DEF Applied
  <2>3. \E i \in Applied : \A j \in Applied : j <= i
    BY <1>1, <2>2, HasGreatest, Zenon
  <2>4. QED
    BY <2>3, Zenon DEF LastApplied
<1>3. LastApplied \in Ids /\ Seconded(LastApplied)
  BY <1>2, Zenon DEF Applied, PolicyInv, AppliedOK
<1>4. RowsGrow
  BY <1>1, Zenon DEF RowsGrow, Ids
<1>5. PolicyTyped'
  BY <1>1, Zenon DEF PolicyInv, PolicyTyped
<1>6. InHandOK' /\ AppliedOK'
  BY <1>1, Zenon DEF PolicyInv, InHandOK, AppliedOK, Seconded, Ids
<1>7. PolicyHasTwoPeople'
  BY <1>1, <1>3, <1>4, SecondedMayRule, Zenon DEF PolicyInv, PolicyTyped
<1>8. QED
  BY <1>5, <1>6, <1>7, Zenon DEF PolicyInv

\* A restart brings the file's policy back and loses the requests in progress.
LEMMA RestartKeeps ==
    ASSUME PolicyInv, NEW r \in Replicas, ReplicaRestarts(r)
    PROVE  PolicyInv'
<1>1. /\ proposal' = proposal /\ seconded' = seconded
      /\ inForce' = [inForce EXCEPT ![r] = FilePolicy]
      /\ decision' = [a \in Admins |->
                          IF decision[a].replica = r THEN Undecided ELSE decision[a]]
  BY Zenon DEF ReplicaRestarts
<1>2. RowsGrow
  BY <1>1, Zenon DEF RowsGrow, Ids
<1>3. Undecided \in Deciding
  BY Zenon DEF Undecided, Deciding, Steps
<1>4. PolicyTyped'
  BY <1>1, <1>3, Zenon DEF PolicyInv, PolicyTyped
<1>5. InHandOK'
  BY <1>1, Zenon DEF PolicyInv, InHandOK, Ids, Undecided
<1>6. AppliedOK'
  BY <1>1, Zenon DEF PolicyInv, AppliedOK, Seconded, Ids
<1>7. PolicyHasTwoPeople'
  <2>1. \A q \in Replicas : inForce'[q] = inForce[q] \/ inForce'[q] = FilePolicy
    BY <1>1, Zenon DEF PolicyInv, PolicyTyped
  <2>2. QED
    BY <1>2, <2>1, TwoPeopleStay, Zenon DEF PolicyInv, PolicyHasTwoPeople
<1>8. QED
  BY <1>4, <1>5, <1>6, <1>7 DEF PolicyInv

\* The invariant is inductive.
LEMMA PolicyStep == PolicyInv /\ [PolicyNext]_policyVars => PolicyInv'
<1> SUFFICES ASSUME PolicyInv, [PolicyNext]_policyVars PROVE PolicyInv'
  BY Zenon
<1>1. ASSUME NEW a \in Admins, AdminStep(a) PROVE PolicyInv'
  BY <1>1, ProposeKeeps, OpenKeeps, CommitKeepsPolicy, PromoteKeeps, InstallKeeps, Zenon DEF AdminStep
<1>2. ASSUME NEW r \in Replicas, Reload(r) \/ ReplicaRestarts(r) PROVE PolicyInv'
  BY <1>2, ReloadKeeps, RestartKeeps, Zenon
<1>3. CASE UNCHANGED policyVars
  BY <1>3, Zenon DEF policyVars, PolicyInv, PolicyTyped, InHandOK, AppliedOK, Seconded,
              PolicyHasTwoPeople, Ids
<1>4. QED
  BY <1>1, <1>2, <1>3, Zenon DEF PolicyNext

\* Four eyes (approve_policy_proposal): whatever requests race and replicas
\* restart, a policy in force that is not the file's has an author and another
\* person who approved it.
THEOREM PolicyNeedsTwoPeople == PolicySpec => []PolicyHasTwoPeople
<1>1. PolicyInv => PolicyHasTwoPeople
  BY Zenon DEF PolicyInv
<1>2. QED
  BY PolicyInitially, PolicyStep, <1>1, PTL DEF PolicySpec

-----------------------------------------------------------------------------
(* OutboxRelay: what the replicas do with a row *)

AtWork == {"put", "emit", "mark"}

Draining == [pc : {"idle", "next"} \cup AtWork, row : Nat, left : Int, failed : SUBSET Nat]

\* The effects of a row come in order: nothing is marked, and the SIEM is told
\* nothing, that the marketplace has not accepted; it is never asked for a row
\* the gate has not committed; and a row is in one replica's hands at a time,
\* never one that is marked already.
EffectsInOrder ==
    /\ dispatched \cap VerdictRows \subseteq received /\ siem \subseteq received
    /\ received \cup dispatched \subseteq outbox /\ Poison \cap (received \cup dispatched) = {}
    /\ \A r \in Relays : relay[r].row \notin dispatched
    /\ \A r, x \in Relays : relay[r].row = relay[x].row /\ relay[r].row # 0 => r = x

\* ... with what the place a replica has reached says about its row.
RelayInv ==
    /\ relay \in [Relays -> Draining] /\ outbox \subseteq Rows
    /\ \A r \in Relays :
          /\ relay[r].pc \in AtWork => relay[r].row \in outbox
          /\ relay[r].pc \notin AtWork => relay[r].row = 0
          /\ relay[r].pc \in {"put", "emit"} => relay[r].row \in VerdictRows
          /\ relay[r].pc \in {"emit", "mark"} /\ relay[r].row \in VerdictRows => relay[r].row \in received
    /\ EffectsInOrder

\* Zero is no row.
LEMMA ZeroIsNoRow == 0 \notin Rows /\ Rows \subseteq Nat /\ VerdictRows \subseteq Rows /\ Poison \subseteq VerdictRows
  BY RowsAssumption, Zenon

\* A step of one replica, by what it leaves in its own hands.
LEMMA HandsKept ==
    ASSUME RelayInv, NEW r \in Relays, NEW new \in Draining, relay' = [relay EXCEPT ![r] = new],
           outbox' = outbox, received \subseteq received', dispatched \subseteq dispatched',
           \A x \in Relays \ {r} : relay[x].row \notin dispatched',
           new.pc \in AtWork => new.row \in outbox /\ \A x \in Relays \ {r} : relay[x].row # new.row,
           new.pc \notin AtWork => new.row = 0,
           new.pc \in {"put", "emit"} => new.row \in VerdictRows,
           new.pc \in {"emit", "mark"} /\ new.row \in VerdictRows => new.row \in received',
           new.row \notin dispatched',
           dispatched' \cap VerdictRows \subseteq received', siem' \subseteq received',
           received' \cup dispatched' \subseteq outbox, Poison \cap (received' \cup dispatched') = {}
    PROVE  RelayInv'
<1>1. relay' \in [Relays -> Draining] /\ outbox' \subseteq Rows
  BY Zenon DEF RelayInv
<1>2. relay'[r] = new /\ \A x \in Relays \ {r} : relay'[x] = relay[x]
  BY Zenon DEF RelayInv
<1>3. ASSUME NEW x \in Relays
      PROVE  /\ relay'[x].pc \in AtWork => relay'[x].row \in outbox'
             /\ relay'[x].pc \notin AtWork => relay'[x].row = 0
             /\ relay'[x].pc \in {"put", "emit"} => relay'[x].row \in VerdictRows
             /\ relay'[x].pc \in {"emit", "mark"} /\ relay'[x].row \in VerdictRows => relay'[x].row \in received'
             /\ relay'[x].row \notin dispatched'
  <2>1. CASE x = r
    <3>1. relay'[x] = new
      BY <1>2, <2>1, Zenon
    <3>2. new.pc \in AtWork => new.row \in outbox'
      BY Zenon
    <3>3. /\ new.pc \notin AtWork => new.row = 0
          /\ new.pc \in {"put", "emit"} => new.row \in VerdictRows
          /\ new.pc \in {"emit", "mark"} /\ new.row \in VerdictRows => new.row \in received'
          /\ new.row \notin dispatched'
      BY Zenon
    <3> QED
      BY <3>1, <3>2, <3>3, Zenon
  <2>2. CASE x # r
    <3>1. x \in Relays \ {r} /\ relay'[x] = relay[x]
      BY <1>2, <2>2, Zenon
    <3> QED
      BY <3>1, Zenon DEF RelayInv
  <2> QED
    BY <2>1, <2>2, Zenon
<1>4. ASSUME NEW x \in Relays, NEW y \in Relays, relay'[x].row = relay'[y].row, relay'[x].row # 0
      PROVE  x = y
  BY <1>2, <1>4, Zenon DEF RelayInv, EffectsInOrder
<1>5. EffectsInOrder'
  BY <1>3, <1>4, Zenon DEF EffectsInOrder
<1> QED
  BY <1>1, <1>3, <1>5, Zenon DEF RelayInv

\* No step of a drain, nor a death, breaks the order of the effects.
LEMMA RelayStepKeeps ==
    ASSUME RelayInv, NEW r \in Relays, RelayStep(r) \/ RelayDies(r)
    PROVE  RelayInv'
<1>1. /\ relay[r] \in Draining /\ 0 \notin dispatched /\ Resting \in Draining
      /\ \A x \in Relays : relay[x].row \notin dispatched
  BY ZeroIsNoRow DEF RelayInv, EffectsInOrder, Draining, Resting
<1>2. ASSUME NEW new \in Draining, new.pc \notin AtWork, new.row = 0, relay' = [relay EXCEPT ![r] = new],
             UNCHANGED <<outbox, dispatched, received, siem>>
      PROVE  RelayInv'
  <2>1. /\ dispatched \cap VerdictRows \subseteq received /\ siem \subseteq received
        /\ received \cup dispatched \subseteq outbox /\ Poison \cap (received \cup dispatched) = {}
    BY Zenon DEF RelayInv, EffectsInOrder
  <2>2. new.pc \notin {"put", "emit", "mark"}
    BY <1>2, Zenon DEF AtWork
  <2> QED
    BY <1>1, <1>2, <2>1, <2>2, HandsKept, Zenon
<1>3. CASE StartDrain(r)
  <2> DEFINE new == [Resting EXCEPT !.pc = "next", !.left = BatchSize]
  <2>1. relay' = [relay EXCEPT ![r] = new] /\ UNCHANGED <<outbox, dispatched, received, siem>>
    BY <1>3, Zenon DEF StartDrain
  <2>2. new \in Draining /\ new.pc \notin AtWork /\ new.row = 0
    <3>1. Resting.row = 0
      BY Zenon DEF Resting
    <3>2. BatchSize \in Int
      BY RowsAssumption
    <3> QED
      BY <1>1, <3>1, <3>2, Zenon DEF Draining, AtWork
  <2> HIDE DEF new
  <2> QED
    BY <1>2, <2>1, <2>2, Zenon
<1>4. CASE SelectRow(r)
  <2>1. CASE relay' = [relay EXCEPT ![r] = Resting]
    <3>1. Resting.pc \notin AtWork /\ Resting.row = 0
      BY Zenon DEF Resting, AtWork
    <3> QED
      BY <1>1, <1>2, <1>4, <2>1, <3>1, Zenon DEF SelectRow
  <2>2. CASE relay' # [relay EXCEPT ![r] = Resting]
    <3>1. PICK o \in Selectable(r) :
              relay' = [relay EXCEPT ![r].pc = IF o \in VerdictRows THEN "put" ELSE "mark",
                                     ![r].row = o, ![r].left = @ - 1]
      BY <1>4, <2>2, Zenon DEF SelectRow
    <3> DEFINE new == [relay[r] EXCEPT !.pc = IF o \in VerdictRows THEN "put" ELSE "mark",
                                       !.row = o, !.left = @ - 1]
    <3>2. relay' = [relay EXCEPT ![r] = new]
      BY <3>1, Zenon DEF RelayInv
    <3>3. o \in outbox /\ o \notin dispatched /\ o \in Nat /\ \A x \in Relays : relay[x].row # o
      BY <3>1, ZeroIsNoRow, Zenon DEF Selectable, RelayInv
    <3>4. new \in Draining /\ new.pc = (IF o \in VerdictRows THEN "put" ELSE "mark") /\ new.row = o
      <4> DEFINE at == IF o \in VerdictRows THEN "put" ELSE "mark"
      <4>1. at \in {"put", "mark"}
        BY Zenon
      <4> DEFINE rest == relay[r].left - 1
      <4>2. rest \in Int
        BY <1>1 DEF Draining
      <4>3. new = [relay[r] EXCEPT !.pc = at, !.row = o, !.left = rest]
        BY Zenon
      <4> HIDE DEF new, at, rest
      <4>4. new \in Draining /\ new.pc = at /\ new.row = o
        BY <1>1, <3>3, <4>1, <4>2, <4>3, Zenon DEF Draining, AtWork
      <4> QED
        BY <4>4, Zenon DEF at
    <3> HIDE DEF new
    <3>5. /\ new.pc \in AtWork /\ new.pc # "emit" /\ (new.pc = "put" => o \in VerdictRows)
          /\ (new.pc = "mark" => o \notin VerdictRows)
      BY <3>4, Zenon DEF AtWork
    <3>6. UNCHANGED <<outbox, dispatched, received, siem>>
      BY <1>4, Zenon DEF SelectRow
    <3>7. /\ dispatched \cap VerdictRows \subseteq received /\ siem \subseteq received
          /\ received \cup dispatched \subseteq outbox /\ Poison \cap (received \cup dispatched) = {}
      BY Zenon DEF RelayInv, EffectsInOrder
    <3> QED
      BY <1>1, <3>2, <3>3, <3>4, <3>5, <3>6, <3>7, HandsKept, Zenon
  <2> QED
    BY <2>1, <2>2, Zenon
<1>5. CASE WriteVerdict(r)
  <2> DEFINE new == [relay[r] EXCEPT !.pc = "emit"]
  <2>1. /\ relay[r].pc = "put" /\ relay[r].row \notin Poison /\ received' = received \cup {relay[r].row}
        /\ UNCHANGED <<outbox, dispatched, siem>>
    BY <1>5, Zenon DEF WriteVerdict
  <2>2. relay' = [relay EXCEPT ![r] = new]
    BY <1>5, Zenon DEF WriteVerdict, RelayInv
  <2>3. new \in Draining /\ new.pc = "emit" /\ new.row = relay[r].row
    BY <1>1, Zenon DEF Draining, AtWork
  <2> HIDE DEF new
  <2>4. relay[r].pc \in AtWork /\ new.pc \in AtWork
    BY <2>1, <2>3, Zenon DEF AtWork
  <2>5. relay[r].row \in outbox /\ relay[r].row \in VerdictRows /\ relay[r].row # 0
    BY <2>1, <2>4, ZeroIsNoRow, Zenon DEF RelayInv
  <2>6. \A x \in Relays \ {r} : relay[x].row # new.row
    BY <2>3, <2>5, Zenon DEF RelayInv, EffectsInOrder
  <2>7. /\ dispatched \cap VerdictRows \subseteq received' /\ siem \subseteq received'
        /\ received' \cup dispatched \subseteq outbox /\ Poison \cap (received' \cup dispatched) = {}
        /\ received \subseteq received'
    BY <2>1, <2>5, Zenon DEF RelayInv, EffectsInOrder
  <2>8. new.row \in received' /\ new.row \notin dispatched
    BY <1>1, <2>1, <2>3, Zenon
  <2> QED
    BY <1>1, <2>1, <2>2, <2>3, <2>4, <2>5, <2>6, <2>7, <2>8, HandsKept, Zenon
<1>6. CASE WriteVerdictFails(r)
  <2> DEFINE new == [relay[r] EXCEPT !.pc = "next", !.failed = @ \cup {relay[r].row}, !.row = 0]
  <2>1. relay' = [relay EXCEPT ![r] = new]
    BY <1>6, Zenon DEF WriteVerdictFails, RelayInv
  <2>2. new \in Draining /\ new.pc \notin AtWork /\ new.row = 0
    BY <1>1, Zenon DEF Draining, AtWork
  <2> HIDE DEF new
  <2>3. UNCHANGED <<outbox, dispatched, received, siem>>
    BY <1>6, Zenon DEF WriteVerdictFails
  <2> QED
    BY <1>2, <2>1, <2>2, <2>3, Zenon
<1>7. CASE Emit(r)
  <2> DEFINE new == [relay[r] EXCEPT !.pc = "mark"]
  <2>1. /\ relay[r].pc = "emit" /\ siem' \subseteq siem \cup {relay[r].row}
        /\ UNCHANGED <<outbox, dispatched, received>>
    BY <1>7, Zenon DEF Emit
  <2>2. relay' = [relay EXCEPT ![r] = new]
    BY <1>7, Zenon DEF Emit, RelayInv
  <2>3. new \in Draining /\ new.pc = "mark" /\ new.row = relay[r].row
    BY <1>1, Zenon DEF Draining, AtWork
  <2> HIDE DEF new
  <2>4. relay[r].pc \in AtWork /\ new.pc \in AtWork
    BY <2>1, <2>3, Zenon DEF AtWork
  <2>5. relay[r].row \in outbox /\ relay[r].row \in received /\ relay[r].row # 0
    BY <2>1, <2>4, ZeroIsNoRow, Zenon DEF RelayInv
  <2>6. \A x \in Relays \ {r} : relay[x].row # new.row
    BY <2>3, <2>5, Zenon DEF RelayInv, EffectsInOrder
  <2>7. /\ dispatched \cap VerdictRows \subseteq received /\ siem' \subseteq received
        /\ received \cup dispatched \subseteq outbox /\ Poison \cap (received \cup dispatched) = {}
    BY <2>1, <2>5, Zenon DEF RelayInv, EffectsInOrder
  <2>8. new.pc \notin {"put", "emit"}
    BY <2>3, Zenon
  <2> QED
    BY <1>1, <2>1, <2>2, <2>3, <2>4, <2>5, <2>6, <2>7, <2>8, HandsKept, Zenon
<1>8. CASE MarkDispatched(r)
  <2> DEFINE new == [relay[r] EXCEPT !.pc = "next", !.row = 0]
  <2>1. /\ relay[r].pc = "mark" /\ dispatched' = dispatched \cup {relay[r].row}
        /\ UNCHANGED <<outbox, received, siem>>
    BY <1>8, Zenon DEF MarkDispatched
  <2>2. relay' = [relay EXCEPT ![r] = new]
    BY <1>8, Zenon DEF MarkDispatched, RelayInv
  <2>3. new \in Draining /\ new.pc \notin AtWork /\ new.row = 0
    BY <1>1, Zenon DEF Draining, AtWork
  <2> HIDE DEF new
  <2>4. new.pc \notin {"put", "emit", "mark"} /\ relay[r].pc \in AtWork
    BY <2>1, <2>3, Zenon DEF AtWork
  <2>5. relay[r].row \in outbox /\ (relay[r].row \in VerdictRows => relay[r].row \in received)
    BY <2>1, <2>4, Zenon DEF RelayInv
  <2>6. relay[r].row # 0
    BY <2>5, ZeroIsNoRow, Zenon DEF RelayInv
  <2>7. \A x \in Relays \ {r} : relay[x].row \notin dispatched'
    BY <1>1, <2>1, <2>6, Zenon DEF RelayInv, EffectsInOrder
  <2>8. new.row \notin dispatched'
    BY <1>1, <2>1, <2>3, <2>6, Zenon
  <2>9. /\ dispatched' \cap VerdictRows \subseteq received /\ siem \subseteq received
        /\ received \cup dispatched' \subseteq outbox /\ Poison \cap (received \cup dispatched') = {}
        /\ dispatched \subseteq dispatched'
    BY <2>1, <2>5, ZeroIsNoRow, Zenon DEF RelayInv, EffectsInOrder
  <2> QED
    BY <2>1, <2>2, <2>3, <2>4, <2>7, <2>8, <2>9, HandsKept, Zenon
<1>9. CASE RelayDies(r)
  <2>1. Resting.pc \notin AtWork /\ Resting.row = 0
    BY DEF Resting, AtWork
  <2> QED
    BY <1>1, <1>2, <1>9, <2>1, Zenon DEF RelayDies
<1> QED
  BY <1>3, <1>4, <1>5, <1>6, <1>7, <1>8, <1>9, Zenon DEF RelayStep

\* A row is sent before it is marked and is nobody else's meanwhile (drain_one,
\* drain_pending_outbox), whatever the replicas, the batch, the refusals and
\* the deaths.
THEOREM SentBeforeMarked == RelaySpec => []EffectsInOrder
<1>1. RelayInit => RelayInv
  <2> SUFFICES ASSUME RelayInit PROVE RelayInv
    OBVIOUS
  <2>1. Resting \in Draining /\ Resting.pc \notin AtWork /\ Resting.pc \notin {"put", "emit", "mark"}
        /\ Resting.row = 0
    BY DEF Resting, Draining, AtWork
  <2>2. relay \in [Relays -> Draining] /\ \A r \in Relays : relay[r] = Resting
    BY <2>1, Zenon DEF RelayInit
  <2>3. outbox = {} /\ dispatched = {} /\ received = {} /\ siem = {}
    BY Zenon DEF RelayInit
  <2>4. EffectsInOrder
    BY <2>1, <2>2, <2>3, Zenon DEF EffectsInOrder
  <2> QED
    BY <2>1, <2>2, <2>3, <2>4, Zenon DEF RelayInv
<1>2. RelayInv /\ [RelayNext]_relayVars => RelayInv'
  <2> SUFFICES ASSUME RelayInv, [RelayNext]_relayVars PROVE RelayInv'
    OBVIOUS
  <2>1. ASSUME NEW o \in Rows, Record(o) PROVE RelayInv'
    <3>1. outbox' = outbox \cup {o} /\ UNCHANGED <<dispatched, received, siem, relay>>
      BY <2>1, Zenon DEF Record
    <3>2. EffectsInOrder'
      BY <3>1, Zenon DEF RelayInv, EffectsInOrder
    <3> QED
      BY <2>1, <3>1, <3>2, Zenon DEF RelayInv
  <2>2. CASE UNCHANGED relayVars
    BY <2>2, Zenon DEF relayVars, RelayInv, EffectsInOrder
  <2> QED
    BY <2>1, <2>2, RelayStepKeeps, Zenon DEF RelayNext
<1>3. RelayInv => EffectsInOrder
  BY Zenon DEF RelayInv
<1> QED
  BY <1>1, <1>2, <1>3, PTL DEF RelaySpec

-----------------------------------------------------------------------------
(* LoginLockout: callers between a check and its count *)

\* A key with its count and its time to live
Counters == [n : Nat, ttl : 0 .. Window + 1]

\* The callers that have passed the check of a key and not yet counted
Trying(k) == {c \in Callers : caller[c].at = "checked" /\ caller[c].key = k}

\* Types, and only keys of passwords are tried
LockoutTyped ==
    /\ counter \in [WindowKeys -> Counters]
    /\ caller \in [Callers -> [at : {"idle", "checked", "refused"}, key : WindowKeys \cup {"none"}]]
    /\ \A c \in Callers : caller[c].at = "checked" => caller[c].key \in PasswordKeys

\* A key that will expire, or is gone
Bounded(v) == v = Away \/ v.ttl \in 1 .. Window

\* What was counted and what may still be, together
Guesses(k) == counter[k].n + Cardinality(Trying(k)) < Threshold + Cardinality(Callers)

\* The callers that are under way count before they have counted.
LockoutInv == LockoutTyped /\ RefusalIsBounded /\ \A k \in PasswordKeys : Guesses(k)

\* Every script leaves a key that exists with an expiry, INCR adds at most one and
\* a read changes no count.
LEMMA ScriptsBound ==
    ASSUME NEW v \in Counters
    PROVE  /\ IncrInWindow(v) \in Counters /\ IncrInWindow(v).n <= v.n + 1 /\ Bounded(IncrInWindow(v))
           /\ ReadInWindow(v) \in Counters /\ ReadInWindow(v).n = v.n /\ Bounded(ReadInWindow(v))
<1>1. \A w \in Counters : Rearmed(w) \in Counters /\ Rearmed(w).n = w.n /\ Rearmed(w).ttl \in 1 .. Window
  BY LockoutAssumption, SMT DEF Counters, Rearmed, NoExpiry
<1>2. ReadInWindow(v) \in Counters /\ ReadInWindow(v).n = v.n /\ Bounded(ReadInWindow(v))
  BY <1>1, Zenon DEF ReadInWindow, Bounded
<1> DEFINE up == IF v.n < Saturation THEN v.n + 1 ELSE v.n
           w == [v EXCEPT !.n = up]
<1>3. up \in Nat /\ up <= v.n + 1
  BY SMT DEF Counters
<1>4. w \in Counters /\ w.n = up
  BY <1>3, Zenon DEF Counters
<1>5. IncrInWindow(v) = Rearmed(w)
  BY Zenon DEF IncrInWindow
<1> QED
  BY <1>1, <1>2, <1>3, <1>4, <1>5, Zenon DEF Bounded

\* The callers that are trying a key are some of the callers.
LEMMA TryingCounted ==
    /\ \A k : IsFiniteSet(Trying(k)) /\ Cardinality(Trying(k)) \in Nat
    /\ \A k : Cardinality(Trying(k)) <= Cardinality(Callers) /\ Cardinality(Callers) \in Nat
<1>1. \A k : Trying(k) \subseteq Callers
  BY Zenon DEF Trying
<1> QED
  BY <1>1, LockoutAssumption, FS_Subset, FS_CardinalityType, Zenon

\* Guesses stay bounded when no more are counted and no more are under way.
LEMMA FewerTry ==
    ASSUME NEW k, counter[k].n \in Nat, counter'[k].n \in Nat, Guesses(k),
           counter'[k].n <= counter[k].n, Trying(k)' \subseteq Trying(k)
    PROVE  Guesses(k)'
<1>1. Cardinality(Trying(k)') <= Cardinality(Trying(k)) /\ Cardinality(Trying(k)') \in Nat
  BY TryingCounted, FS_Subset, FS_CardinalityType, Zenon
<1> QED
  BY <1>1, TryingCounted, LockoutAssumption, SMT DEF Guesses

\* A step of one caller on a key that leaves the key bounded, and whatever is
\* known of the guesses on it
LEMMA KeyTouched ==
    ASSUME LockoutInv, NEW c \in Callers, NEW k \in WindowKeys, NEW v \in Counters,
           NEW a \in [at : {"idle", "checked", "refused"}, key : WindowKeys \cup {"none"}],
           counter' = [counter EXCEPT ![k] = v], caller' = [caller EXCEPT ![c] = a],
           a.at = "idle" \/ a.key = k, a.at = "checked" => k \in PasswordKeys,
           Bounded(v), k \in PasswordKeys => Guesses(k)'
    PROVE  LockoutInv'
<1>1. LockoutTyped'
  BY Zenon DEF LockoutInv, LockoutTyped
<1>2. /\ counter'[k] = v /\ \A j \in WindowKeys : j # k => counter'[j] = counter[j]
      /\ caller'[c] = a /\ \A d \in Callers : d # c => caller'[d] = caller[d]
  BY Zenon DEF LockoutInv, LockoutTyped
<1>3. RefusalIsBounded'
  <2> SUFFICES ASSUME NEW j \in WindowKeys, RefusedOn(j)' PROVE Bounded(counter'[j])
    BY Zenon DEF RefusalIsBounded, Bounded, Away
  <2>1. CASE j = k
    BY <1>2, <2>1, Zenon
  <2>2. CASE j # k
    <3>1. PICK d \in Callers : caller'[d] = [at |-> "refused", key |-> j]
      BY Zenon DEF RefusedOn
    <3>2. d # c
      <4>1. CASE d = c
        <5>1. a = [at |-> "refused", key |-> j]
          BY <1>2, <3>1, <4>1, Zenon
        <5>2. a.at = "refused" /\ a.key = j
          BY <5>1, SMT
        <5> QED
          BY <2>2, <5>2, SMT
      <4> QED
        BY <4>1, Zenon
    <3>3. RefusedOn(j)
      BY <1>2, <3>1, <3>2, Zenon DEF RefusedOn
    <3> QED
      BY <1>2, <2>2, <3>3, Zenon DEF LockoutInv, RefusalIsBounded, Bounded
  <2> QED
    BY <2>1, <2>2, Zenon
<1>4. ASSUME NEW j \in PasswordKeys PROVE Guesses(j)'
  <2>1. CASE j = k
    BY <2>1, Zenon
  <2>2. CASE j # k
    <3>0. j \in WindowKeys /\ counter'[j] = counter[j]
      BY <1>2, <2>2, Zenon DEF WindowKeys
    <3>1. Trying(j)' \subseteq Trying(j)
      <4> SUFFICES ASSUME NEW d \in Callers, caller'[d].at = "checked", caller'[d].key = j
                   PROVE  d \in Trying(j)
        BY Zenon DEF Trying
      <4>1. d # c
        BY <1>2, <2>2, Zenon
      <4> QED
        BY <1>2, <4>1, Zenon DEF Trying
    <3>2. counter[j].n \in Nat /\ counter[j].n <= counter[j].n
      BY <3>0, SMT DEF LockoutInv, LockoutTyped, Counters
    <3> QED
      BY <3>0, <3>1, <3>2, FewerTry, Zenon DEF LockoutInv
  <2> QED
    BY <2>1, <2>2, Zenon
<1> QED
  BY <1>1, <1>3, <1>4, Zenon DEF LockoutInv

\* A caller that ends its attempt is not trying any more.
LEMMA StopsTrying ==
    ASSUME LockoutInv, NEW c \in Callers, caller' = [caller EXCEPT ![c] = Quiet], NEW k
    PROVE  Trying(k)' = Trying(k) \ {c}
<1>1. caller'[c].at # "checked"
  BY Zenon DEF LockoutInv, LockoutTyped, Quiet
<1>2. \A d \in Callers : d # c => caller'[d] = caller[d]
  BY Zenon DEF LockoutInv, LockoutTyped
<1> QED
  BY <1>1, <1>2, Zenon DEF Trying

\* _is_locked_out lets a caller on only below the threshold, and there is room
\* for every caller above it.
LEMMA CheckBounded ==
    ASSUME LockoutInv, NEW c \in Callers, NEW k \in WindowKeys, CheckLockout(c, k)
    PROVE  LockoutInv'
<1> DEFINE v == ReadInWindow(counter[k])
           a == [at |-> IF counter[k].n >= Threshold THEN "refused" ELSE "checked", key |-> k]
<1>1. /\ k \in PasswordKeys /\ caller[c] = Quiet
      /\ counter' = [counter EXCEPT ![k] = v] /\ caller' = [caller EXCEPT ![c] = a]
  BY Zenon DEF CheckLockout
<1>2. counter[k] \in Counters /\ counter[k].n \in Nat
  BY Zenon DEF LockoutInv, LockoutTyped, Counters
<1>3. v \in Counters /\ v.n = counter[k].n /\ Bounded(v)
  BY <1>2, ScriptsBound, Zenon
<1>4. counter'[k] = v /\ caller'[c] = a /\ \A d \in Callers : d # c => caller'[d] = caller[d]
  BY <1>1, Zenon DEF LockoutInv, LockoutTyped
<1>5. Guesses(k)'
  <2>1. CASE counter[k].n >= Threshold
    <3>0. a.at = "refused"
      BY <2>1, SMT
    <3>1. Trying(k)' \subseteq Trying(k)
      BY <1>4, <3>0, Zenon DEF Trying
    <3>2. counter'[k].n \in Nat /\ counter'[k].n <= counter[k].n
      BY <1>2, <1>3, <1>4, SMT
    <3> QED
      BY <1>1, <1>2, <3>1, <3>2, FewerTry, Zenon DEF LockoutInv
  <2>2. CASE ~(counter[k].n >= Threshold)
    <3>1. Trying(k)' \subseteq Callers
      BY Zenon DEF Trying
    <3>2. /\ Cardinality(Trying(k)') <= Cardinality(Callers) /\ Cardinality(Trying(k)') \in Nat
          /\ Cardinality(Callers) \in Nat
      BY <3>1, LockoutAssumption, FS_Subset, FS_CardinalityType, Zenon
    <3>3. counter'[k].n = counter[k].n
      BY <1>3, <1>4, Zenon
    <3> QED
      BY <1>2, <2>2, <3>2, <3>3, LockoutAssumption, SMT DEF Guesses
  <2> QED
    BY <2>1, <2>2, Zenon
<1>6. a \in [at : {"idle", "checked", "refused"}, key : WindowKeys \cup {"none"}] /\ a.key = k
  BY SMT
<1> HIDE DEF v, a
<1> QED
  BY <1>1, <1>3, <1>5, <1>6, KeyTouched, Zenon

\* _record_failure counts what was under way.
LEMMA WrongBounded ==
    ASSUME LockoutInv, NEW c \in Callers, WrongPassword(c) PROVE LockoutInv'
<1> DEFINE k == caller[c].key
           v == IncrInWindow(counter[k])
<1>1. /\ caller[c].at = "checked" /\ k \in PasswordKeys /\ k \in WindowKeys
      /\ counter' = [counter EXCEPT ![k] = v] /\ caller' = [caller EXCEPT ![c] = Quiet]
  BY Zenon DEF WrongPassword, LockoutInv, LockoutTyped, WindowKeys
<1>2. PICK j \in PasswordKeys : j = k
  BY <1>1, Zenon
<1>3. counter[j] \in Counters /\ counter[j].n \in Nat /\ j \in WindowKeys
  BY <1>1, <1>2, Zenon DEF LockoutInv, LockoutTyped, Counters
<1>4. v \in Counters /\ v.n <= counter[j].n + 1 /\ Bounded(v) /\ v.n \in Nat
  BY <1>2, <1>3, ScriptsBound, Zenon DEF Counters
<1>5. counter'[j] = v
  BY <1>1, <1>2, Zenon DEF LockoutInv, LockoutTyped
<1>6. c \in Trying(j) /\ Trying(j)' = Trying(j) \ {c}
  <2>1. c \in Trying(j)
    BY <1>1, <1>2, Zenon DEF Trying
  <2>2. Trying(j)' = Trying(j) \ {c}
    BY <1>1, StopsTrying, Zenon
  <2> QED
    BY <2>1, <2>2, Zenon
<1>7. Cardinality(Trying(j)') = Cardinality(Trying(j)) - 1
  <2>1. Cardinality(Trying(j) \ {c}) = Cardinality(Trying(j)) - 1
    BY <1>6, TryingCounted, FS_RemoveElement, Zenon
  <2> QED
    BY <1>6, <2>1, Zenon
<1>8. Guesses(j)'
  <2>1. Guesses(j)
    BY Zenon DEF LockoutInv
  <2>2. Cardinality(Trying(j)) \in Nat /\ Cardinality(Callers) \in Nat
    BY TryingCounted, Zenon
  <2> QED
    BY <1>3, <1>4, <1>5, <1>7, <2>1, <2>2, LockoutAssumption, SMT DEF Guesses
<1>9. Quiet \in [at : {"idle", "checked", "refused"}, key : WindowKeys \cup {"none"}] /\ Quiet.at = "idle"
  BY SMT DEF Quiet
<1> HIDE DEF v
<1> QED
  BY <1>1, <1>2, <1>3, <1>4, <1>8, <1>9, KeyTouched, Zenon

\* A caller goes and the counters stay.
LEMMA CallerGoes ==
    ASSUME LockoutInv, NEW c \in Callers, caller' = [caller EXCEPT ![c] = Quiet], UNCHANGED counter
    PROVE  LockoutInv'
<1>0. Quiet \in [at : {"idle", "checked", "refused"}, key : WindowKeys \cup {"none"}] /\ Quiet.at = "idle"
  BY SMT DEF Quiet
<1>1. LockoutTyped'
  BY <1>0, SMT DEF LockoutInv, LockoutTyped
<1>2. \A k \in WindowKeys : RefusedOn(k)' => RefusedOn(k)
  <2> SUFFICES ASSUME NEW k \in WindowKeys, NEW d \in Callers, caller'[d] = [at |-> "refused", key |-> k]
               PROVE  caller[d] = [at |-> "refused", key |-> k]
    BY Zenon DEF RefusedOn
  <2>1. caller'[d].at = "refused"
    BY SMT
  <2> QED
    BY <1>0, <2>1, SMT DEF LockoutInv, LockoutTyped
<1>3. ASSUME NEW k \in PasswordKeys PROVE Guesses(k)'
  <2>1. Trying(k)' \subseteq Trying(k)
    BY StopsTrying, Zenon
  <2>2. counter'[k] = counter[k] /\ counter[k].n \in Nat /\ counter[k].n <= counter[k].n
    BY SMT DEF LockoutInv, LockoutTyped, Counters, WindowKeys
  <2> QED
    BY <2>1, <2>2, FewerTry, Zenon DEF LockoutInv
<1> QED
  BY <1>1, <1>2, <1>3, Zenon DEF LockoutInv, RefusalIsBounded, Away

\* A success clears the counter.
LEMMA RightBounded ==
    ASSUME LockoutInv, NEW c \in Callers, RightPassword(c) PROVE LockoutInv'
<1>1. PICK k \in PasswordKeys : k = caller[c].key
  BY Zenon DEF RightPassword, LockoutInv, LockoutTyped
<1>2. counter' = [counter EXCEPT ![k] = Away] /\ caller' = [caller EXCEPT ![c] = Quiet] /\ k \in WindowKeys
  BY <1>1, Zenon DEF RightPassword, WindowKeys
<1>3. Quiet \in [at : {"idle", "checked", "refused"}, key : WindowKeys \cup {"none"}] /\ Quiet.at = "idle"
  BY SMT DEF Quiet
<1>4. Away \in Counters /\ Away.n = 0 /\ Bounded(Away)
  BY LockoutAssumption, SMT DEF Away, Counters, Bounded
<1>5. counter'[k] = Away /\ counter[k].n \in Nat
  BY <1>2, Zenon DEF LockoutInv, LockoutTyped, Counters
<1>6. Guesses(k)'
  <2>1. Trying(k)' \subseteq Trying(k)
    BY <1>2, StopsTrying, Zenon
  <2>2. counter'[k].n \in Nat /\ counter'[k].n <= counter[k].n
    BY <1>4, <1>5, SMT
  <2> QED
    BY <1>5, <2>1, <2>2, FewerTry, Zenon DEF LockoutInv
<1> QED
  BY <1>2, <1>3, <1>4, <1>6, KeyTouched, Zenon

\* A poll is counted, with or without an answer, on a key of its own.
LEMMA PollBounded ==
    ASSUME LockoutInv, NEW c \in Callers, NEW k \in WindowKeys, Poll(c, k) PROVE LockoutInv'
<1> DEFINE v == IncrInWindow(counter[k])
           a == IF v.n > PollLimit THEN [at |-> "refused", key |-> k] ELSE Quiet
<1>1. /\ k \in PollKeys /\ counter' = [counter EXCEPT ![k] = v] /\ caller' = [caller EXCEPT ![c] = a]
  BY Zenon DEF Poll
<1>2. k \notin PasswordKeys
  BY <1>1, LockoutAssumption, Zenon DEF PasswordKeys
<1>3. v \in Counters /\ Bounded(v)
  BY ScriptsBound, Zenon DEF LockoutInv, LockoutTyped
<1>4. a \in [at : {"idle", "checked", "refused"}, key : WindowKeys \cup {"none"}]
  BY SMT DEF Quiet
<1>5. (a.at = "idle" \/ a.key = k) /\ a.at # "checked"
  BY SMT DEF Quiet
<1> HIDE DEF v, a
<1> QED
  BY <1>1, <1>2, <1>3, <1>4, <1>5, KeyTouched, Zenon

\* Redis' clock takes keys away and adds to none.
LEMMA TickBounded ==
    ASSUME LockoutInv, WindowTick PROVE LockoutInv'
<1>1. \A k \in WindowKeys : counter[k] \in Counters
  BY Zenon DEF LockoutInv, LockoutTyped
<1>2. ASSUME NEW k \in WindowKeys
      PROVE  /\ counter'[k] \in Counters /\ counter'[k].n <= counter[k].n
             /\ Bounded(counter[k]) => Bounded(counter'[k])
  <2>1. counter'[k] = CASE counter[k].ttl = 1 -> Away
                        [] counter[k].ttl \in 2 .. Window -> [counter[k] EXCEPT !.ttl = @ - 1]
                        [] OTHER -> counter[k]
    BY Zenon DEF WindowTick
  <2>2. PICK v \in Counters : v = counter[k]
    BY <1>1, Zenon
  <2>3. Away \in Counters /\ Away.n = 0 /\ Away.ttl = 0
    BY LockoutAssumption, SMT DEF Away, Counters
  <2>4. CASE v.ttl = 1
    <3>1. counter'[k] = Away
      BY <2>1, <2>2, <2>4, SMT
    <3> QED
      BY <2>2, <2>3, <3>1, SMT DEF Bounded, Counters
  <2>5. CASE v.ttl \in 2 .. Window
    <3>1. counter'[k] = [v EXCEPT !.ttl = v.ttl - 1]
      BY <2>1, <2>2, <2>5, SMT
    <3>2. v.ttl - 1 \in 1 .. Window /\ v.ttl - 1 \in 0 .. Window + 1 /\ v.n \in Nat
      BY <2>5, LockoutAssumption, SMT DEF Counters
    <3>3. counter'[k] \in Counters /\ counter'[k].n = v.n /\ counter'[k].ttl = v.ttl - 1
      BY <3>1, <3>2, Zenon DEF Counters
    <3> QED
      BY <2>2, <3>2, <3>3, SMT DEF Bounded
  <2>6. CASE v.ttl # 1 /\ v.ttl \notin 2 .. Window
    <3>1. counter'[k] = v
      BY <2>1, <2>2, <2>6, SMT
    <3> QED
      BY <2>2, <3>1, SMT DEF Counters
  <2> QED
    BY <2>4, <2>5, <2>6, Zenon
<1>3. LockoutTyped'
  <2>1. counter' \in [WindowKeys -> Counters]
    BY <1>2, Zenon DEF WindowTick
  <2> QED
    BY <2>1, Zenon DEF LockoutInv, LockoutTyped, WindowTick
<1>4. RefusalIsBounded'
  BY <1>2, Zenon DEF LockoutInv, RefusalIsBounded, RefusedOn, Bounded, WindowTick, Away
<1>5. ASSUME NEW k \in PasswordKeys PROVE Guesses(k)'
  <2>1. k \in WindowKeys /\ Trying(k)' \subseteq Trying(k)
    BY Zenon DEF WindowTick, Trying, WindowKeys
  <2>2. counter[k].n \in Nat /\ counter'[k].n \in Nat
    BY <1>1, <1>2, <2>1, Zenon DEF Counters
  <2> QED
    BY <1>2, <2>1, <2>2, FewerTry, Zenon DEF LockoutInv
<1> QED
  BY <1>3, <1>4, <1>5, Zenon DEF LockoutInv

\* Nobody is at work, and a counter that was stranded is at the limit.
LEMMA LockoutInitially == LockoutInit => LockoutInv
<1> SUFFICES ASSUME LockoutInit PROVE LockoutInv
  OBVIOUS
<1>1. \A c \in Callers : caller[c] = Quiet
  BY Zenon DEF LockoutInit
<1>2. ASSUME NEW k \in WindowKeys
      PROVE  /\ counter[k] \in Counters
             /\ k \in PasswordKeys => counter[k].n <= Threshold
  <2>1. counter[k] = Away \/ counter[k] = [n |-> IF k \in PollKeys THEN PollLimit + 1 ELSE Threshold,
                                           ttl |-> NoExpiry]
    BY Zenon DEF LockoutInit
  <2>2. k \in PasswordKeys => k \notin PollKeys
    BY LockoutAssumption, Zenon DEF PasswordKeys
  <2> QED
    BY <2>1, <2>2, LockoutAssumption, SMT DEF Counters, Away, NoExpiry
<1>3. LockoutTyped
  <2>1. counter \in [WindowKeys -> Counters]
    <3>1. counter = [k \in WindowKeys |-> counter[k]]
      BY Zenon DEF LockoutInit
    <3> QED
      BY <1>2, <3>1, Zenon
  <2>2. caller \in [Callers -> [at : {"idle", "checked", "refused"}, key : WindowKeys \cup {"none"}]]
    BY SMT DEF LockoutInit, Quiet
  <2>3. Quiet.at # "checked"
    BY SMT DEF Quiet
  <2> QED
    BY <1>1, <2>1, <2>2, <2>3, Zenon DEF LockoutTyped
<1>4. RefusalIsBounded
  <2>1. Quiet.at # "refused" /\ \A k : [at |-> "refused", key |-> k].at = "refused"
    BY SMT DEF Quiet
  <2> QED
    BY <1>1, <2>1, Zenon DEF RefusalIsBounded, RefusedOn
<1>5. ASSUME NEW k \in PasswordKeys PROVE Guesses(k)
  <2>1. Quiet.at # "checked"
    BY SMT DEF Quiet
  <2>2. Trying(k) = {}
    BY <1>1, <2>1, Zenon DEF Trying
  <2>3. Cardinality(Trying(k)) = 0
    BY <2>2, FS_EmptySet, Zenon
  <2>4. Cardinality(Callers) \in Nat /\ Cardinality(Callers) # 0
    BY LockoutAssumption, FS_CardinalityType, FS_EmptySet, Zenon
  <2>5. k \in WindowKeys
    BY Zenon DEF WindowKeys
  <2>6. counter[k].n \in Nat /\ counter[k].n <= Threshold
    BY <1>2, <2>5, Zenon DEF Counters
  <2> QED
    BY <2>3, <2>4, <2>6, LockoutAssumption, SMT DEF Guesses
<1> QED
  BY <1>3, <1>4, <1>5, Zenon DEF LockoutInv

\* Every step of the callers and of the clock keeps both bounds.
LEMMA LockoutKeeps ==
    ASSUME LockoutInv, [LockoutNext]_lockoutVars PROVE LockoutInv'
<1>1. CASE UNCHANGED lockoutVars
  <2>1. UNCHANGED counter /\ UNCHANGED caller
    BY <1>1, Zenon DEF lockoutVars
  <2>2. \A k : Trying(k)' = Trying(k)
    BY <2>1, Zenon DEF Trying
  <2> QED
    BY <2>1, <2>2, Zenon DEF LockoutInv, LockoutTyped, RefusalIsBounded, RefusedOn, Guesses
<1>2. CASE WindowTick
  BY <1>2, TickBounded, Zenon
<1>3. ASSUME NEW c \in Callers, CallerStep(c) PROVE LockoutInv'
  <2>1. CASE NotAllowlisted(c) \/ TurnedAway(c)
    BY <2>1, CallerGoes, Zenon DEF NotAllowlisted, TurnedAway
  <2> QED
    BY <1>3, <2>1, CheckBounded, PollBounded, WrongBounded, RightBounded, Zenon DEF CallerStep
<1> QED
  BY <1>1, <1>2, <1>3, Zenon DEF LockoutNext

\* Both bounds hold in every reachable state.
LEMMA LockoutAlways == LockoutSpec => []LockoutInv
  BY LockoutInitially, LockoutKeeps, PTL DEF LockoutSpec

\* No refusal without a bound: for any keys, callers, limits and window, whoever
\* was turned away leaves a counter that expires or is gone.
THEOREM RefusalsAreBounded == LockoutSpec => []RefusalIsBounded
<1>1. LockoutInv => RefusalIsBounded
  BY Zenon DEF LockoutInv
<1> QED
  BY <1>1, LockoutAlways, PTL

\* However many requests race between the check and the count, the wrong passwords
\* counted for an account stay below the threshold plus the requests in flight.
THEOREM GuessesStayBounded == LockoutSpec => []GuessesAreBounded
<1>1. LockoutInv => GuessesAreBounded
  <2> SUFFICES ASSUME LockoutInv, NEW k \in PasswordKeys
               PROVE  counter[k].n < Threshold + Cardinality(Callers)
    BY Zenon DEF GuessesAreBounded
  <2>1. Guesses(k) /\ counter[k].n \in Nat
    BY Zenon DEF LockoutInv, LockoutTyped, Counters, WindowKeys
  <2> QED
    BY <2>1, TryingCounted, LockoutAssumption, SMT DEF Guesses
<1> QED
  BY <1>1, LockoutAlways, PTL
=============================================================================
