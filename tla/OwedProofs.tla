------------------------------ MODULE OwedProofs ------------------------------
(***************************************************************************)
(* A running scan of ScanPipeline is owed a step by somebody, for any      *)
(* number of scans, engines, workers, collectors, redeliveries, exceptions *)
(* and deaths.                                                             *)
(***************************************************************************)
EXTENDS ScanPipelineProofs

\* Steps that name no prover are for Zenon.
USE Zenon

\* An entry of the scans stream that a group or a worker still has
Outstanding(m) ==
    \/ \E g \in Groups : m \in Live(scansG[g])
    \/ \E w \in Workers : m \in wk[w].held \/ m = wk[w].cur

\* A scan that nobody will ever have to score again
Closed(s) == job[s] \in {"rolledback", "scored", "decided", "failed"}

\* A terminal status is announced and not acknowledged.
TerminalDue(s) == \E m \in Live(resG) : m[1] = s /\ m[2] \in Terminal

\* Every collector that has the entry has all it requires of its scan, and has
\* the scan before it or will leave the entry unacknowledged.
Counts(m) ==
    \A c \in Collectors : m \in held[c] =>
        /\ req[c] \subseteq blob[m[1]]
        /\ m[1] \in todo[c] \/ m[1] = cur[c] \/ m[1] \in bad[c]

\* An entry is there that will make a collector score the scan.
AnswerDue(s) ==
    /\ Policies[policy] \subseteq blob[s]
    /\ \E m \in Live(resG) : m[1] = s /\ Counts(m)

\* The floor has done its part: what remains is a collector's or the wait's.
Settled(s) == Closed(s) \/ wait[s] # "null" \/ TerminalDue(s) \/ AnswerDue(s)

\* An entry with engines to run is unacknowledged.
JobDue(s) == \E m \in Live(scansG["floor"]) : m[1] = s /\ engines[m] # {}

\* The scan exists and somebody has still to act on it, or need not.
Owed(s) == job[s] # "absent" /\ (Settled(s) \/ JobDue(s))

\* What is owed to the scan of an entry that is on its way
EntryOwes(m) ==
    /\ job[m[1]] # "absent"
    /\ Policies[policy] \subseteq engines[m]
    /\ engines[m] # {} => Owed(m[1])

\* What a floor worker has left behind of the job in hand: what it has not
\* stored it still has to run, and when there is nothing left to do the scan is
\* settled.
WorkerOwes(w) ==
    wk[w].pc \in {"run", "send"} =>
        /\ wk[w].tag \in Terminal =>
              wk[w].todo = {} /\ (wk[w].pc = "run" => Settled(wk[w].cur[1]))
        /\ wk[w].tag \notin Terminal =>
              /\ engines[wk[w].cur] \subseteq blob[wk[w].cur[1]] \cup wk[w].todo
              /\ wk[w].pc = "run" /\ wk[w].todo = {} /\ engines[wk[w].cur] # {} =>
                    Settled(wk[w].cur[1])

\* A collector's scans are owed something; a terminal status it has in hand was
\* acted upon, or will be, or stays unacknowledged.
CollectorOwes(c) ==
    /\ \A s \in Scans : s \in todo[c] \/ s = cur[c] => Owed(s)
    /\ pc[c] \notin AtScan => cur[c] = NoScan
    /\ pc[c] \in {"idle", "ack"} => todo[c] = {}
    /\ pc[c] = "idle" \/ mode[c] = "force" => held[c] = {}
    /\ \A m \in held[c] : m[2] \in Terminal =>
          \/ m[1] \in todo[c] \/ m[1] \in bad[c] \/ Closed(m[1])
          \/ m[1] = cur[c] /\ pc[c] \in {"deadCheck", "gateDead", "markFailed"}

\* Entries that went stale are pending.
StaleOK(g) == g.idle \subseteq g.pend

\* Every running scan, every entry on its way and every actor at work is
\* accounted for.
OwedInv ==
    /\ StaleOK(resG) /\ \A g \in Groups : StaleOK(scansG[g])
    /\ \A s \in Scans : job[s] = "running" => Owed(s)
    /\ \A m \in ScanMsgs : Outstanding(m) => EntryOwes(m)
    /\ \A m \in Live(resG) : Owed(m[1])
    /\ \A w \in FloorWorkers : WorkerOwes(w)
    /\ \A c \in Collectors : CollectorOwes(c)

\* Successive policies require ever fewer engines.
PoliciesShrink == \A i, j \in PolicyIds : i <= j => Policies[j] \subseteq Policies[i]

\* No entries, no scans.
LEMMA InitOwed == Init => OwedInv
  <1> SUFFICES ASSUME Init PROVE OwedInv
    OBVIOUS
  <1>0. StaleOK(resG) /\ \A g \in Groups : StaleOK(scansG[g])
    BY SMT DEF Init, StaleOK, EmptyGroup
  <1>1. Live(resG) = {} /\ \A g \in Groups : Live(scansG[g]) = {}
    BY SMT DEF Init, Live, EmptyGroup
  <1>2. \A m \in ScanMsgs : ~Outstanding(m)
    BY <1>1, ConstantsAssumption DEF Init, Outstanding, IdleWorker
  <1>3. \A w \in FloorWorkers : WorkerOwes(w)
    <2>1. \A w \in FloorWorkers : wk[w].pc = "idle"
      BY DEF Init, Workers, IdleWorker
    <2> QED
      BY <2>1 DEF WorkerOwes
  <1>4. \A c \in Collectors : CollectorOwes(c)
    BY ConstantsAssumption DEF Init, CollectorOwes
  <1>5. \A s \in Scans : job[s] # "running"
    BY DEF Init
  <1> QED
    BY <1>0, <1>1, <1>2, <1>3, <1>4, <1>5 DEF OwedInv

\* What the operations on a group leave unacknowledged
LEMMA LiveAfter ==
    ASSUME NEW Msgs, NEW g \in Group(Msgs), NEW m \in Msgs
    PROVE  /\ Live(Produced(g, m)) = Live(g) \cup {m}
           /\ Live(Claimed(g)) = Live(g)
           /\ Live(WentIdle(g, m)) = Live(g)
           /\ Live(Acked(g, m)) \subseteq Live(g)
           /\ Live(g) \ {m} \subseteq Live(Acked(g, m))
           /\ Live(g) \subseteq Msgs
           /\ StaleOK(g) =>
                 /\ Claimable(g) \subseteq Live(g)
                 /\ StaleOK(Produced(g, m)) /\ StaleOK(Claimed(g)) /\ StaleOK(Acked(g, m))
                 /\ m \in g.pend => StaleOK(WentIdle(g, m))
  <1>1. Live(Produced(g, m)) = Live(g) \cup {m}
    BY DEF Live, Produced, Group
  <1>2. Live(Claimed(g)) = Live(g)
    BY DEF Live, Claimed
  <1>3. Live(WentIdle(g, m)) = Live(g)
    BY DEF Live, WentIdle, Group
  <1>4. Live(Acked(g, m)) \subseteq Live(g) /\ Live(g) \ {m} \subseteq Live(Acked(g, m))
    BY DEF Live, Acked, Group
  <1>5. Live(g) \subseteq Msgs
    BY DEF Live, Group
  <1>6. ASSUME StaleOK(g)
        PROVE  /\ Claimable(g) \subseteq Live(g)
               /\ StaleOK(Produced(g, m)) /\ StaleOK(Claimed(g)) /\ StaleOK(Acked(g, m))
               /\ m \in g.pend => StaleOK(WentIdle(g, m))
    <2>1. Claimable(g) \subseteq Live(g)
      BY <1>6 DEF StaleOK, Live, Claimable
    <2>2. StaleOK(Produced(g, m)) /\ StaleOK(Claimed(g))
      BY <1>6 DEF StaleOK, Produced, Claimed, Group
    <2>3. StaleOK(Acked(g, m))
      BY <1>6 DEF StaleOK, Acked, Group
    <2>4. m \in g.pend => StaleOK(WentIdle(g, m))
      BY <1>6 DEF StaleOK, WentIdle, Group
    <2> QED
      BY <2>1, <2>2, <2>3, <2>4
  <1> QED
    BY <1>1, <1>2, <1>3, <1>4, <1>5, <1>6

\* A settled scan stays settled in a step that keeps what settled it.
LEMMA SettledKept ==
    ASSUME NEW s \in Scans, Settled(s),
           Closed(s) => Closed(s)',
           wait[s] # "null" => wait'[s] # "null",
           TerminalDue(s) => TerminalDue(s)' \/ Closed(s)',
           Policies[policy'] \subseteq Policies[policy], blob[s] \subseteq blob'[s],
           \A m \in Live(resG) : m[1] = s /\ Counts(m) /\ Policies[policy] \subseteq blob[s] =>
               (m \in Live(resG') /\ Counts(m)') \/ Closed(s)' \/ wait'[s] # "null"
    PROVE  Settled(s)'
  <1>1. CASE AnswerDue(s)
    <2>1. PICK m \in Live(resG) : m[1] = s /\ Counts(m) /\ Policies[policy] \subseteq blob[s]
      BY <1>1 DEF AnswerDue
    <2>2. CASE m \in Live(resG') /\ Counts(m)'
      <3>1. Policies[policy'] \subseteq blob'[s]
        BY <1>1 DEF AnswerDue
      <3> QED
        BY <2>1, <2>2, <3>1 DEF Settled, AnswerDue, Live
    <2> QED
      BY <2>1, <2>2 DEF Settled
  <1>2. CASE ~AnswerDue(s)
    BY <1>2 DEF Settled
  <1> QED
    BY <1>1, <1>2, SMT

-----------------------------------------------------------------------------
(* Steps of one collector.                                                 *)

\* The other collectors do nothing.
Bystanders(c) ==
    \A d \in Collectors \ {c} :
        /\ pc'[d] = pc[d] /\ held'[d] = held[d] /\ todo'[d] = todo[d] /\ cur'[d] = cur[d]
        /\ bad'[d] = bad[d] /\ mode'[d] = mode[d] /\ req'[d] = req[d]

\* What no step of a collector takes back; it starts no scan but the one in hand.
Onward(c) ==
    \A s \in Scans :
        /\ Closed(s) => Closed(s)'
        /\ job[s] # "absent" => job'[s] # "absent"
        /\ job'[s] = "running" => job[s] = "running" \/ s = cur[c]
        /\ wait[s] # "null" => wait'[s] # "null"

\* A collector acts upon a terminal status.
DeadPC == {"deadCheck", "gateDead", "markFailed"}

\* The invariant after a step of one collector that leaves the scans stream
\* alone, adds no result and settles what was settled
LEMMA CollectorGlue ==
    ASSUME OwedInv, Typed, NEW c \in Collectors, Bystanders(c), Onward(c),
           UNCHANGED <<scansG, engines, blob, wk, policy>>,
           Live(resG') \subseteq Live(resG), StaleOK(resG'),
           \A s \in Scans : Settled(s) => Settled(s)',
           \A s \in Scans : s \in todo'[c] \/ s = cur'[c] => Owed(s),
           pc'[c] \notin AtScan => cur'[c] = NoScan,
           pc'[c] \in {"idle", "ack"} => todo'[c] = {},
           pc'[c] = "idle" \/ mode'[c] = "force" => held'[c] = {},
           \A m \in held'[c] : m[2] \in Terminal =>
              \/ m[1] \in todo'[c] \/ m[1] \in bad'[c] \/ Closed(m[1])'
              \/ m[1] = cur'[c] /\ pc'[c] \in DeadPC
    PROVE  OwedInv'
  <1>1. \A s \in Scans : Owed(s) => Owed(s)'
    BY DEF Owed, JobDue, Onward, Live
  <1>2. \A s \in Scans : job'[s] = "running" => Owed(s)'
    BY <1>1 DEF OwedInv, Onward, CollectorOwes
  <1>3. \A m \in ScanMsgs : m[1] \in Scans
    BY SMT DEF ScanMsgs
  <1>4. ASSUME NEW m \in ScanMsgs, Outstanding(m)' PROVE EntryOwes(m)'
    <2>1. Outstanding(m)
      BY <1>4 DEF Outstanding, Live
    <2> QED
      BY <1>1, <1>3, <2>1 DEF OwedInv, EntryOwes, Onward
  <1>5. \A m \in Live(resG') : Owed(m[1])'
    <2>1. \A m \in Live(resG) : m[1] \in Scans
      BY SMT DEF Typed, TypeOK, Live, Group, ResMsgs
    <2> QED
      BY <1>1, <2>1 DEF OwedInv
  <1>6. ASSUME NEW w \in FloorWorkers PROVE WorkerOwes(w)'
    <2>1. wk[w].pc \in {"run", "send"} => wk[w].cur[1] \in Scans
      BY <1>3 DEF Typed, CursorOK, Workers
    <2> QED
      BY <2>1 DEF OwedInv, WorkerOwes
  <1>7. ASSUME NEW d \in Collectors \ {c} PROVE CollectorOwes(d)'
    <2>1. \A m \in held[d] : m[1] \in Scans
      BY SMT DEF Typed, TypeOK, ResMsgs
    <2>2. CollectorOwes(d) /\ \A s \in Scans : Closed(s) => Closed(s)'
      BY DEF OwedInv, Onward
    <2> QED
      BY <1>1, <2>1, <2>2 DEF CollectorOwes, Bystanders
  <1>8. CollectorOwes(c)'
    BY <1>1 DEF CollectorOwes, DeadPC
  <1>9. \A m \in Live(resG)' : Owed(m[1])'
    BY <1>5 DEF Live
  <1>10. StaleOK(resG)' /\ \A g \in Groups : StaleOK(scansG[g])'
    BY DEF OwedInv, StaleOK
  <1> QED
    BY <1>2, <1>4, <1>6, <1>7, <1>8, <1>9, <1>10 DEF OwedInv

\* A step of one collector after which it has forgotten its batch, or still has
\* before it, or left unacknowledged, what it has not settled
LEMMA CollectorSettles ==
    ASSUME Typed, NEW c \in Collectors, Bystanders(c), Onward(c), UNCHANGED <<blob, policy>>,
           Live(resG') = Live(resG),
           \/ held'[c] = {}
           \/ /\ held'[c] = held[c] /\ req'[c] = req[c]
              /\ \A s \in Scans :
                    s \in todo[c] \/ s = cur[c] \/ s \in bad[c] =>
                       \/ s \in todo'[c] \/ s = cur'[c] \/ s \in bad'[c]
                       \/ Closed(s)' \/ wait'[s] # "null" \/ ~ req[c] \subseteq blob[s],
           NEW s \in Scans, Settled(s)
    PROVE  Settled(s)'
  <1>1. TerminalDue(s) => TerminalDue(s)'
    BY DEF TerminalDue, Live
  <1>2. ASSUME NEW m \in Live(resG), m[1] = s, Counts(m), ~Closed(s)', wait'[s] = "null"
        PROVE  Counts(m)'
    <2>1. \A d \in Collectors \ {c} : m \in held'[d] => 
             /\ req'[d] \subseteq blob'[m[1]]
             /\ m[1] \in todo'[d] \/ m[1] = cur'[d] \/ m[1] \in bad'[d]
      BY <1>2 DEF Counts, Bystanders
    <2>2. m \in held'[c] =>
             /\ req'[c] \subseteq blob'[m[1]]
             /\ m[1] \in todo'[c] \/ m[1] = cur'[c] \/ m[1] \in bad'[c]
      BY <1>2 DEF Counts
    <2> QED
      BY <2>1, <2>2 DEF Counts
  <1>3. Closed(s) => Closed(s)'
    BY DEF Onward
  <1>4. wait[s] # "null" => wait'[s] # "null"
    BY DEF Onward
  <1> QED
    BY <1>1, <1>2, <1>3, <1>4, SettledKept

\* A collector lets go of the scan in hand: it has closed it or started its wait,
\* or lacks a required engine, or leaves the entries unacknowledged.
LEMMA LetsGo ==
    ASSUME OwedInv, Typed, NEW c \in Collectors, Onward(c),
           UNCHANGED <<scansG, engines, blob, wk, policy, resG, held, todo, mode, req>>,
           NextScan(c), pc[c] \in AtScan, NEW z \in Scans, z = cur[c],
           \/ UNCHANGED bad /\ Closed(z)'
           \/ /\ UNCHANGED bad /\ pc[c] \notin DeadPC
              /\ wait'[z] # "null" \/ ~ req[c] \subseteq blob[z]
           \/ bad' = [bad EXCEPT ![c] = IF mode[c] = "tick" THEN @ \cup {cur[c]} ELSE @]
    PROVE  OwedInv'
  <1>0. ColOK /\ NoScan \notin Scans
    BY TypedParts, ConstantsAssumption
  <1>1. cur'[c] = NoScan /\ pc'[c] = (IF todo[c] # {} THEN "pick" ELSE "ack")
    BY <1>0 DEF NextScan, ColOK
  <1>2. \A d \in Collectors \ {c} : pc'[d] = pc[d] /\ cur'[d] = cur[d] /\ bad'[d] = bad[d]
    BY <1>0 DEF NextScan, ColOK
  <1>3. Bystanders(c)
    BY <1>2 DEF Bystanders
  <1>4. CollectorOwes(c)
    BY DEF OwedInv
  <1>5. mode[c] \in {"tick", "force"} /\ bad[c] \subseteq bad'[c]
    <2>1. CASE UNCHANGED bad
      BY <1>0, <2>1 DEF ColOK
    <2>2. CASE bad' = [bad EXCEPT ![c] = IF mode[c] = "tick" THEN @ \cup {cur[c]} ELSE @]
      <3>1. bad'[c] = IF mode[c] = "tick" THEN bad[c] \cup {cur[c]} ELSE bad[c]
        BY <1>0, <2>2 DEF ColOK
      <3> QED
        BY <1>0, <3>1 DEF ColOK
    <2> QED
      BY <2>1, <2>2
  <1>6. \/ z \in bad'[c] \/ held[c] = {} \/ Closed(z)'
        \/ pc[c] \notin DeadPC /\ (wait'[z] # "null" \/ ~ req[c] \subseteq blob[z])
    <2>1. CASE bad' = [bad EXCEPT ![c] = IF mode[c] = "tick" THEN @ \cup {cur[c]} ELSE @]
      <3>1. mode[c] = "tick" => z \in bad'[c]
        BY <1>0, <2>1 DEF ColOK
      <3> QED
        BY <1>4, <1>5, <3>1 DEF CollectorOwes
    <2> QED
      BY <2>1
  <1>7. \A s \in Scans : Settled(s) => Settled(s)'
    <2>1. \/ held'[c] = {}
          \/ /\ held'[c] = held[c] /\ req'[c] = req[c]
             /\ \A s \in Scans :
                   s \in todo[c] \/ s = cur[c] \/ s \in bad[c] =>
                      \/ s \in todo'[c] \/ s = cur'[c] \/ s \in bad'[c]
                      \/ Closed(s)' \/ wait'[s] # "null" \/ ~ req[c] \subseteq blob[s]
      <3>1. CASE held[c] = {}
        BY <3>1
      <3>2. CASE held[c] # {}
        <4>1. z \in bad'[c] \/ Closed(z)' \/ wait'[z] # "null" \/ ~ req[c] \subseteq blob[z]
          BY <1>6, <3>2
        <4>2. ASSUME NEW s \in Scans, s \in todo[c] \/ s = cur[c] \/ s \in bad[c]
              PROVE  \/ s \in todo'[c] \/ s = cur'[c] \/ s \in bad'[c]
                     \/ Closed(s)' \/ wait'[s] # "null" \/ ~ req[c] \subseteq blob[s]
          <5>1. CASE s = cur[c]
            BY <4>1, <5>1
          <5>2. CASE s \in todo[c] \/ s \in bad[c]
            BY <1>5, <5>2
          <5> QED
            BY <4>2, <5>1, <5>2
        <4> QED
          BY <4>2
      <3> QED
        BY <3>1, <3>2
    <2>2. Live(resG') = Live(resG)
      OBVIOUS
    <2> QED
      BY <1>3, <2>1, <2>2, CollectorSettles
  <1>8. ASSUME NEW m \in held'[c], m[2] \in Terminal
        PROVE  m[1] \in todo'[c] \/ m[1] \in bad'[c] \/ Closed(m[1])'
    <2>1. m \in held[c] /\ m[1] \in Scans
      BY <1>0, <1>8, SMT DEF ColOK, ResMsgs
    <2>2. Closed(m[1]) => Closed(m[1])'
      BY <2>1 DEF Onward
    <2>3. CASE m[1] = cur[c] /\ pc[c] \in DeadPC
      <3>1. z \in bad'[c] \/ Closed(z)'
        BY <1>6, <2>1, <2>3
      <3> QED
        BY <2>3, <3>1
    <2>4. \/ m[1] \in todo[c] \/ m[1] \in bad[c] \/ Closed(m[1])
          \/ m[1] = cur[c] /\ pc[c] \in DeadPC
      BY <1>4, <1>8, <2>1 DEF CollectorOwes, DeadPC
    <2> QED
      BY <1>5, <2>2, <2>3, <2>4
  <1>9. /\ \A s \in Scans : s \in todo'[c] \/ s = cur'[c] => Owed(s)
        /\ pc'[c] \notin AtScan => cur'[c] = NoScan
        /\ pc'[c] \in {"idle", "ack"} => todo'[c] = {}
        /\ pc'[c] = "idle" \/ mode'[c] = "force" => held'[c] = {}
    BY <1>0, <1>1, <1>4 DEF CollectorOwes
  <1>10. Live(resG') \subseteq Live(resG) /\ StaleOK(resG')
    BY DEF OwedInv
  <1> QED
    BY <1>3, <1>7, <1>8, <1>9, <1>10, CollectorGlue

\* A collector goes on with the scan in hand.
LEMMA StaysOn ==
    ASSUME OwedInv, Typed, NEW c \in Collectors, Onward(c),
           UNCHANGED <<scansG, engines, blob, wk, policy, resG, held, todo, mode, req, cur, bad>>,
           pc[c] \in AtScan, NEW x \in AtScan, pc[c] \in DeadPC => x \in DeadPC,
           pc' = [pc EXCEPT ![c] = x]
    PROVE  OwedInv'
  <1>0. ColOK
    BY TypedParts
  <1>1. pc'[c] = x /\ \A d \in Collectors \ {c} : pc'[d] = pc[d]
    BY <1>0 DEF ColOK
  <1>2. Bystanders(c)
    BY <1>1 DEF Bystanders
  <1>3. CollectorOwes(c)
    BY DEF OwedInv
  <1>4. \A s \in Scans : Settled(s) => Settled(s)'
    BY <1>2, CollectorSettles
  <1>5. ASSUME NEW m \in held'[c], m[2] \in Terminal
        PROVE  \/ m[1] \in todo'[c] \/ m[1] \in bad'[c] \/ Closed(m[1])'
               \/ m[1] = cur'[c] /\ pc'[c] \in DeadPC
    <2>1. m \in held[c] /\ m[1] \in Scans
      BY <1>0, <1>5, SMT DEF ColOK, ResMsgs
    <2>2. Closed(m[1]) => Closed(m[1])'
      BY <2>1 DEF Onward
    <2> QED
      BY <1>1, <1>3, <1>5, <2>1, <2>2 DEF CollectorOwes, DeadPC
  <1>6. x \notin {"idle", "ack"}
    BY DEF AtScan
  <1>7. /\ \A s \in Scans : s \in todo'[c] \/ s = cur'[c] => Owed(s)
        /\ pc'[c] \notin AtScan => cur'[c] = NoScan
        /\ pc'[c] \in {"idle", "ack"} => todo'[c] = {}
        /\ pc'[c] = "idle" \/ mode'[c] = "force" => held'[c] = {}
    BY <1>1, <1>3, <1>6 DEF CollectorOwes
  <1>8. Live(resG') \subseteq Live(resG) /\ StaleOK(resG')
    BY DEF OwedInv
  <1> QED
    BY <1>2, <1>4, <1>5, <1>7, <1>8, CollectorGlue

\* Steps that write no state and no wait, or the state of the scan in hand, go on.
LEMMA OnwardStill == \A c : UNCHANGED <<job, wait>> => Onward(c)
  BY DEF Onward, Closed

\* ... and so do steps that write the state of the scan in hand.
LEMMA OnwardJob ==
    ASSUME Typed, NEW c, NEW z \in Scans, z = cur[c], NEW y,
           job' = [job EXCEPT ![z] = y], y # "absent", UNCHANGED wait,
           Closed(z) => y \in {"rolledback", "scored", "decided", "failed"}
    PROVE  Onward(c)
  <1>1. job'[z] = y /\ \A s \in Scans \ {z} : job'[s] = job[s]
    BY DEF Typed, TypeOK
  <1> QED
    BY <1>1 DEF Onward, Closed

\* A row that is not locked and not absent is closed unless it is unscored.
LEMMA NotOpen ==
    ASSUME Typed, NEW s \in Scans, job[s] # "absent", Unlocked(s), job[s] \notin Unscored
    PROVE  Closed(s)
  BY DEF Typed, TypeOK, JobStates, Unlocked, Unscored, Closed

\* _mark_running_if_queued and the first transaction of _try_score_and_decide
LEMMA ScoreOwed ==
    ASSUME OwedInv, Typed, NEW c \in Collectors, MarkRunning(c) \/ Score(c)
    PROVE  OwedInv'
  <1>a. /\ cur[c] \in Scans /\ job[cur[c]] # "absent" /\ Unlocked(cur[c])
        /\ pc[c] \in AtScan /\ pc[c] \notin DeadPC
    <2>1. pc[c] \in {"mark", "score"} /\ Unlocked(cur[c])
      BY DEF MarkRunning, Score
    <2>2. pc[c] \in AtScan /\ pc[c] \notin DeadPC
      BY <2>1 DEF AtScan, DeadPC
    <2>3. cur[c] \in Scans
      BY <2>2 DEF Typed, CursorOK
    <2> QED
      BY <2>1, <2>2, <2>3 DEF OwedInv, CollectorOwes, Owed
  <1>b. PICK z \in Scans : z = cur[c]
    BY <1>a
  <1>0. job[z] # "absent" /\ Unlocked(z) /\ pc[c] \in AtScan /\ pc[c] \notin DeadPC
    BY <1>a, <1>b
  <1>1. CASE MarkRunning(c)
    <2>1. job' = [job EXCEPT ![z] = IF job[z] = "queued" THEN "running" ELSE job[z]]
      BY <1>1, <1>b DEF MarkRunning
    <2>2. UNCHANGED wait
      BY <1>1, <1>b DEF MarkRunning
    <2>3. Onward(c)
      BY <1>0, <1>b, <2>1, <2>2, OnwardJob DEF Closed
    <2>4. pc' = [pc EXCEPT ![c] = "score"] /\ "score" \in AtScan
      BY <1>1 DEF MarkRunning, AtScan
    <2>5. UNCHANGED <<scansG, engines, blob, wk, policy, resG, held, todo, mode, req, cur, bad>>
      BY <1>1 DEF MarkRunning, wkVars, envVars
    <2> QED
      BY <1>0, <1>b, <2>3, <2>4, <2>5, StaysOn
  <1>2. CASE Score(c)
    <2>0. UNCHANGED <<scansG, engines, blob, wk, policy, resG, held, todo, mode, req, bad>>
      BY <1>2 DEF Score, wkVars, envVars
    <2>1. CASE GiveUp(c)
      <3>1. NextScan(c) /\ UNCHANGED <<job, wait>>
        BY <2>1 DEF GiveUp
      <3>2. Closed(z)' \/ ~ req[c] \subseteq blob[z]
        <4>1. Closed(z) => Closed(z)'
          BY <3>1 DEF Closed
        <4> QED
          BY <1>0, <1>b, <2>1, <4>1, NotOpen DEF GiveUp, Reported
      <3>3. Onward(c)
        BY <3>1, OnwardStill
      <3> QED
        BY <1>0, <1>b, <2>0, <3>1, <3>2, <3>3, LetsGo
    <2>2. CASE StartWait(c)
      <3>1. /\ NextScan(c) /\ UNCHANGED job
            /\ wait' = [wait EXCEPT ![z] = IF wait[z] = "null" THEN "started" ELSE wait[z]]
        BY <2>2, <1>b DEF StartWait
      <3>2. wait'[z] # "null" /\ \A s \in Scans \ {z} : wait'[s] = wait[s]
        BY <1>0, <1>b, <3>1 DEF Typed, TypeOK
      <3>3. Onward(c)
        BY <3>1, <3>2 DEF Onward, Closed
      <3> QED
        BY <1>0, <1>b, <2>0, <3>1, <3>2, <3>3, LetsGo
    <2>3. CASE WriteResult(c)
      <3>1. /\ job' = [job EXCEPT ![z] = "scored"] /\ pc' = [pc EXCEPT ![c] = "gateScore"]
            /\ UNCHANGED <<wait, cur>>
        BY <2>3, <1>b DEF WriteResult
      <3>2. Onward(c)
        BY <1>0, <1>b, <3>1, OnwardJob
      <3>3. "gateScore" \in AtScan
        BY DEF AtScan
      <3> QED
        BY <1>0, <1>b, <2>0, <3>1, <3>2, <3>3, StaysOn
    <2> QED
      BY <1>2, <2>1, <2>2, <2>3 DEF Score
  <1> QED
    BY <1>1, <1>2, SMT

\* An exception leaves the entries of the scan in hand unacknowledged.
LEMMA RaiseOwed ==
    ASSUME OwedInv, Typed, NEW c \in Collectors, Raise(c), cur[c] # NoScan,
           UNCHANGED <<job, wait>>,
           UNCHANGED <<scansG, engines, blob, wk, policy, resG, held, todo, mode, req>>
    PROVE  OwedInv'
  <1>1. pc[c] \in AtScan
    BY DEF OwedInv, CollectorOwes
  <1>2. PICK z \in Scans : z = cur[c]
    BY <1>1 DEF Typed, CursorOK
  <1>3. NextScan(c) /\ bad' = [bad EXCEPT ![c] = IF mode[c] = "tick" THEN @ \cup {cur[c]} ELSE @]
    BY DEF Raise
  <1> QED
    BY <1>1, <1>2, <1>3, OnwardStill, LetsGo

\* decide_and_record, on either path
LEMMA GateOwed ==
    ASSUME OwedInv, Typed, NEW c \in Collectors, GateScore(c) \/ GateDead(c)
    PROVE  OwedInv'
  <1>1. UNCHANGED <<scansG, engines, blob, wk, policy, resG, held, todo, mode, req>>
    BY DEF GateScore, GateDead, wkVars, envVars
  <1>2. UNCHANGED <<job, wait>>
    BY DEF GateScore, GateDead
  <1>3. pc[c] \in AtScan /\ cur[c] # NoScan
    <2>1. pc[c] \in AtScan
      BY DEF GateScore, GateDead, AtScan
    <2> QED
      BY <2>1, ConstantsAssumption DEF Typed, CursorOK
  <1>4. CASE Raise(c)
    BY <1>1, <1>2, <1>3, <1>4, RaiseOwed
  <1>5. CASE ~Raise(c)
    <2>1. PICK x \in AtScan : /\ pc' = [pc EXCEPT ![c] = x] /\ UNCHANGED <<cur, bad>>
                              /\ pc[c] \in DeadPC => x \in DeadPC
      <3>1. CASE GateScore(c)
        <4>1. pc' = [pc EXCEPT ![c] = "decide"] /\ UNCHANGED <<cur, bad>> /\ pc[c] = "gateScore"
          BY <1>5, <3>1 DEF GateScore, Gate
        <4> QED
          BY <4>1 DEF AtScan, DeadPC
      <3>2. CASE GateDead(c)
        <4>1. pc' = [pc EXCEPT ![c] = "markFailed"] /\ UNCHANGED <<cur, bad>>
          BY <1>5, <3>2 DEF GateDead, Gate
        <4> QED
          BY <4>1 DEF AtScan, DeadPC
      <3> QED
        BY <3>1, <3>2
    <2> QED
      BY <1>1, <1>2, <1>3, <2>1, OnwardStill, StaysOn
  <1> QED
    BY <1>4, <1>5, SMT

\* The transactions that close a scan, and the one that looks before
LEMMA ClosingOwed ==
    ASSUME OwedInv, Typed, RowsInv, NEW c \in Collectors,
           MarkDecided(c) \/ DeadCheck(c) \/ MarkFailed(c)
    PROVE  OwedInv'
  <1>1. pc[c] \in {"decide", "deadCheck", "markFailed"} /\ pc[c] \in AtScan
    BY DEF MarkDecided, DeadCheck, MarkFailed, AtScan
  <1>2. PICK z \in Scans : z = cur[c]
    BY <1>1 DEF Typed, CursorOK
  <1>3. UNCHANGED <<scansG, engines, blob, wk, policy, resG, held, todo, mode, req, bad, wait>>
    BY DEF MarkDecided, DeadCheck, MarkFailed, wkVars, envVars, dbVars
  <1>4. StageOK(c) /\ RowsOK(z) /\ job[z] # "absent"
    BY <1>2 DEF RowsInv, OwedInv, CollectorOwes, Owed
  <1>5. CASE MarkDecided(c)
    <2>1. job[z] \in {"scored", "decided"}
      BY <1>2, <1>4, <1>5 DEF StageOK, MarkDecided
    <2>2. job' = [job EXCEPT ![z] = IF job[z] = "scored" THEN "decided" ELSE job[z]] /\ NextScan(c)
      BY <1>2, <1>5 DEF MarkDecided
    <2>3. Onward(c)
      BY <1>2, <1>3, <2>1, <2>2, OnwardJob
    <2>4. Closed(z)'
      BY <2>1, <2>3 DEF Onward, Closed
    <2> QED
      BY <1>1, <1>2, <1>3, <2>2, <2>3, <2>4, LetsGo
  <1>6. CASE MarkFailed(c)
    <2>1. HasRow(z)
      BY <1>2, <1>4, <1>6 DEF StageOK, RowsOK, MarkFailed, DeadLettered, HasVerdict
    <2>2. job' = [job EXCEPT ![z] = IF job[z] \in Unscored THEN "failed" ELSE job[z]] /\ NextScan(c)
      BY <1>2, <1>6 DEF MarkFailed
    <2>3. (IF job[z] \in Unscored THEN "failed" ELSE job[z]) \in {"scored", "decided", "failed"}
      BY <2>1 DEF HasRow, Unscored
    <2>4. job'[z] \in {"scored", "decided", "failed"}
      BY <2>2, <2>3 DEF Typed, TypeOK
    <2>5. Onward(c)
      BY <1>2, <1>3, <2>2, <2>3, OnwardJob
    <2>6. Closed(z)'
      BY <2>4 DEF Closed
    <2> QED
      BY <1>1, <1>2, <1>3, <2>2, <2>5, <2>6, LetsGo
  <1>7. CASE DeadCheck(c)
    <2>1. Unlocked(z) /\ UNCHANGED <<job, wait>>
      BY <1>2, <1>7 DEF DeadCheck, dbVars
    <2>2. Onward(c)
      BY <2>1, OnwardStill
    <2>3. CASE job[z] \in Unscored
      <3>1. pc' = [pc EXCEPT ![c] = "gateDead"] /\ UNCHANGED cur
        BY <1>2, <1>7, <2>3 DEF DeadCheck
      <3>2. "gateDead" \in AtScan /\ "gateDead" \in DeadPC
        BY DEF AtScan, DeadPC
      <3> QED
        BY <1>1, <1>3, <2>2, <3>1, <3>2, StaysOn
    <2>4. CASE job[z] \notin Unscored
      <3>1. NextScan(c)
        BY <1>2, <1>7, <2>4 DEF DeadCheck
      <3>2. Closed(z)
        BY <1>4, <2>1, <2>4, NotOpen
      <3>3. Closed(z)'
        BY <2>1, <3>2 DEF Closed
      <3> QED
        BY <1>1, <1>2, <1>3, <2>2, <3>1, <3>3, LetsGo
    <2> QED
      BY <2>3, <2>4, SMT
  <1> QED
    BY <1>5, <1>6, <1>7, SMT

\* A tick claims entries, whose scans are owed something.
LEMMA TickOwed ==
    ASSUME OwedInv, Typed, NEW c \in Collectors, Tick(c)
    PROVE  OwedInv'
  <1>0. ColOK /\ ResOK /\ CollectorOwes(c) /\ pc[c] = "idle"
    BY TypedParts DEF OwedInv, Tick
  <1>1. /\ held'[c] = Claimable(resG) /\ todo'[c] = ScanOf(Claimable(resG)) /\ mode'[c] = "tick"
        /\ pc'[c] = "pick" /\ req'[c] = Policies[policy] /\ cur'[c] = NoScan
    BY <1>0 DEF Tick, ColOK, View, CollectorOwes, AtScan
  <1>2. Bystanders(c)
    BY <1>0 DEF Tick, ColOK, View, Bystanders
  <1>3. UNCHANGED <<scansG, engines, blob, wk, policy>> /\ UNCHANGED <<job, wait>>
    BY DEF Tick, wkVars, envVars, dbVars
  <1>4. Onward(c)
    BY <1>3, OnwardStill
  <1>5. /\ Live(resG') = Live(resG) /\ StaleOK(resG') /\ Claimable(resG) \subseteq Live(resG)
        /\ \A m \in Live(resG) : m[1] \in Scans
    <2>1. resG' = Claimed(resG) /\ StaleOK(resG)
      BY DEF Tick, OwedInv
    <2>2. PICK m \in ResMsgs : m \in Claimable(resG)
      BY <1>0 DEF Tick, ResOK, Group, Claimable
    <2>3. /\ Live(resG') = Live(resG) /\ StaleOK(resG') /\ Claimable(resG) \subseteq Live(resG)
          /\ Live(resG) \subseteq ResMsgs
      BY <1>0, <2>1, <2>2, LiveAfter DEF ResOK
    <2>4. \A n \in ResMsgs : n[1] \in Scans
      BY SMT DEF ResMsgs
    <2> QED
      BY <2>3, <2>4
  <1>6. \A m \in Claimable(resG) : m[1] \in todo'[c]
    BY <1>1 DEF ScanOf
  <1>7. ASSUME NEW s \in Scans, Settled(s) PROVE Settled(s)'
    <2>1. TerminalDue(s) => TerminalDue(s)'
      BY <1>5 DEF TerminalDue, Live
    <2>2. ASSUME NEW m \in Live(resG), m[1] = s, Counts(m), Policies[policy] \subseteq blob[s]
          PROVE  Counts(m)'
      <3>1. \A d \in Collectors \ {c} : m \in held'[d] =>
               /\ req'[d] \subseteq blob'[m[1]]
               /\ m[1] \in todo'[d] \/ m[1] = cur'[d] \/ m[1] \in bad'[d]
        BY <1>2, <1>3, <2>2 DEF Counts, Bystanders
      <3>2. m \in held'[c] =>
               /\ req'[c] \subseteq blob'[m[1]]
               /\ m[1] \in todo'[c] \/ m[1] = cur'[c] \/ m[1] \in bad'[c]
        BY <1>1, <1>3, <1>6, <2>2
      <3> QED
        BY <3>1, <3>2 DEF Counts
    <2>3. (Closed(s) => Closed(s)') /\ (wait[s] # "null" => wait'[s] # "null")
      BY <1>4 DEF Onward
    <2>4. Policies[policy'] \subseteq Policies[policy] /\ blob[s] \subseteq blob'[s]
      BY <1>3
    <2> QED
      BY <1>5, <1>7, <2>1, <2>2, <2>3, <2>4, SettledKept
  <1>8. ASSUME NEW s \in Scans, s \in todo'[c] \/ s = cur'[c] PROVE Owed(s)
    <2>1. s \in ScanOf(Claimable(resG))
      BY <1>1, <1>8, ConstantsAssumption
    <2>2. PICK m \in Claimable(resG) : s = m[1]
      BY <2>1 DEF ScanOf
    <2> QED
      BY <1>5, <2>2 DEF OwedInv
  <1>9. \A m \in held'[c] : m[1] \in todo'[c]
    BY <1>1, <1>6
  <1>10. pc'[c] \notin {"idle", "ack"} /\ mode'[c] # "force"
    BY <1>1
  <1> QED
    BY <1>1, <1>2, <1>3, <1>4, <1>5, <1>7, <1>8, <1>9, <1>10, CollectorGlue

\* The wait-timeout sweep has claimed nothing and selects scans whose wait is on
\* record.
LEMMA SweepOwed ==
    ASSUME OwedInv, Typed, NEW c \in Collectors, Sweep(c)
    PROVE  OwedInv'
  <1>0. ColOK /\ CollectorOwes(c) /\ pc[c] = "idle"
    BY TypedParts DEF OwedInv, Sweep
  <1>1. /\ held'[c] = {} /\ todo'[c] = Overdue /\ mode'[c] = "force"
        /\ pc'[c] = "pick" /\ cur'[c] = NoScan
    BY <1>0 DEF Sweep, ColOK, CollectorOwes, AtScan
  <1>2. Bystanders(c)
    BY <1>0 DEF Sweep, ColOK, View, Bystanders
  <1>3. UNCHANGED <<scansG, engines, blob, wk, policy>> /\ UNCHANGED <<job, wait>> /\ UNCHANGED resG
    BY DEF Sweep, wkVars, envVars, dbVars
  <1>4. Onward(c)
    BY <1>3, OnwardStill
  <1>5. Live(resG') = Live(resG) /\ StaleOK(resG')
    BY <1>3 DEF OwedInv
  <1>6. \A s \in Scans : Settled(s) => Settled(s)'
    BY <1>1, <1>2, <1>3, <1>4, <1>5, CollectorSettles
  <1>7. ASSUME NEW s \in Scans, s \in todo'[c] \/ s = cur'[c] PROVE Owed(s)
    <2>1. job[s] \in Unscored /\ wait[s] = "expired"
      BY <1>1, <1>7, ConstantsAssumption DEF Overdue
    <2> QED
      BY <2>1 DEF Owed, Settled, Unscored
  <1>8. pc'[c] \notin {"idle", "ack"} /\ \A m \in held'[c] : FALSE
    BY <1>1
  <1> QED
    BY <1>1, <1>2, <1>3, <1>4, <1>5, <1>6, <1>7, <1>8, CollectorGlue

\* The next scan of the batch; one with a terminal status is dead-lettered.
LEMMA PickOwed ==
    ASSUME OwedInv, Typed, NEW c \in Collectors, Pick(c)
    PROVE  OwedInv'
  <1>0. ColOK /\ CollectorOwes(c) /\ pc[c] = "pick"
    BY TypedParts DEF OwedInv, Pick
  <1>1. PICK z \in todo[c] :
          /\ cur' = [cur EXCEPT ![c] = z] /\ todo' = [todo EXCEPT ![c] = @ \ {z}]
          /\ pc' = [pc EXCEPT ![c] =
                IF mode[c] = "force" THEN "score"
                ELSE IF \/ TagsOf({m \in held[c] : m[1] = z}, z) \cap Terminal # {}
                        \/ Exhausted(resG, {m \in held[c] : m[1] = z})
                     THEN "deadCheck" ELSE "mark"]
    BY DEF Pick
  <1>2. cur'[c] = z /\ todo'[c] = todo[c] \ {z} /\ pc'[c] \in {"score", "deadCheck", "mark"}
    BY <1>0, <1>1 DEF ColOK
  <1>3. UNCHANGED <<scansG, engines, blob, wk, policy>> /\ UNCHANGED <<job, wait>>
        /\ UNCHANGED <<resG, held, bad, mode, req>>
    BY DEF Pick, wkVars, envVars, dbVars
  <1>4. Bystanders(c)
    BY <1>0, <1>1, <1>3 DEF ColOK, Bystanders
  <1>5. Onward(c)
    BY <1>3, OnwardStill
  <1>6. Live(resG') = Live(resG) /\ StaleOK(resG')
    BY <1>3 DEF OwedInv
  <1>7. cur[c] = NoScan
    BY <1>0 DEF CollectorOwes, AtScan
  <1>8. \A s \in Scans : s \in todo[c] \/ s = cur[c] \/ s \in bad[c] =>
             s \in todo'[c] \/ s = cur'[c] \/ s \in bad'[c]
    BY <1>2, <1>3, <1>7, ConstantsAssumption
  <1>9. \A s \in Scans : Settled(s) => Settled(s)'
    BY <1>3, <1>4, <1>5, <1>6, <1>8, CollectorSettles
  <1>10. \A s \in Scans : s \in todo'[c] \/ s = cur'[c] => Owed(s)
    BY <1>0, <1>2 DEF CollectorOwes
  <1>11. ASSUME NEW m \in held'[c], m[2] \in Terminal
         PROVE  \/ m[1] \in todo'[c] \/ m[1] \in bad'[c] \/ Closed(m[1])'
                \/ m[1] = cur'[c] /\ pc'[c] \in DeadPC
    <2>1. m \in held[c] /\ m[1] \in Scans
      BY <1>0, <1>3, <1>11, SMT DEF ColOK, ResMsgs
    <2>2. Closed(m[1]) => Closed(m[1])'
      BY <1>5, <2>1 DEF Onward
    <2>3. CASE m[1] = z
      <3>1. mode[c] # "force"
        BY <1>0, <2>1 DEF CollectorOwes
      <3>2. m[2] \in TagsOf({n \in held[c] : n[1] = z}, z)
        BY <2>1, <2>3 DEF TagsOf
      <3>3. pc'[c] = "deadCheck"
        BY <1>0, <1>1, <1>11, <3>1, <3>2 DEF ColOK
      <3> QED
        BY <1>2, <2>3, <3>3 DEF DeadPC
    <2>4. CASE m[1] # z
      BY <1>0, <1>2, <1>3, <1>7, <1>11, <2>1, <2>2, <2>4, ConstantsAssumption
      DEF CollectorOwes
    <2> QED
      BY <2>3, <2>4
  <1>12. pc'[c] \in AtScan /\ pc'[c] \notin {"idle", "ack"}
    BY <1>2 DEF AtScan
  <1>13. pc'[c] = "idle" \/ mode'[c] = "force" => held'[c] = {}
    BY <1>0, <1>3, <1>12 DEF CollectorOwes
  <1> QED
    BY <1>3, <1>4, <1>5, <1>6, <1>9, <1>10, <1>11, <1>12, <1>13, CollectorGlue

\* An acknowledged result settles nothing any more: its scan is closed, or waits,
\* or lacked a required engine when the collector looked.
LEMMA AckOwed ==
    ASSUME OwedInv, Typed, NEW c \in Collectors, AckResult(c)
    PROVE  OwedInv'
  <1>0. ColOK /\ ResOK /\ CollectorOwes(c) /\ pc[c] = "ack" /\ StaleOK(resG)
    BY TypedParts DEF OwedInv, AckResult
  <1>1. PICK m \in held[c] : /\ m[1] \notin bad[c] /\ resG' = Acked(resG, m)
                             /\ held' = [held EXCEPT ![c] = @ \ {m}]
    BY DEF AckResult, Ackable
  <1>2. m \in ResMsgs /\ m[1] \in Scans /\ held'[c] = held[c] \ {m}
    <2>1. m \in ResMsgs /\ held'[c] = held[c] \ {m}
      BY <1>0, <1>1 DEF ColOK
    <2> QED
      BY <2>1, SMT DEF ResMsgs
  <1>3. UNCHANGED <<scansG, engines, blob, wk, policy>> /\ UNCHANGED <<job, wait>>
        /\ UNCHANGED <<pc, todo, cur, bad, mode, req>>
    BY DEF AckResult, wkVars, envVars, dbVars
  <1>4. Bystanders(c)
    BY <1>0, <1>1, <1>3 DEF ColOK, Bystanders
  <1>5. Onward(c)
    BY <1>3, OnwardStill
  <1>6. /\ Live(resG') \subseteq Live(resG) /\ Live(resG) \ {m} \subseteq Live(resG')
        /\ StaleOK(resG')
    BY <1>0, <1>1, <1>2, LiveAfter DEF ResOK
  <1>7. todo[c] = {} /\ cur[c] = NoScan
    BY <1>0 DEF CollectorOwes, AtScan
  <1>8. ~Counts(m)
    BY <1>1, <1>2, <1>7, ConstantsAssumption DEF Counts
  <1>9. m[2] \in Terminal => Closed(m[1])
    BY <1>0, <1>1, <1>2, <1>7, ConstantsAssumption DEF CollectorOwes
  <1>10. \A d \in Collectors : held'[d] \subseteq held[d]
    BY <1>2, <1>4 DEF Bystanders
  <1>11. ASSUME NEW s \in Scans, Settled(s) PROVE Settled(s)'
    <2>1. TerminalDue(s) => TerminalDue(s)' \/ Closed(s)'
      <3>1. Closed(s) => Closed(s)'
        BY <1>5 DEF Onward
      <3> QED
        BY <1>6, <1>9, <3>1 DEF TerminalDue, Live
    <2>2. ASSUME NEW n \in Live(resG), n[1] = s, Counts(n)
          PROVE  n \in Live(resG') /\ Counts(n)'
      <3>1. n # m
        BY <1>8, <2>2
      <3> QED
        BY <1>3, <1>6, <1>10, <2>2, <3>1 DEF Counts
    <2>3. (Closed(s) => Closed(s)') /\ (wait[s] # "null" => wait'[s] # "null")
      BY <1>5 DEF Onward
    <2>4. Policies[policy'] \subseteq Policies[policy] /\ blob[s] \subseteq blob'[s]
      BY <1>3
    <2> QED
      BY <1>11, <2>1, <2>2, <2>3, <2>4, SettledKept
  <1>12. /\ \A s \in Scans : s \in todo'[c] \/ s = cur'[c] => Owed(s)
         /\ pc'[c] \notin AtScan => cur'[c] = NoScan
         /\ pc'[c] \in {"idle", "ack"} => todo'[c] = {}
         /\ pc'[c] = "idle" \/ mode'[c] = "force" => held'[c] = {}
    BY <1>0, <1>3, <1>7, <1>10, ConstantsAssumption DEF CollectorOwes
  <1>13. ASSUME NEW n \in held'[c], n[2] \in Terminal
         PROVE  n[1] \in bad'[c] \/ Closed(n[1])'
    <2>1. n \in held[c] /\ n[1] \in Scans
      BY <1>0, <1>10, <1>13, SMT DEF ColOK, ResMsgs
    <2>2. Closed(n[1]) => Closed(n[1])'
      BY <1>5, <2>1 DEF Onward
    <2> QED
      BY <1>0, <1>3, <1>7, <1>13, <2>1, <2>2, ConstantsAssumption DEF CollectorOwes
  <1> QED
    BY <1>3, <1>4, <1>5, <1>6, <1>11, <1>12, <1>13, CollectorGlue

\* The end of a tick and the death of a collector acknowledge nothing.
LEMMA ForgetOwed ==
    ASSUME OwedInv, Typed, NEW c \in Collectors, Forget(c)
    PROVE  OwedInv'
  <1>0. ColOK
    BY TypedParts
  <1>1. pc'[c] = "idle" /\ held'[c] = {} /\ todo'[c] = {} /\ cur'[c] = NoScan
    BY <1>0 DEF Forget, ColOK
  <1>2. Bystanders(c)
    BY <1>0 DEF Forget, ColOK, Bystanders
  <1>3. UNCHANGED <<scansG, engines, blob, wk, policy>> /\ UNCHANGED <<job, wait>> /\ UNCHANGED resG
    BY DEF Forget, wkVars, envVars, dbVars
  <1>4. Onward(c)
    BY <1>3, OnwardStill
  <1>5. Live(resG') = Live(resG) /\ StaleOK(resG')
    BY <1>3 DEF OwedInv
  <1>6. \A s \in Scans : Settled(s) => Settled(s)'
    BY <1>1, <1>2, <1>3, <1>4, <1>5, CollectorSettles
  <1>7. /\ \A s \in Scans : ~(s \in todo'[c] \/ s = cur'[c])
        /\ \A m \in held'[c] : FALSE
    BY <1>1, ConstantsAssumption
  <1> QED
    BY <1>1, <1>2, <1>3, <1>4, <1>5, <1>6, <1>7, CollectorGlue

\* Every step of a collector
LEMMA CollectorOwed ==
    ASSUME OwedInv, Typed, RowsInv, NEW c \in Collectors,
           Tick(c) \/ Sweep(c) \/ CollectorStep(c) \/ ScanFails(c) \/ CollectorDies(c)
    PROVE  OwedInv'
  <1>1. CASE ScanFails(c)
    <2>1. /\ Raise(c) /\ cur[c] # NoScan /\ UNCHANGED <<job, wait>>
          /\ UNCHANGED <<scansG, engines, blob, wk, policy, resG, held, todo, mode, req>>
      BY <1>1 DEF ScanFails, dbVars, envVars, wkVars
    <2> QED
      BY <2>1, RaiseOwed
  <1>2. CASE EndTick(c) \/ CollectorDies(c)
    BY <1>2, ForgetOwed DEF EndTick, CollectorDies
  <1> QED
    BY <1>1, <1>2, TickOwed, SweepOwed, PickOwed, ScoreOwed, GateOwed, ClosingOwed, AckOwed
    DEF CollectorStep

-----------------------------------------------------------------------------
(* Steps of the workers and of the environment.                            *)

\* What they leave alone, keep and only add to
Outside ==
    /\ UNCHANGED <<pc, held, todo, cur, bad, mode, req>>
    /\ Live(resG) \subseteq Live(resG') /\ StaleOK(resG')
    /\ Policies[policy'] \subseteq Policies[policy]
    /\ \A s \in Scans :
          /\ Closed(s) => Closed(s)'
          /\ job[s] # "absent" => job'[s] # "absent"
          /\ job'[s] = "running" => job[s] = "running"
          /\ wait[s] # "null" => wait'[s] # "null"
          /\ blob[s] \subseteq blob'[s]

\* The entries a floor worker may have acknowledged in the step were settled.
FloorKept ==
    \A m \in Live(scansG["floor"]) :
        (m \in Live(scansG'["floor"]) /\ engines'[m] = engines[m]) \/ engines[m] = {} \/ Settled(m[1])

\* Settled scans stay settled.
LEMMA OutsideSettled ==
    ASSUME Outside, NEW s \in Scans, Settled(s)
    PROVE  Settled(s)'
  <1>1. TerminalDue(s) => TerminalDue(s)'
    BY DEF TerminalDue, Outside, Live
  <1>2. ASSUME NEW m \in Live(resG), m[1] = s, Counts(m)
        PROVE  m \in Live(resG') /\ Counts(m)'
    <2>1. blob[m[1]] \subseteq blob'[m[1]]
      BY <1>2 DEF Outside
    <2> QED
      BY <1>2, <2>1 DEF Counts, Outside
  <1>3. /\ Closed(s) => Closed(s)'
        /\ wait[s] # "null" => wait'[s] # "null"
        /\ Policies[policy'] \subseteq Policies[policy] /\ blob[s] \subseteq blob'[s]
    BY DEF Outside
  <1> QED
    BY <1>1, <1>2, <1>3, SettledKept

\* Owed scans stay owed.
LEMMA OutsideOwed ==
    ASSUME Outside, FloorKept, NEW s \in Scans, Owed(s)
    PROVE  Owed(s)'
  <1>1. job'[s] # "absent"
    BY DEF Outside, Owed
  <1>2. CASE Settled(s)
    BY <1>1, <1>2, OutsideSettled DEF Owed
  <1>3. CASE ~Settled(s)
    <2>1. PICK m \in Live(scansG["floor"]) : m[1] = s /\ engines[m] # {}
      BY <1>3 DEF Owed, JobDue
    <2>2. m \in Live(scansG'["floor"]) /\ engines'[m] # {}
      BY <1>3, <2>1 DEF FloorKept
    <2> QED
      BY <1>1, <2>1, <2>2 DEF Owed, JobDue, Live
  <1> QED
    BY <1>2, <1>3, SMT

\* A floor worker that the step leaves alone
LEMMA WorkerStill ==
    ASSUME Outside, Typed, NEW w \in FloorWorkers, WorkerOwes(w), wk'[w] = wk[w],
           wk[w].pc \in {"run", "send"} => engines'[wk[w].cur] = engines[wk[w].cur]
    PROVE  WorkerOwes(w)'
  <1> SUFFICES ASSUME wk[w].pc \in {"run", "send"} PROVE WorkerOwes(w)'
    BY DEF WorkerOwes
  <1>1. wk[w].cur[1] \in Scans
    <2>1. wk[w].cur \in ScanMsgs
      BY DEF Typed, CursorOK, Workers
    <2> QED
      BY <2>1, SMT DEF ScanMsgs
  <1>2. PICK s \in Scans : s = wk[w].cur[1]
    BY <1>1
  <1>3. (Settled(s) => Settled(s)') /\ blob[s] \subseteq blob'[s]
    BY OutsideSettled DEF Outside
  <1>4. wk'[w].cur[1] = s
    BY <1>2
  <1> QED
    BY <1>2, <1>3, <1>4 DEF WorkerOwes

\* The parts of the invariant that such a step cannot disturb
LEMMA OutsideGlue ==
    ASSUME OwedInv, Typed, Outside, FloorKept,
           \A g \in Groups : StaleOK(scansG'[g]),
           \A m \in ScanMsgs : Outstanding(m)' => EntryOwes(m)',
           \A m \in Live(resG') : m \in Live(resG) \/ Owed(m[1])',
           \A w \in FloorWorkers : WorkerOwes(w)'
    PROVE  OwedInv'
  <1>1. \A s \in Scans : Owed(s) => Owed(s)'
    BY OutsideOwed
  <1>2. \A s \in Scans : (job[s] = "running")' => Owed(s)'
    BY <1>1 DEF OwedInv, Outside
  <1>3. \A m \in Live(resG)' : Owed(m[1])'
    <2>1. \A m \in Live(resG) : m[1] \in Scans
      BY SMT DEF Typed, TypeOK, Live, Group, ResMsgs
    <2> QED
      BY <1>1, <2>1 DEF OwedInv, Live
  <1>4. ASSUME NEW c \in Collectors PROVE CollectorOwes(c)'
    <2>1. \A m \in held[c] : m[1] \in Scans
      BY SMT DEF Typed, TypeOK, ResMsgs
    <2>2. CollectorOwes(c) /\ \A s \in Scans : Closed(s) => Closed(s)'
      BY DEF OwedInv, Outside
    <2>3. UNCHANGED <<pc, held, todo, cur, bad, mode, req>>
      BY DEF Outside
    <2> QED
      BY <1>1, <2>1, <2>2, <2>3 DEF CollectorOwes
  <1>5. StaleOK(resG)' /\ \A g \in Groups : StaleOK(scansG[g])'
    BY DEF Outside, StaleOK
  <1> QED
    BY <1>2, <1>3, <1>4, <1>5 DEF OwedInv

\* A step that adds no entry to the scans stream
LEMMA StreamGlue ==
    ASSUME OwedInv, Typed, Outside, FloorKept, UNCHANGED engines,
           \A g \in Groups : StaleOK(scansG'[g]),
           \A m \in ScanMsgs : Outstanding(m)' => Outstanding(m),
           \A m \in Live(resG') : m \in Live(resG) \/ Owed(m[1])',
           \A w \in FloorWorkers : wk'[w] = wk[w] \/ WorkerOwes(w)'
    PROVE  OwedInv'
  <1>1. ASSUME NEW m \in ScanMsgs, Outstanding(m)' PROVE EntryOwes(m)'
    <2>1. EntryOwes(m) /\ m[1] \in Scans
      <3>1. m[1] \in Scans
        BY SMT DEF ScanMsgs
      <3> QED
        BY <1>1, <3>1 DEF OwedInv
    <2>2. PICK s \in Scans : s = m[1]
      BY <2>1
    <2>3. (Owed(s) => Owed(s)') /\ (job[s] # "absent" => job'[s] # "absent")
      BY OutsideOwed DEF Outside
    <2>4. Policies[policy'] \subseteq Policies[policy]
      BY DEF Outside
    <2> QED
      BY <2>1, <2>2, <2>3, <2>4 DEF EntryOwes
  <1>2. \A w \in FloorWorkers : WorkerOwes(w)'
    BY WorkerStill DEF OwedInv
  <1> QED
    BY <1>1, <1>2, OutsideGlue

\* A step that sends and acknowledges nothing
LEMMA QuietOwed ==
    ASSUME OwedInv, Typed, Outside, UNCHANGED <<engines, wk>>, Live(resG') = Live(resG),
           \A g \in Groups : StaleOK(scansG'[g]) /\ Live(scansG'[g]) = Live(scansG[g])
    PROVE  OwedInv'
  <1>1. "floor" \in Groups
    BY DEF Groups
  <1>2. FloorKept
    BY <1>1 DEF FloorKept
  <1>3. \A m \in ScanMsgs : Outstanding(m)' => Outstanding(m)
    BY DEF Outstanding, Live
  <1> QED
    BY <1>2, <1>3, StreamGlue

\* produce_scan_job for a scan on record, with the engines of this or an earlier
\* policy
LEMMA ProduceOwed ==
    ASSUME OwedInv, Typed, Outside, NEW s \in Scans, NEW E, ProduceScanJob(s, E),
           UNCHANGED <<wk, resG, policy>>, job'[s] # "absent", Policies[policy] \subseteq E
    PROVE  OwedInv'
  <1>0. WkOK
    BY TypedParts
  <1>1. PICK n \in FreeScanMsgs(s) : /\ scansG' = [g \in Groups |-> Produced(scansG[g], n)]
                                     /\ engines' = [engines EXCEPT ![n] = E]
    BY DEF ProduceScanJob
  <1>2. /\ n \in ScanMsgs /\ n[1] = s /\ \A g \in Groups : n \notin Live(scansG[g])
        /\ \A w \in Workers : n # wk[w].cur
    BY <1>1 DEF FreeScanMsgs
  <1>3. /\ engines'[n] = E /\ \A m \in ScanMsgs \ {n} : engines'[m] = engines[m]
    BY <1>0, <1>1, <1>2 DEF WkOK
  <1>4. \A g \in Groups : StaleOK(scansG'[g]) /\ Live(scansG'[g]) = Live(scansG[g]) \cup {n}
                          /\ Live(scansG[g]) \subseteq ScanMsgs
    <2> SUFFICES ASSUME NEW g \in Groups
                 PROVE  /\ StaleOK(scansG'[g]) /\ Live(scansG'[g]) = Live(scansG[g]) \cup {n}
                        /\ Live(scansG[g]) \subseteq ScanMsgs
      OBVIOUS
    <2>1. scansG[g] \in Group(ScanMsgs) /\ StaleOK(scansG[g]) /\ scansG'[g] = Produced(scansG[g], n)
      BY <1>0, <1>1 DEF WkOK, OwedInv
    <2>2. /\ StaleOK(Produced(scansG[g], n)) /\ Live(scansG[g]) \subseteq ScanMsgs
          /\ Live(Produced(scansG[g], n)) = Live(scansG[g]) \cup {n}
      BY <1>2, <2>1, LiveAfter, SMT
    <2> QED
      BY <2>1, <2>2
  <1>5. "floor" \in Groups
    BY DEF Groups
  <1>6. FloorKept
    BY <1>2, <1>3, <1>4, <1>5 DEF FloorKept
  <1>7. ASSUME NEW m \in ScanMsgs, Outstanding(m)' PROVE EntryOwes(m)'
    <2>1. CASE m = n
      <3>1. E # {} => JobDue(s)'
        BY <1>2, <1>3, <1>4, <1>5 DEF JobDue, Live
      <3>2. E # {} => Owed(s)'
        BY <3>1 DEF Owed
      <3> QED
        BY <1>2, <1>3, <2>1, <3>2 DEF EntryOwes
    <2>2. CASE m # n
      <3>1. Outstanding(m)
        BY <1>4, <1>7, <2>2 DEF Outstanding, Live
      <3>2. EntryOwes(m) /\ m[1] \in Scans /\ engines'[m] = engines[m]
        <4>1. m[1] \in Scans
          BY SMT DEF ScanMsgs
        <4> QED
          BY <1>3, <2>2, <3>1, <4>1 DEF OwedInv
      <3>3. PICK z \in Scans : z = m[1]
        BY <3>2
      <3>4. (Owed(z) => Owed(z)') /\ (job[z] # "absent" => job'[z] # "absent")
        BY <1>6, OutsideOwed DEF Outside
      <3> QED
        BY <3>2, <3>3, <3>4 DEF EntryOwes
    <2> QED
      BY <2>1, <2>2, SMT
  <1>8. ASSUME NEW w \in FloorWorkers PROVE WorkerOwes(w)'
    <2>1. wk[w].pc \in {"run", "send"} => engines'[wk[w].cur] = engines[wk[w].cur]
      BY <1>2, <1>3 DEF Typed, CursorOK, Workers
    <2> QED
      BY <2>1, WorkerStill DEF OwedInv
  <1>9. \A m \in Live(resG') : m \in Live(resG)
    OBVIOUS
  <1> QED
    BY <1>4, <1>6, <1>7, <1>8, <1>9, OutsideGlue

\* produce_result: a terminal status, or a result of a scan that has all its
\* required engines, settles the scan.
LEMMA FreshResult ==
    ASSUME Typed, StaleOK(resG), NEW s \in Scans, NEW tag, ProduceResult(s, tag),
           UNCHANGED <<held, policy, blob>>
    PROVE  /\ Live(resG) \subseteq Live(resG') /\ StaleOK(resG')
           /\ \A m \in Live(resG') : m \in Live(resG) \/ m[1] = s
           /\ tag \in Terminal \/ Policies[policy] \subseteq blob[s] => Settled(s)'
  <1>1. PICK n \in ResMsgs : /\ n[1] = s /\ n[2] = tag /\ resG' = Produced(resG, n)
                             /\ \A c \in Collectors : n \notin held[c]
    BY DEF ProduceResult, FreeResMsgs
  <1>2. Live(resG') = Live(resG) \cup {n} /\ StaleOK(resG')
    <2>1. resG \in Group(ResMsgs)
      BY DEF Typed, TypeOK
    <2>2. Live(Produced(resG, n)) = Live(resG) \cup {n} /\ StaleOK(Produced(resG, n))
      BY <2>1, LiveAfter, SMT
    <2> QED
      BY <1>1, <2>2
  <1>3. tag \in Terminal => TerminalDue(s)'
    BY <1>1, <1>2 DEF TerminalDue, Live
  <1>4. Counts(n)'
    BY <1>1 DEF Counts
  <1>5. Policies[policy] \subseteq blob[s] => AnswerDue(s)'
    BY <1>1, <1>2, <1>4 DEF AnswerDue, Live
  <1> QED
    BY <1>1, <1>2, <1>3, <1>5 DEF Settled

\* Submissions, rescans, the sweep of queued rows and the passing of time
LEMMA EnvironmentOwed ==
    ASSUME PoliciesShrink, OwedInv, Typed, NEW s \in Scans,
           \/ Submit(s) \/ Commit(s) \/ Rollback(s) \/ Rescan(s)
           \/ SweepQueued(s) \/ WaitExpires(s)
    PROVE  OwedInv'
  <1>0. UNCHANGED <<pc, held, todo, cur, bad, mode, req>> /\ UNCHANGED <<policy, blob, wk>>
    BY DEF Submit, Commit, Rollback, Rescan, SweepQueued, WaitExpires, colVars, envVars, wkVars
  <1>a. DbOK /\ EnvOK
    BY TypedParts
  <1>1. \A z \in Scans :
          /\ Closed(z) => Closed(z)'
          /\ job[z] # "absent" => job'[z] # "absent"
          /\ job'[z] = "running" => job[z] = "running"
          /\ wait[z] # "null" => wait'[z] # "null"
    <2>1. CASE SweepQueued(s)
      BY <2>1 DEF SweepQueued, dbVars, Closed
    <2>2. CASE WaitExpires(s)
      <3>1. UNCHANGED job /\ \A z \in Scans : wait'[z] = IF z = s THEN "expired" ELSE wait[z]
        BY <1>a, <2>2 DEF WaitExpires, DbOK
      <3> QED
        BY <3>1 DEF Closed
    <2>3. CASE Submit(s) \/ Commit(s) \/ Rollback(s) \/ Rescan(s)
      <3>1. /\ job[s] \in {"absent", "uncommitted"} /\ UNCHANGED wait
            /\ \E y \in {"uncommitted", "queued", "rolledback"} : job' = [job EXCEPT ![s] = y]
        BY <2>3 DEF Submit, Commit, Rollback, Rescan
      <3>2. /\ \A z \in Scans \ {s} : job'[z] = job[z]
            /\ job'[s] \in {"uncommitted", "queued", "rolledback"}
        BY <1>a, <3>1 DEF DbOK
      <3> QED
        BY <3>1, <3>2 DEF Closed
    <2> QED
      BY <2>1, <2>2, <2>3
  <1>2. UNCHANGED resG => Outside
    BY <1>0, <1>1 DEF Outside, OwedInv
  <1>3. CASE Submit(s)
    <2>1. PICK p \in 1..policy : ProduceScanJob(s, Policies[p])
      BY <1>3 DEF Submit
    <2>2. Policies[policy] \subseteq Policies[p]
      BY <1>a, <2>1, PoliciesAssumption, SMT DEF PoliciesShrink, EnvOK, PolicyIds
    <2>3. job'[s] # "absent" /\ UNCHANGED resG
      BY <1>a, <1>3 DEF Submit, DbOK
    <2> QED
      BY <1>0, <1>2, <2>1, <2>2, <2>3, ProduceOwed
  <1>4. CASE SweepQueued(s)
    <2>0. job[s] = "queued" /\ UNCHANGED job
      BY <1>4 DEF SweepQueued, dbVars
    <2>1. CASE s \in Lost
      <3>1. ProduceResult(s, POISON_PILL) /\ UNCHANGED <<scansG, engines>>
        BY <1>4, <2>1 DEF SweepQueued
      <3>2. StaleOK(resG) /\ POISON_PILL \in Terminal
        BY DEF OwedInv, Terminal
      <3>3. /\ Live(resG) \subseteq Live(resG') /\ StaleOK(resG')
            /\ \A m \in Live(resG') : m \in Live(resG) \/ m[1] = s
            /\ Settled(s)'
        BY <1>0, <3>1, <3>2, FreshResult
      <3>4. Outside
        BY <1>0, <1>1, <3>3 DEF Outside
      <3>5. FloorKept
        BY <3>1 DEF FloorKept
      <3>6. Owed(s)'
        BY <2>0, <3>3 DEF Owed
      <3>7. \A m \in ScanMsgs : Outstanding(m)' => Outstanding(m)
        BY <1>0, <3>1 DEF Outstanding, Live
      <3>8. \A m \in Live(resG') : m \in Live(resG) \/ Owed(m[1])'
        BY <3>3, <3>6
      <3>9. \A g \in Groups : StaleOK(scansG'[g])
        BY <3>1 DEF OwedInv
      <3> QED
        BY <1>0, <3>1, <3>4, <3>5, <3>7, <3>8, <3>9, StreamGlue
    <2>2. CASE s \notin Lost
      <3>1. ProduceScanJob(s, Policies[policy]) /\ UNCHANGED resG /\ job'[s] # "absent"
        BY <1>4, <2>0, <2>2 DEF SweepQueued
      <3> QED
        BY <1>0, <1>2, <3>1, ProduceOwed
    <2> QED
      BY <2>1, <2>2, SMT
  <1>5. CASE Commit(s) \/ Rollback(s) \/ Rescan(s) \/ WaitExpires(s)
    <2>1. UNCHANGED <<engines, wk, scansG, resG>>
      BY <1>5 DEF Commit, Rollback, Rescan, WaitExpires, wkVars
    <2>2. \A g \in Groups : StaleOK(scansG'[g]) /\ Live(scansG'[g]) = Live(scansG[g])
      BY <2>1 DEF OwedInv
    <2> QED
      BY <1>2, <2>1, <2>2, QuietOwed
  <1> QED
    BY <1>3, <1>4, <1>5, SMT

\* A policy is applied, an engine is switched, an entry goes stale.
LEMMA AmbientOwed ==
    ASSUME PoliciesShrink, OwedInv, Typed,
           \/ ApplyPolicy
           \/ \E x \in Switchable : ToggleEngine(x)
           \/ \E g \in Groups, m \in ScanMsgs : ScanMsgGoesIdle(g, m)
           \/ \E m \in ResMsgs : ResMsgGoesIdle(m)
           \/ UNCHANGED vars
    PROVE  OwedInv'
  <1>0. /\ UNCHANGED <<pc, held, todo, cur, bad, mode, req>> /\ UNCHANGED <<job, wait, blob>>
        /\ UNCHANGED <<engines, wk>>
    BY DEF ApplyPolicy, ToggleEngine, ScanMsgGoesIdle, ResMsgGoesIdle, vars, colVars, dbVars,
       wkVars
  <1>a. WkOK /\ EnvOK /\ ResOK
    BY TypedParts
  <1>1. Policies[policy'] \subseteq Policies[policy]
    <2>1. CASE ApplyPolicy
      BY <1>a, <2>1, PoliciesAssumption, SMT DEF ApplyPolicy, PoliciesShrink, EnvOK, PolicyIds
    <2>2. CASE UNCHANGED policy
      BY <2>2
    <2> QED
      BY <2>1, <2>2 DEF ToggleEngine, ScanMsgGoesIdle, ResMsgGoesIdle, vars, envVars
  <1>2. Live(resG') = Live(resG) /\ StaleOK(resG')
    <2>1. CASE UNCHANGED resG
      BY <2>1 DEF OwedInv
    <2>2. CASE \E m \in ResMsgs : ResMsgGoesIdle(m)
      <3>1. PICK m \in ResMsgs : resG' = WentIdle(resG, m) /\ m \in resG.pend
        BY <2>2 DEF ResMsgGoesIdle
      <3> QED
        BY <1>a, <3>1, LiveAfter DEF ResOK, OwedInv
    <2> QED
      BY <2>1, <2>2 DEF ApplyPolicy, ToggleEngine, ScanMsgGoesIdle, vars
  <1>3. \A g \in Groups : StaleOK(scansG'[g]) /\ Live(scansG'[g]) = Live(scansG[g])
    <2>1. CASE UNCHANGED scansG
      BY <2>1 DEF OwedInv
    <2>2. CASE \E g \in Groups, m \in ScanMsgs : ScanMsgGoesIdle(g, m)
      <3>1. PICK g \in Groups, m \in ScanMsgs : ScanMsgGoesIdle(g, m)
        BY <2>2
      <3>2. /\ m \in scansG[g].pend /\ scansG'[g] = WentIdle(scansG[g], m)
            /\ \A h \in Groups \ {g} : scansG'[h] = scansG[h]
        BY <1>a, <3>1 DEF ScanMsgGoesIdle, WkOK
      <3>3. scansG[g] \in Group(ScanMsgs) /\ StaleOK(scansG[g])
        BY <1>a DEF WkOK, OwedInv
      <3>4. StaleOK(scansG'[g]) /\ Live(scansG'[g]) = Live(scansG[g])
        <4>1. StaleOK(WentIdle(scansG[g], m)) /\ Live(WentIdle(scansG[g], m)) = Live(scansG[g])
          BY <3>2, <3>3, LiveAfter, SMT
        <4> QED
          BY <3>2, <4>1
      <3> QED
        BY <3>2, <3>4 DEF OwedInv
    <2> QED
      BY <2>1, <2>2 DEF ApplyPolicy, ToggleEngine, ResMsgGoesIdle, vars, wkVars
  <1>4. Outside
    BY <1>0, <1>1, <1>2 DEF Outside, Closed
  <1> QED
    BY <1>0, <1>2, <1>3, <1>4, QuietOwed

\* The invariant after a step of one worker
LEMMA WorkerGlue ==
    ASSUME OwedInv, Typed, Outside, FloorKept, UNCHANGED engines,
           NEW w \in Workers, NEW r, wk' = [wk EXCEPT ![w] = r],
           \A g \in Groups : StaleOK(scansG'[g]) /\ Live(scansG'[g]) \subseteq Live(scansG[g]),
           \A m \in ScanMsgs : m \in r.held \/ m = r.cur => Outstanding(m),
           \A m \in Live(resG') : m \in Live(resG) \/ Owed(m[1])',
           w \in FloorWorkers => WorkerOwes(w)'
    PROVE  OwedInv'
  <1>1. wk'[w] = r /\ \A v \in Workers \ {w} : wk'[v] = wk[v]
    BY DEF Typed, TypeOK
  <1>2. \A v \in FloorWorkers : wk'[v] = wk[v] \/ WorkerOwes(v)'
    BY <1>1 DEF Workers
  <1>3. ASSUME NEW m \in ScanMsgs, Outstanding(m)' PROVE Outstanding(m)
    <2>1. CASE \E g \in Groups : m \in Live(scansG'[g])
      BY <2>1 DEF Outstanding
    <2>2. CASE \E v \in Workers : m \in wk'[v].held \/ m = wk'[v].cur
      BY <1>1, <2>2 DEF Outstanding
    <2> QED
      BY <1>3, <2>1, <2>2 DEF Outstanding, Live
  <1> QED
    BY <1>2, <1>3, StreamGlue

\* A worker claims entries, gives its job up or dies: nothing is acknowledged.
LEMMA WorkerRestsOwed ==
    ASSUME OwedInv, Typed, NEW w \in Workers, Claim(w) \/ JobFails(w) \/ WorkerDies(w)
    PROVE  OwedInv'
  <1> DEFINE g == GroupOf(w)
  <1>0. /\ wk[w] \in WorkerState /\ g \in Groups /\ scansG[g] \in Group(ScanMsgs)
        /\ StaleOK(scansG[g]) /\ scansG \in [Groups -> Group(ScanMsgs)] /\ wk \in [Workers -> WorkerState]
    BY WorkerGroup DEF Typed, TypeOK, OwedInv
  <1>1. /\ UNCHANGED <<pc, held, todo, cur, bad, mode, req>> /\ UNCHANGED <<policy, blob, job, wait>>
        /\ UNCHANGED <<engines, resG>>
    BY DEF Claim, JobFails, WorkerDies, colVars, envVars, dbVars
  <1>2. Outside
    BY <1>1 DEF Outside, OwedInv, Closed
  <1>3. \A h \in Groups : StaleOK(scansG'[h]) /\ Live(scansG'[h]) = Live(scansG[h])
    <2>1. CASE Claim(w)
      <3>1. scansG'[g] = Claimed(scansG[g]) /\ \A h \in Groups \ {g} : scansG'[h] = scansG[h]
        BY <1>0, <2>1 DEF Claim
      <3>2. StaleOK(Claimed(scansG[g])) /\ Live(Claimed(scansG[g])) = Live(scansG[g])
        BY DEF StaleOK, Live, Claimed
      <3> QED
        BY <3>1, <3>2 DEF OwedInv
    <2>2. CASE JobFails(w) \/ WorkerDies(w)
      BY <2>2 DEF JobFails, WorkerDies, OwedInv
    <2> QED
      BY <2>1, <2>2, SMT
  <1>4. "floor" \in Groups
    BY DEF Groups
  <1>5. FloorKept
    BY <1>1, <1>3, <1>4 DEF FloorKept
  <1>6. PICK r : /\ wk' = [wk EXCEPT ![w] = r] /\ r.pc \in {"take", "idle"}
                 /\ \A m \in ScanMsgs : m \in r.held \/ m = r.cur => Outstanding(m)
    <2>0. \A m \in ScanMsgs : m \in wk[w].held \/ m = wk[w].cur => Outstanding(m)
      BY DEF Outstanding
    <2>1. CASE Claim(w)
      <3> DEFINE r == [wk[w] EXCEPT !.pc = "take", !.held = Claimable(scansG[g]),
                                    !.off = IF g = "sandbox" THEN Disabled ELSE {}]
      <3>1. wk' = [wk EXCEPT ![w] = r]
        BY <1>0, <2>1 DEF Claim
      <3>2. r.pc = "take" /\ r.held = Claimable(scansG[g]) /\ r.cur = wk[w].cur
        BY <1>0 DEF WorkerState
      <3>3. Claimable(scansG[g]) \subseteq Live(scansG[g])
        BY <1>0 DEF Claimable, Live, StaleOK
      <3>4. \A m \in Live(scansG[g]) : Outstanding(m)
        BY <1>0 DEF Outstanding
      <3> HIDE DEF r
      <3> QED
        BY <2>0, <3>1, <3>2, <3>3, <3>4
    <2>2. CASE JobFails(w)
      <3>1. wk' = [wk EXCEPT ![w] = Released(wk[w])]
        BY <1>0, <2>2 DEF JobFails
      <3>2. /\ Released(wk[w]).pc \in {"take", "idle"} /\ Released(wk[w]).held \subseteq wk[w].held
            /\ Released(wk[w]).cur = NoMsg
        BY <1>0 DEF Released, WorkerState, IdleWorker
      <3> QED
        BY <2>0, <3>1, <3>2, ConstantsAssumption
    <2>3. CASE WorkerDies(w)
      <3>1. IdleWorker.pc = "idle" /\ IdleWorker.held = {} /\ IdleWorker.cur = NoMsg
        BY DEF IdleWorker
      <3>2. wk' = [wk EXCEPT ![w] = IdleWorker]
        BY <2>3 DEF WorkerDies
      <3> QED
        BY <3>1, <3>2, ConstantsAssumption
    <2> QED
      BY <2>1, <2>2, <2>3, SMT
  <1>7. WorkerOwes(w)'
    <2>1. wk'[w].pc \in {"take", "idle"}
      BY <1>0, <1>6
    <2> QED
      BY <2>1 DEF WorkerOwes
  <1>8. \A m \in Live(resG') : m \in Live(resG)
    BY <1>1
  <1> HIDE DEF g
  <1> QED
    BY <1>1, <1>2, <1>3, <1>5, <1>6, <1>7, <1>8, WorkerGlue

\* A worker takes a job: everything is still to be run, or a terminal status is
\* still to be sent.
LEMMA TakeOwed ==
    ASSUME OwedInv, Typed, NEW w \in Workers,
           (w \in FloorWorkers /\ FloorTake(w)) \/ (w \in SandWorkers /\ SandTake(w))
    PROVE  OwedInv'
  <1>0. wk[w] \in WorkerState /\ wk \in [Workers -> WorkerState]
    BY DEF Typed, TypeOK
  <1>1. /\ UNCHANGED <<pc, held, todo, cur, bad, mode, req>> /\ UNCHANGED <<policy, blob, job, wait>>
        /\ UNCHANGED <<engines, resG, scansG>>
    BY DEF FloorTake, SandTake, colVars, envVars, dbVars
  <1>2. Outside
    BY <1>1 DEF Outside, OwedInv, Closed
  <1>3. FloorKept /\ \A g \in Groups : StaleOK(scansG'[g]) /\ Live(scansG'[g]) = Live(scansG[g])
    BY <1>1 DEF FloorKept, OwedInv
  <1>4. PICK r : /\ wk' = [wk EXCEPT ![w] = r] /\ r.held \subseteq wk[w].held /\ r.cur \in wk[w].held
                 /\ w \in FloorWorkers =>
                       \/ r.pc = "send" /\ r.tag \in Terminal /\ r.todo = {}
                       \/ r.tag \notin Terminal /\ r.todo = engines[r.cur]
    <2>1. CASE w \in FloorWorkers /\ FloorTake(w)
      <3>1. PICK m \in wk[w].held :
              LET poison == Exhausted(scansG["floor"], {m})
                  reject == m[1] \in Rejected \cup Lost
              IN wk' = [wk EXCEPT ![w] =
                   [@ EXCEPT !.cur  = m,
                             !.held = wk[w].held \ {m},
                             !.pc   = IF poison \/ reject THEN "send" ELSE "run",
                             !.tag  = IF poison THEN POISON_PILL
                                      ELSE IF reject THEN UNPACK_REJECTED ELSE "none",
                             !.todo = IF poison \/ reject THEN {} ELSE engines[m]]]
        BY <2>1 DEF FloorTake
      <3> DEFINE poison == Exhausted(scansG["floor"], {m})
      <3> DEFINE reject == m[1] \in Rejected \cup Lost
      <3> DEFINE r == [wk[w] EXCEPT !.cur  = m,
                           !.held = wk[w].held \ {m},
                           !.pc   = IF poison \/ reject THEN "send" ELSE "run",
                           !.tag  = IF poison THEN POISON_PILL
                                    ELSE IF reject THEN UNPACK_REJECTED ELSE "none",
                           !.todo = IF poison \/ reject THEN {} ELSE engines[m]]
      <3>2. wk' = [wk EXCEPT ![w] = r]
        BY <1>0, <3>1
      <3> HIDE DEF poison, reject
      <3>3. /\ r.cur = m /\ r.held = wk[w].held \ {m}
            /\ r.pc = IF poison \/ reject THEN "send" ELSE "run"
            /\ r.tag = IF poison THEN POISON_PILL ELSE IF reject THEN UNPACK_REJECTED ELSE "none"
            /\ r.todo = IF poison \/ reject THEN {} ELSE engines[m]
        BY <1>0 DEF WorkerState
      <3> HIDE DEF r
      <3>4. "none" \notin Terminal /\ POISON_PILL \in Terminal /\ UNPACK_REJECTED \in Terminal
        BY DEF Terminal, POISON_PILL, UNPACK_REJECTED
      <3>5. CASE poison \/ reject
        <4>1. r.tag \in Terminal /\ r.pc = "send" /\ r.todo = {}
          BY <3>3, <3>4, <3>5
        <4> QED
          BY <3>2, <3>3, <4>1
      <3>6. CASE ~(poison \/ reject)
        <4>1. r.tag \notin Terminal /\ r.todo = engines[r.cur]
          BY <3>3, <3>4, <3>6
        <4> QED
          BY <3>2, <3>3, <4>1
      <3> QED
        BY <3>5, <3>6
    <2>2. CASE w \in SandWorkers /\ SandTake(w)
      <3>1. PICK m \in wk[w].held :
              wk' = [wk EXCEPT ![w] =
                [@ EXCEPT !.cur  = m,
                          !.held = wk[w].held \ {m},
                          !.pc   = "run",
                          !.tag  = "none",
                          !.todo = IF m[1] \in Rejected \cup Lost
                                     THEN {} ELSE Sandbox \ wk[w].off]]
        BY <2>2 DEF SandTake
      <3> DEFINE r == [wk[w] EXCEPT
                         !.cur  = m,
                         !.held = wk[w].held \ {m},
                         !.pc   = "run",
                         !.tag  = "none",
                         !.todo = IF m[1] \in Rejected \cup Lost
                                    THEN {} ELSE Sandbox \ wk[w].off]
      <3>2. wk' = [wk EXCEPT ![w] = r] /\ r.cur = m /\ r.held = wk[w].held \ {m}
        BY <1>0, <3>1 DEF WorkerState
      <3>3. w \notin FloorWorkers
        BY <2>2, ConstantsAssumption
      <3> HIDE DEF r
      <3> QED
        BY <3>2, <3>3
    <2> QED
      BY <2>1, <2>2, SMT
  <1>5. \A m \in ScanMsgs : m \in r.held \/ m = r.cur => Outstanding(m)
    BY <1>4 DEF Outstanding
  <1>6. w \in FloorWorkers => WorkerOwes(w)'
    <2>1. wk'[w] = r
      BY <1>0, <1>4
    <2> QED
      BY <1>1, <1>4, <2>1 DEF WorkerOwes
  <1>7. \A m \in Live(resG') : m \in Live(resG)
    BY <1>1
  <1> QED
    BY <1>1, <1>2, <1>3, <1>4, <1>5, <1>6, <1>7, WorkerGlue

\* An engine that has run has its findings stored.
LEMMA PutBlobOwed ==
    ASSUME OwedInv, Typed, NEW w \in Workers, PutBlob(w)
    PROVE  OwedInv'
  <1>0. /\ wk[w] \in WorkerState /\ wk \in [Workers -> WorkerState]
        /\ blob \in [Scans -> SUBSET (Floor \cup Sandbox)]
        /\ wk[w].pc = "run" /\ wk[w].cur \in ScanMsgs
    BY DEF Typed, TypeOK, CursorOK, PutBlob
  <1>1. /\ UNCHANGED <<pc, held, todo, cur, bad, mode, req>> /\ UNCHANGED <<policy, job, wait>>
        /\ UNCHANGED <<engines, resG, scansG>>
    BY DEF PutBlob, colVars, envVars, dbVars
  <1>2. PICK e \in wk[w].todo :
          /\ blob' = [blob EXCEPT ![wk[w].cur[1]] = @ \cup {e}]
          /\ wk' = [wk EXCEPT ![w] =
                      [@ EXCEPT !.pc = "send", !.tag = e, !.todo = wk[w].todo \ {e}]]
    BY DEF PutBlob
  <1>3. PICK s \in Scans : s = wk[w].cur[1]
    BY <1>0, SMT DEF ScanMsgs
  <1>4. blob'[s] = blob[s] \cup {e} /\ \A z \in Scans : blob[z] \subseteq blob'[z]
    BY <1>0, <1>2, <1>3
  <1>5. Outside
    BY <1>1, <1>4 DEF Outside, OwedInv, Closed
  <1>6. FloorKept /\ \A g \in Groups : StaleOK(scansG'[g]) /\ Live(scansG'[g]) = Live(scansG[g])
    BY <1>1 DEF FloorKept, OwedInv
  <1> DEFINE r == [wk[w] EXCEPT !.pc = "send", !.tag = e, !.todo = wk[w].todo \ {e}]
  <1>7. wk' = [wk EXCEPT ![w] = r] /\ wk'[w] = r
    BY <1>0, <1>2
  <1>8. /\ r.pc = "send" /\ r.tag = e /\ r.todo = wk[w].todo \ {e} /\ r.held = wk[w].held
        /\ r.cur = wk[w].cur
    BY <1>0 DEF WorkerState
  <1> HIDE DEF r
  <1>9. \A m \in ScanMsgs : m \in r.held \/ m = r.cur => Outstanding(m)
    BY <1>8 DEF Outstanding
  <1>10. e \notin Terminal
    BY <1>0, <1>2, ConstantsAssumption DEF WorkerState
  <1>11. ASSUME w \in FloorWorkers PROVE WorkerOwes(w)'
    <2>1. wk[w].tag \notin Terminal /\ engines[wk[w].cur] \subseteq blob[s] \cup wk[w].todo
      BY <1>0, <1>2, <1>3, <1>11 DEF OwedInv, WorkerOwes
    <2>2. engines'[wk'[w].cur] \subseteq blob'[wk'[w].cur[1]] \cup wk'[w].todo
      BY <1>1, <1>3, <1>4, <1>7, <1>8, <2>1
    <2>3. wk'[w].tag \notin Terminal /\ wk'[w].pc = "send"
      BY <1>7, <1>8, <1>10
    <2> QED
      BY <2>2, <2>3 DEF WorkerOwes
  <1>12. \A m \in Live(resG') : m \in Live(resG)
    BY <1>1
  <1> QED
    BY <1>1, <1>5, <1>6, <1>7, <1>9, <1>11, <1>12, WorkerGlue

\* A worker announces a result; the last one of a job settles the scan.
LEMMA SendOwed ==
    ASSUME OwedInv, Typed, NEW w \in Workers, SendResult(w)
    PROVE  OwedInv'
  <1>0. /\ wk[w] \in WorkerState /\ wk \in [Workers -> WorkerState]
        /\ wk[w].pc = "send" /\ wk[w].cur \in ScanMsgs
    BY DEF Typed, TypeOK, CursorOK, SendResult
  <1>1. /\ UNCHANGED <<pc, held, todo, cur, bad, mode, req>> /\ UNCHANGED <<policy, blob, job, wait>>
        /\ UNCHANGED <<engines, scansG>>
    BY DEF SendResult, colVars, envVars, dbVars
  <1>2. PICK s \in Scans : s = wk[w].cur[1]
    BY <1>0, SMT DEF ScanMsgs
  <1>3. ProduceResult(s, wk[w].tag) /\ wk' = [wk EXCEPT ![w] = [wk[w] EXCEPT !.pc = "run"]]
    BY <1>0, <1>2 DEF SendResult
  <1>4. /\ Live(resG) \subseteq Live(resG') /\ StaleOK(resG')
        /\ \A m \in Live(resG') : m \in Live(resG) \/ m[1] = s
        /\ wk[w].tag \in Terminal \/ Policies[policy] \subseteq blob[s] => Settled(s)'
    <2>1. StaleOK(resG)
      BY DEF OwedInv
    <2> QED
      BY <1>1, <1>3, <2>1, FreshResult
  <1>5. Outside
    BY <1>1, <1>4 DEF Outside, Closed
  <1>6. FloorKept /\ \A g \in Groups : StaleOK(scansG'[g]) /\ Live(scansG'[g]) = Live(scansG[g])
    BY <1>1 DEF FloorKept, OwedInv
  <1> DEFINE r == [wk[w] EXCEPT !.pc = "run"]
  <1>7. wk' = [wk EXCEPT ![w] = r] /\ wk'[w] = r
    BY <1>0, <1>3
  <1>8. /\ r.pc = "run" /\ r.tag = wk[w].tag /\ r.todo = wk[w].todo /\ r.held = wk[w].held
        /\ r.cur = wk[w].cur
    BY <1>0 DEF WorkerState
  <1> HIDE DEF r
  <1>9. \A m \in ScanMsgs : m \in r.held \/ m = r.cur => Outstanding(m)
    BY <1>8 DEF Outstanding
  <1>10. EntryOwes(wk[w].cur)
    BY <1>0 DEF OwedInv, Outstanding
  <1>11. Owed(s)'
    <2>1. CASE engines[wk[w].cur] # {}
      BY <1>2, <1>5, <1>6, <1>10, <2>1, OutsideOwed DEF EntryOwes
    <2>2. CASE engines[wk[w].cur] = {}
      <3>1. Policies[policy] \subseteq blob[s] /\ job'[s] # "absent"
        BY <1>1, <1>2, <1>10, <2>2 DEF EntryOwes
      <3> QED
        BY <1>4, <3>1 DEF Owed
    <2> QED
      BY <2>1, <2>2, SMT
  <1>12. \A m \in Live(resG') : m \in Live(resG) \/ Owed(m[1])'
    BY <1>4, <1>11
  <1>13. ASSUME w \in FloorWorkers PROVE WorkerOwes(w)'
    <2>0. WorkerOwes(w)
      BY <1>13 DEF OwedInv
    <2>1. CASE wk[w].tag \in Terminal
      <3>1. wk[w].todo = {} /\ Settled(s)'
        BY <1>0, <1>4, <2>0, <2>1 DEF WorkerOwes
      <3>2. wk'[w].cur[1] = s /\ wk'[w].todo = {} /\ wk'[w].tag \in Terminal
        BY <1>2, <1>7, <1>8, <2>1, <3>1
      <3> QED
        BY <3>1, <3>2 DEF WorkerOwes
    <2>2. CASE wk[w].tag \notin Terminal
      <3>1. engines[wk[w].cur] \subseteq blob[s] \cup wk[w].todo
        BY <1>0, <1>2, <2>0, <2>2 DEF WorkerOwes
      <3>2. wk[w].todo = {} => Settled(s)'
        BY <1>4, <1>10, <3>1 DEF EntryOwes
      <3>3. /\ wk'[w].cur[1] = s /\ wk'[w].cur = wk[w].cur /\ wk'[w].todo = wk[w].todo
            /\ wk'[w].tag \notin Terminal
        BY <1>2, <1>7, <1>8, <2>2
      <3>4. engines'[wk'[w].cur] \subseteq blob'[wk'[w].cur[1]] \cup wk'[w].todo
        BY <1>1, <3>1, <3>3
      <3> QED
        BY <3>2, <3>3, <3>4 DEF WorkerOwes
    <2> QED
      BY <2>1, <2>2, SMT
  <1> QED
    BY <1>1, <1>5, <1>6, <1>7, <1>9, <1>12, <1>13, WorkerGlue

\* An acknowledged floor job is a settled one, or had no engine to run.
LEMMA AckJobOwed ==
    ASSUME OwedInv, Typed, NEW w \in Workers, AckJob(w)
    PROVE  OwedInv'
  <1> DEFINE g == GroupOf(w)
  <1>0. /\ wk[w] \in WorkerState /\ wk \in [Workers -> WorkerState]
        /\ wk[w].pc = "run" /\ wk[w].todo = {} /\ wk[w].cur \in ScanMsgs
        /\ g \in Groups /\ scansG[g] \in Group(ScanMsgs) /\ StaleOK(scansG[g])
        /\ scansG \in [Groups -> Group(ScanMsgs)]
    BY WorkerGroup DEF Typed, TypeOK, CursorOK, AckJob, OwedInv
  <1>1. /\ UNCHANGED <<pc, held, todo, cur, bad, mode, req>> /\ UNCHANGED <<policy, blob, job, wait>>
        /\ UNCHANGED <<engines, resG>>
    BY DEF AckJob, colVars, envVars, dbVars
  <1>2. Outside
    BY <1>1 DEF Outside, OwedInv, Closed
  <1>3. /\ scansG'[g] = Acked(scansG[g], wk[w].cur)
        /\ \A h \in Groups \ {g} : scansG'[h] = scansG[h]
        /\ wk' = [wk EXCEPT ![w] = Released(wk[w])]
    BY <1>0 DEF AckJob
  <1>4. /\ StaleOK(scansG'[g]) /\ Live(scansG'[g]) \subseteq Live(scansG[g])
        /\ Live(scansG[g]) \ {wk[w].cur} \subseteq Live(scansG'[g])
    <2>1. /\ StaleOK(Acked(scansG[g], wk[w].cur))
          /\ Live(Acked(scansG[g], wk[w].cur)) \subseteq Live(scansG[g])
          /\ Live(scansG[g]) \ {wk[w].cur} \subseteq Live(Acked(scansG[g], wk[w].cur))
      BY <1>0, LiveAfter, SMT
    <2> QED
      BY <1>3, <2>1
  <1>5. \A h \in Groups : StaleOK(scansG'[h]) /\ Live(scansG'[h]) \subseteq Live(scansG[h])
    BY <1>3, <1>4 DEF OwedInv
  <1>6. /\ Released(wk[w]).pc \in {"take", "idle"} /\ Released(wk[w]).held \subseteq wk[w].held
        /\ Released(wk[w]).cur = NoMsg
    BY <1>0 DEF Released, WorkerState, IdleWorker
  <1>7. \A m \in ScanMsgs : m \in Released(wk[w]).held \/ m = Released(wk[w]).cur => Outstanding(m)
    BY <1>6, ConstantsAssumption DEF Outstanding
  <1>8. WorkerOwes(w)'
    <2>1. wk'[w].pc \in {"take", "idle"}
      BY <1>0, <1>3, <1>6
    <2> QED
      BY <2>1 DEF WorkerOwes
  <1>9. FloorKept
    <2>1. CASE w \in FloorWorkers
      <3>1. engines[wk[w].cur] = {} \/ Settled(wk[w].cur[1])
        BY <1>0, <2>1 DEF OwedInv, WorkerOwes
      <3>2. g = "floor"
        BY <2>1 DEF GroupOf
      <3> QED
        BY <1>1, <1>4, <3>1, <3>2 DEF FloorKept
    <2>2. CASE w \notin FloorWorkers
      <3>1. g # "floor" /\ "floor" \in Groups
        BY <2>2 DEF GroupOf, Groups
      <3> QED
        BY <1>1, <1>3, <3>1 DEF FloorKept
    <2> QED
      BY <2>1, <2>2, SMT
  <1>10. \A m \in Live(resG') : m \in Live(resG)
    BY <1>1
  <1> HIDE DEF g
  <1> QED
    BY <1>1, <1>2, <1>3, <1>5, <1>7, <1>8, <1>9, <1>10, WorkerGlue

\* Every step of a worker
LEMMA WorkerOwed ==
    ASSUME OwedInv, Typed, NEW w \in Workers, WorkerStep(w) \/ JobFails(w) \/ WorkerDies(w)
    PROVE  OwedInv'
  <1>1. CASE Claim(w) \/ JobFails(w) \/ WorkerDies(w)
    BY <1>1, WorkerRestsOwed
  <1>2. CASE (w \in FloorWorkers /\ FloorTake(w)) \/ (w \in SandWorkers /\ SandTake(w))
    BY <1>2, TakeOwed
  <1>3. CASE PutBlob(w) \/ SendResult(w) \/ AckJob(w)
    BY <1>3, PutBlobOwed, SendOwed, AckJobOwed
  <1> QED
    BY <1>1, <1>2, <1>3 DEF WorkerStep

\* Every step of the pipeline
LEMMA NextOwed ==
    ASSUME PoliciesShrink, OwedInv, Typed, RowsInv, [Next]_vars PROVE OwedInv'
  <1>1. CASE Rest
    BY <1>1, AmbientOwed DEF Rest
  <1> QED
    BY <1>1, EnvironmentOwed, AmbientOwed, WorkerOwed, CollectorOwed DEF Next

\* No wakeup is lost: as long as successive policies require no further engines,
\* somebody owes every running scan a step, whatever the replicas, redeliveries,
\* exceptions and deaths between storing a blob, announcing it and acknowledging
\* the job.
THEOREM NoWakeupIsLost ==
    ASSUME PoliciesShrink PROVE Spec => []RunningScanIsOwed
  <1>1. Init => OwedInv
    BY InitOwed, SMT
  <1>2. OwedInv /\ Typed /\ RowsInv /\ [Next]_vars => OwedInv'
    BY NextOwed, SMT
  <1>3. OwedInv => RunningScanIsOwed
    BY DEF OwedInv, RunningScanIsOwed, Owed, Settled, Closed, TerminalDue, AnswerDue, JobDue
  <1> QED
    BY <1>1, <1>2, <1>3, RowsAlways, PTL DEF Spec
=============================================================================
