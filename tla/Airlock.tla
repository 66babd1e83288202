------------------------------- MODULE Airlock -------------------------------
(***************************************************************************)
(* One consumer group of a Redis stream, as libs/common/airlock.py uses    *)
(* it: XADD, XREADGROUP ">", XAUTOCLAIM, XACK and XPENDING.  A group is a  *)
(* record of the entries it has not delivered yet (new), the ones it has   *)
(* delivered and not seen acknowledged (pend), the pending ones that have  *)
(* been idle for STALE_CLAIM_IDLE_MS (idle), and how often each entry was  *)
(* delivered (cnt).  Counts saturate at MaxDelivery + 1: the code only     *)
(* ever asks whether a count exceeds MAX_DELIVERY_COUNT.                   *)
(***************************************************************************)
EXTENDS Naturals

CONSTANT MaxDelivery    \* MAX_DELIVERY_COUNT

ASSUME MaxDeliveryAssumption == MaxDelivery \in Nat

Group(Msgs) ==
    [new  : SUBSET Msgs,
     pend : SUBSET Msgs,
     idle : SUBSET Msgs,
     cnt  : [Msgs -> 0..(MaxDelivery + 1)]]

EmptyGroup(Msgs) ==
    [new |-> {}, pend |-> {}, idle |-> {}, cnt |-> [m \in Msgs |-> 0]]

\* Entries the group still owes somebody: undelivered or unacknowledged.
Live(g) == g.new \cup g.pend

\* XADD, seen from one group (produce_scan_job, produce_result).
Produced(g, m) == [g EXCEPT !.new = @ \cup {m}]

\* What one tick obtains: everything undelivered (claim_*) and everything
\* pending that has gone stale (reclaim_stale_*).
Claimable(g) == g.new \cup g.idle

Claimed(g) ==
    [new  |-> {},
     pend |-> g.pend \cup g.new,
     idle |-> {},
     cnt  |-> [m \in DOMAIN g.cnt |->
                 IF m \in Claimable(g) /\ g.cnt[m] <= MaxDelivery
                   THEN g.cnt[m] + 1 ELSE g.cnt[m]]]

\* Time: a pending entry has been idle for STALE_CLAIM_IDLE_MS.
WentIdle(g, m) == [g EXCEPT !.idle = @ \cup {m}]

\* XACK; a no-op on an entry that is no longer pending.
Acked(g, m) ==
    [g EXCEPT !.pend = @ \ {m}, !.idle = @ \ {m}, !.cnt = [@ EXCEPT ![m] = 0]]

\* delivery_count(...) > MAX_DELIVERY_COUNT for some entry of S.
Exhausted(g, S) == \E m \in S : g.cnt[m] > MaxDelivery
=============================================================================
