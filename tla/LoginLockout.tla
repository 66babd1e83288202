---------------------------- MODULE LoginLockout ----------------------------
(***************************************************************************)
(* The counters in Redis that refuse a caller for the rest of a window:    *)
(* the lockout of a local account (admin/local_auth.py) and of a service   *)
(* account (gateway/auth/m2m.py) after wrong passwords, and the polling    *)
(* limit of a marketplace (marketplace_api/ratelimit.py).  Each Lua script *)
(* of libs/common/redis_window_counter.py is one step; other callers run   *)
(* between the check of a counter and its increment.                       *)
(***************************************************************************)
EXTENDS Naturals, FiniteSets

CONSTANTS AccountKeys,     \* counters of local accounts
          ServiceKeys,     \* counters of service accounts
          PollKeys,        \* counters of polling service accounts
          Callers,
          Threshold,       \* wrong passwords that lock
          PollLimit,       \* limit_per_min
          Window           \* length of a window, in ticks

\* Windows are not empty, and the keys of logins and polls have other prefixes.
ASSUME LockoutAssumption ==
    /\ Window \in Nat \ {0} /\ Threshold \in Nat /\ PollLimit \in Nat
    /\ IsFiniteSet(Callers) /\ Callers # {}
    /\ (AccountKeys \cup ServiceKeys) \cap PollKeys = {}

VARIABLES counter,         \* key -> [n, ttl]: the Redis key, n = 0 when absent
          caller           \* what each caller is doing, [at, key]

lockoutVars == <<counter, caller>>

PasswordKeys == AccountKeys \cup ServiceKeys
WindowKeys == PasswordKeys \cup PollKeys
NoExpiry == Window + 1     \* TTL -1: the key is there without a bound
Away == [n |-> 0, ttl |-> 0]
Quiet == [at |-> "idle", key |-> "none"]

\* Counts this far above both limits are the same to the code.
Saturation == Threshold + PollLimit + Cardinality(Callers)

\* A counter may have been stranded by the version before the Lua scripts.
LockoutInit ==
    /\ \E stranded \in SUBSET WindowKeys :
           counter = [k \in WindowKeys |->
               IF k \notin stranded THEN Away
               ELSE [n |-> IF k \in PollKeys THEN PollLimit + 1 ELSE Threshold,
                     ttl |-> NoExpiry]]
    /\ caller = [c \in Callers |-> Quiet]

-----------------------------------------------------------------------------
\* Variant: EXPIRE on every call, a window that slides.
RearmedAlways(v) == [v EXCEPT !.ttl = Window]

\* EXPIRE when TTL is negative.
Rearmed(v) == IF v.ttl = NoExpiry \/ v.ttl = 0 THEN [v EXCEPT !.ttl = Window] ELSE v

IncrInWindow(v) ==
    Rearmed([v EXCEPT !.n = IF v.n < Saturation THEN v.n + 1 ELSE v.n])

\* A plain GET: nothing on the way to a refusal repairs the key.
ReadPlainly(v) == v

ReadInWindow(v) == IF v = Away THEN v ELSE Rearmed(v)

\* Variant: one failure more than the threshold locks.
CheckLockoutLate(c, k) ==
    /\ caller[c] = Quiet /\ k \in PasswordKeys
    /\ counter' = [counter EXCEPT ![k] = ReadInWindow(@)]
    /\ caller' = [caller EXCEPT ![c] =
           [at |-> IF counter[k].n > Threshold THEN "refused" ELSE "checked", key |-> k]]

\* The lockout is checked before the password.
CheckLockout(c, k) ==
    /\ caller[c] = Quiet /\ k \in PasswordKeys
    /\ counter' = [counter EXCEPT ![k] = ReadInWindow(@)]
    /\ caller' = [caller EXCEPT ![c] =
           [at |-> IF counter[k].n >= Threshold THEN "refused" ELSE "checked", key |-> k]]

\* Unknown name or wrong password: one more failure.
WrongPassword(c) ==
    /\ caller[c].at = "checked"
    /\ counter' = [counter EXCEPT ![caller[c].key] = IncrInWindow(@)]
    /\ caller' = [caller EXCEPT ![c] = Quiet]

RightPassword(c) ==
    /\ caller[c].at = "checked"
    /\ counter' = [counter EXCEPT ![caller[c].key] = Away]
    /\ caller' = [caller EXCEPT ![c] = Quiet]

\* A service account may be missing in the allowlist: refused, failures kept.
NotAllowlisted(c) ==
    /\ caller[c].at = "checked" /\ caller[c].key \in ServiceKeys
    /\ caller' = [caller EXCEPT ![c] = Quiet]
    /\ UNCHANGED counter

\* check_rate_limit counts the refused requests as well.
Poll(c, k) ==
    /\ caller[c] = Quiet /\ k \in PollKeys
    /\ LET now == IncrInWindow(counter[k])
       IN  /\ counter' = [counter EXCEPT ![k] = now]
           /\ caller' = [caller EXCEPT ![c] =
                  IF now.n > PollLimit THEN [at |-> "refused", key |-> k] ELSE Quiet]

TurnedAway(c) ==
    /\ caller[c].at = "refused"
    /\ caller' = [caller EXCEPT ![c] = Quiet]
    /\ UNCHANGED counter

\* A tick of Redis' clock.
WindowTick ==
    /\ counter' = [k \in WindowKeys |->
           CASE counter[k].ttl = 1 -> Away
             [] counter[k].ttl \in 2 .. Window -> [counter[k] EXCEPT !.ttl = @ - 1]
             [] OTHER -> counter[k]]
    /\ UNCHANGED caller

CallerStep(c) ==
    \/ \E k \in WindowKeys : CheckLockout(c, k) \/ Poll(c, k)
    \/ WrongPassword(c) \/ RightPassword(c) \/ NotAllowlisted(c) \/ TurnedAway(c)

LockoutNext == WindowTick \/ \E c \in Callers : CallerStep(c)

LockoutFairness == WF_lockoutVars(WindowTick)

LockoutSpec == LockoutInit /\ [][LockoutNext]_lockoutVars /\ LockoutFairness

-----------------------------------------------------------------------------
AtLimit(k) ==
    IF k \in PollKeys THEN counter[k].n > PollLimit ELSE counter[k].n >= Threshold

RefusedOn(k) == \E c \in Callers : caller[c] = [at |-> "refused", key |-> k]

\* Whoever is turned away leaves a counter that will expire or is gone, whatever
\* the other callers and the clock do meanwhile: the safety behind RefusalEnds
\* (the scripts of redis_window_counter re-arm what has no expiry).
RefusalIsBounded ==
    \A k \in WindowKeys : RefusedOn(k) => counter[k] = Away \/ counter[k].ttl \in 1 .. Window

\* Passwords tried in a window: the check and the count of authenticate_local are
\* two steps, and what that race lets through beyond the threshold is at most one
\* wrong password for each of the other requests in flight.
GuessesAreBounded ==
    \A k \in PasswordKeys : counter[k].n < Threshold + Cardinality(Callers)

\* No refusal is for ever: whenever a caller has been turned away because a
\* counter is at its limit, that counter falls below the limit again, also
\* one that lost its expiry and although nothing but the check touches it.
RefusalEnds == \A k \in WindowKeys : RefusedOn(k) ~> ~AtLimit(k)
=============================================================================
