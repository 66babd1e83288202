----------------------------- MODULE BreakGlass -----------------------------
(***************************************************************************)
(* Emergency access (admin/breakglass.py behind admin/router.py): two      *)
(* people arm it for a while, and the first login that comes burns the     *)
(* arming.  Two Redis keys carry this, and every command on them is a step *)
(* of its own.  Armings are numbered to tell them apart.                   *)
(***************************************************************************)
EXTENDS Naturals, FiniteSets

CONSTANTS Activators,      \* concurrent activation requests
          Logins,          \* concurrent login requests
          MaxArmings       \* bound

ASSUME ArmingsAssumption == MaxArmings \in Nat

VARIABLES armed,           \* _ARMED_KEY: the number of the arming, 0 when absent
          used,            \* _USED_KEY: the arming it was claimed under, 0 when absent
          activating,      \* activator -> step of activate_breakglass
          attempt,         \* login -> arming that its check saw, 0 when idle
          armings,         \* armings so far
          sessions,        \* arming -> sessions opened under it
          wiped            \* arming -> claims under it removed while it was armed (ghost)

glassVars == <<armed, used, activating, attempt, armings, sessions, wiped>>

GlassInit ==
    /\ armed = 0 /\ used = 0
    /\ activating = [a \in Activators |-> "idle"]
    /\ attempt = [l \in Logins |-> 0]
    /\ armings = 0
    /\ sessions = [n \in 1 .. MaxArmings |-> 0]
    /\ wiped = [n \in 1 .. MaxArmings |-> 0]

\* is_armed; its two reads may be taken at the moment of the second.
IsArmed == armed # 0 /\ used = 0

\* Two different people, a known administrator and a valid TOTP code are
\* what the caller has shown before this check.
CheckArmed(a) ==
    /\ activating[a] = "idle" /\ armings < MaxArmings /\ ~IsArmed
    /\ activating' = [activating EXCEPT ![a] = "arm"]
    /\ UNCHANGED <<armed, used, attempt, armings, sessions, wiped>>

Arm(a) ==
    /\ activating[a] = "arm" /\ armings < MaxArmings
    /\ armings' = armings + 1 /\ armed' = armings + 1
    /\ activating' = [activating EXCEPT ![a] = "clear"]
    /\ UNCHANGED <<used, attempt, sessions, wiped>>

ClearUsed(a) ==
    /\ activating[a] = "clear"
    /\ used' = 0
    /\ wiped' = IF used # 0 /\ used = armed THEN [wiped EXCEPT ![used] = @ + 1] ELSE wiped
    /\ activating' = [activating EXCEPT ![a] = "idle"]
    /\ UNCHANGED <<armed, attempt, armings, sessions>>

\* The activation fails between its two commands.
ActivatorDies(a) ==
    /\ activating[a] # "idle"
    /\ activating' = [activating EXCEPT ![a] = "idle"]
    /\ UNCHANGED <<armed, used, attempt, armings, sessions, wiped>>

\* The armed key's TTL runs out, fifteen minutes after it was set: neither the
\* activation nor a login that saw an earlier arming is still under way.
ArmingExpires ==
    /\ armed # 0
    /\ \A l \in Logins : attempt[l] \in {0, armed}
    /\ \A a \in Activators : activating[a] # "clear"
    /\ armed' = 0
    /\ UNCHANGED <<used, activating, attempt, armings, sessions, wiped>>

\* The claim's TTL is four times the arming's, and no request takes that long.
ClaimExpires ==
    /\ used # 0 /\ used # armed /\ \A l \in Logins : attempt[l] # used
    /\ used' = 0
    /\ UNCHANGED <<armed, activating, attempt, armings, sessions, wiped>>

-----------------------------------------------------------------------------
\* authenticate_breakglass: GET, then SET NX, then the credential and the code.
SeeArmed(l) ==
    /\ attempt[l] = 0 /\ armed # 0
    /\ attempt' = [attempt EXCEPT ![l] = armed]
    /\ UNCHANGED <<armed, used, activating, armings, sessions, wiped>>

\* The key is set whether or not it is there.
ClaimAnyway(l, valid) ==
    /\ attempt[l] # 0
    /\ LET n == IF armed # 0 THEN armed ELSE attempt[l]
       IN  used' = n /\ sessions' = [sessions EXCEPT ![n] = IF valid THEN @ + 1 ELSE @]
    /\ attempt' = [attempt EXCEPT ![l] = 0]
    /\ UNCHANGED <<armed, activating, armings, wiped>>

\* The claim is kept when the credential turns out wrong.  A valid one gets a
\* session, which is created after the claim and touches neither key.
Claim(l, valid) ==
    /\ attempt[l] # 0
    /\ LET n == IF armed # 0 THEN armed ELSE attempt[l]
       IN  IF used = 0
           THEN used' = n /\ sessions' = [sessions EXCEPT ![n] = IF valid THEN @ + 1 ELSE @]
           ELSE UNCHANGED <<used, sessions>>
    /\ attempt' = [attempt EXCEPT ![l] = 0]
    /\ UNCHANGED <<armed, activating, armings, wiped>>

GlassNext ==
    \/ ArmingExpires \/ ClaimExpires
    \/ \E a \in Activators : CheckArmed(a) \/ Arm(a) \/ ClearUsed(a) \/ ActivatorDies(a)
    \/ \E l \in Logins : SeeArmed(l) \/ \E valid \in BOOLEAN : Claim(l, valid)

GlassSpec == GlassInit /\ [][GlassNext]_glassVars

-----------------------------------------------------------------------------
\* An arming is good for one login: whatever logins, activations and expiries
\* interleave, a second session under it needs a claim that the DELETE of an
\* activation still at work wiped while the arming stood.
OneLoginPerArming ==
    \A n \in 1 .. MaxArmings : sessions[n] <= 1 + wiped[n]
=============================================================================
