---------------------------- MODULE MCScanPipeline ----------------------------
(***************************************************************************)
(* Instances of ScanPipeline for TLC.                                      *)
(***************************************************************************)
EXTENDS ScanPipeline, TLC

CONSTANTS f1, f2, c1, c2

\* One applied policy; a policy that later drops, or adds, a required engine.
OnePolicy     == <<{f1}>>
ShrinkingPolicy == <<{f1, f2}, {f1}>>
GrowingPolicy == <<{f1}, {f1, f2}>>

\* Exceptions and process deaths at every program point.
Everywhere == CollectorPC \cup Groups \cup {"commit"}

\* All but the two points after which the code has no way back, which have
\* runs of their own.
Recoverable == Everywhere \ {"gateScore", "markFailed"}

\* Several copies of the entries of the scans that have an artifact, or a batch
\* with the others.
BatchOrCopies ==
    \/ \A s \in Lost : job[s] = "absent"
    \/ /\ \A m \in DOMAIN engines : m[2] = 1 \/ engines[m] = {}
       /\ \A m \in Live(resG) : m[3] = 1

OwedSpec == Init /\ [][Next /\ BatchOrCopies']_vars

\* Collectors are interchangeable.
CollectorSymmetry == Permutations({c1, c2})
=============================================================================
