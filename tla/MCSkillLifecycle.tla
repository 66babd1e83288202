-------------------------- MODULE MCSkillLifecycle --------------------------
(***************************************************************************)
(* The instances of SkillLifecycle that TLC checks.                        *)
(***************************************************************************)
EXTENDS SkillLifecycle

CONSTANTS k1, k2, r1, r2, alice, bob

\* A submitter, a reviewer and administrators beside one replica; two replicas whose ticks
\* overlap while a skill is submitted again; two changes by administrators; two
\* skills that compete for a content.
RaceScenarios ==
    { [submissions |-> 1, changes |-> 2, skills |-> {k1}, users |-> {alice, bob},
       replicas |-> {r1}],
      [submissions |-> 2, changes |-> 0, skills |-> {k1}, users |-> {alice},
       replicas |-> {r1, r2}],
      [submissions |-> 2, changes |-> 2, skills |-> {k1}, users |-> {alice},
       replicas |-> {r1}],
      [submissions |-> 2, changes |-> 0, skills |-> {k1, k2}, users |-> {alice, bob},
       replicas |-> {r1}] }
=============================================================================
