--------------------------- MODULE MCLiveServices ---------------------------
(***************************************************************************)
(* The instances of the services that owe progress.  As in MCServices, one *)
(* of them moves in a behaviour and the others stay in an initial state.   *)
(***************************************************************************)
EXTENDS AuditChain, OutboxRelay, LoginLockout, PolicyWorkflow, Reevaluation

VARIABLE focus   \* the service that moves

LiveInit ==
    /\ focus \in {"audit", "relay", "lockout", "policy", "reeval"}
    /\ AuditInit /\ RelayInit /\ PolicyInit /\ ReevalInit
    /\ LockoutInit /\ (focus = "lockout" \/ \A k \in WindowKeys : counter[k] = Away)

Moves(f) ==
    /\ focus = f /\ UNCHANGED focus
    /\ f # "audit" => UNCHANGED auditVars
    /\ f # "relay" => UNCHANGED relayVars
    /\ f # "lockout" => UNCHANGED lockoutVars
    /\ f # "policy" => UNCHANGED policyVars
    /\ f # "reeval" => UNCHANGED reevalVars

LiveNext ==
    \/ Moves("audit") /\ AuditNext
    \/ Moves("relay") /\ RelayNext
    \/ Moves("lockout") /\ LockoutNext
    \/ Moves("policy") /\ PolicyNext
    \/ Moves("reeval") /\ ReevalNext

liveVars == <<focus, auditVars, relayVars, lockoutVars, policyVars, reevalVars>>

\* The fairness of the services' own specifications, of the one that moves
LiveFairness ==
    /\ \A d \in Drainers : WF_auditVars(focus = "audit" /\ DrainStep(d))
    /\ \A r \in Relays : WF_relayVars(focus = "relay" /\ RelayStep(r))
    /\ WF_lockoutVars(focus = "lockout" /\ WindowTick)
    /\ \A r \in Replicas : WF_policyVars(focus = "policy" /\ Reload(r))
    /\ \A a \in Admins :
          WF_policyVars(focus = "policy" /\ (CommitDecision(a) \/ Promote(a) \/ Install(a)))
    /\ WF_reevalVars(focus = "reeval" /\ \E i \in DOMAIN rescan : RescanEnds(i))
    /\ \A s \in Sites : /\ WF_reevalVars(focus = "reeval" /\ Adopt(s))
                        /\ WF_reevalVars(focus = "reeval" /\ DrainStale(s))
                        /\ WF_reevalVars(focus = "reeval" /\ AdvanceReads(s))
                        /\ WF_reevalVars(focus = "reeval" /\ AdvanceWrites(s))

LiveSpec == LiveInit /\ [][LiveNext]_liveVars /\ LiveFairness

-----------------------------------------------------------------------------
(* PolicyWorkflow: a harder and an equal policy, one that needs an engine the *)
(* deployment lacks, and one that does not parse                              *)

Draft(version, engines, hard, wellFormed) ==
    [version |-> version, engines |-> engines, hard |-> hard, wellFormed |-> wellFormed]
MCFilePolicy == Draft("v0", {"floor"}, {"r1"}, TRUE)
MCDrafts == {Draft("v1", {"floor"}, {"r1", "r2"}, TRUE), Draft("v2", {"floor"}, {"r1"}, TRUE),
             Draft("v3", {"floor", "ghost"}, {}, TRUE), Draft("v2", {"floor"}, {}, FALSE)}

-----------------------------------------------------------------------------
(* Reevaluation: a public skill with two versions and an internal one *)

MCVersions == {[skill |-> "s1", tier |-> 0, hash |-> "h1", made |-> 2],
               [skill |-> "s1", tier |-> 0, hash |-> "h0", made |-> 1],
               [skill |-> "s2", tier |-> 1, hash |-> "h2", made |-> 3]}
=============================================================================
