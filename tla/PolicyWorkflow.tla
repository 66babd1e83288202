--------------------------- MODULE PolicyWorkflow ---------------------------
(***************************************************************************)
(* Changes of the gate policy: proposal, approval by a second person and   *)
(* promotion (gate/policy_workflow.py behind admin/router.py), and how the *)
(* replicas come to run the promoted policy (worker.py).  A decision reads *)
(* its row without a lock and commits later; promotion commits in a second *)
(* transaction and installs the policy in its own process afterwards.      *)
(***************************************************************************)
EXTENDS Naturals, FiniteSets

CONSTANTS Admins, Replicas,
          FilePolicy,      \* the policy file every process starts with
          Drafts,          \* proposed documents, [version, engines, hard, wellFormed]
          Available,       \* engines of the deployment
          MaxProposals,    \* bound
          MaxPolicyRestarts

VARIABLES proposal,        \* id -> [draft, by, status, approvedBy]
          inForce,         \* replica -> runtime.policy
          decision,        \* admin -> the request in progress, [id, at, replica]
          seconded,        \* {<<id, admin>>}: approvals that were committed (ghost)
          clashed,         \* a rejection and an approval both committed (ghost)
          policyRestarts

policyVars == <<proposal, inForce, decision, seconded, clashed, policyRestarts>>

Ids == DOMAIN proposal
Undecided == [id |-> 0, at |-> "idle", replica |-> CHOOSE r \in Replicas : TRUE]

\* parse_gate_policy: required fields, and every field of its type.
ParseGatePolicy(d) == d.wellFormed /\ d.version # ""

\* _parse_policy_candidate
Candidate(d) ==
    ParseGatePolicy(d) /\ d.engines # {} /\ d.engines \subseteq Available

PolicyInit ==
    /\ proposal = <<>>
    /\ inForce = [r \in Replicas |-> FilePolicy]
    /\ decision = [a \in Admins |-> Undecided]
    /\ seconded = {} /\ clashed = FALSE /\ policyRestarts = 0

-----------------------------------------------------------------------------
\* propose_policy_change: only a change of the hard-gate rules, compared with
\* the policy of the process that takes the request, waits for a second person.
Propose(a, r, d) ==
    /\ decision[a] = Undecided /\ Cardinality(Ids) < MaxProposals /\ ParseGatePolicy(d)
    /\ LET changes == d.hard # inForce[r].hard
           row == [draft |-> d, by |-> a, status |-> IF changes THEN "pending" ELSE "approved",
                   approvedBy |-> IF changes THEN {} ELSE {a}]
       IN  proposal' = [i \in 1 .. Cardinality(Ids) + 1 |-> IF i \in Ids THEN proposal[i] ELSE row]
    /\ UNCHANGED <<inForce, decision, seconded, clashed, policyRestarts>>

\* approve_policy_proposal, up to its flush
MayApprove(a, i) == proposal[i].status = "pending" /\ a # proposal[i].by

\* reject_policy_proposal, up to its flush
MayReject(i) == proposal[i].status = "pending"

OpenDecision(a, r, i) ==
    /\ decision[a] = Undecided /\ i \in Ids
    /\ \E at \in {"approve", "reject"} :
           /\ IF at = "approve" THEN MayApprove(a, i) ELSE MayReject(i)
           /\ decision' = [decision EXCEPT ![a] = [id |-> i, at |-> at, replica |-> r]]
    /\ UNCHANGED <<proposal, inForce, seconded, clashed, policyRestarts>>

\* The status is written whatever it has become.
CommitDecision(a) ==
    LET i == decision[a].id
        approves == decision[a].at = "approve"
    IN  /\ decision[a].at \in {"approve", "reject"}
        /\ proposal' = [proposal EXCEPT ![i].status = IF approves THEN "approved" ELSE "rejected",
                                        ![i].approvedBy = {a}]
        /\ clashed' = (clashed \/ proposal[i].status # "pending")
        /\ seconded' = IF approves THEN seconded \cup {<<i, a>>} ELSE seconded
        /\ decision' = [decision EXCEPT ![a] =
                            IF approves THEN [@ EXCEPT !.at = "promote"] ELSE Undecided]
        /\ UNCHANGED <<inForce, policyRestarts>>

\* promote_approved_policy: its transaction
Promote(a) ==
    LET i == decision[a].id
    IN  /\ decision[a].at = "promote"
        /\ IF proposal[i].status = "approved" /\ Candidate(proposal[i].draft)
           THEN /\ proposal' = [proposal EXCEPT ![i].status = "applied"]
                /\ decision' = [decision EXCEPT ![a].at = "install"]
           ELSE /\ decision' = [decision EXCEPT ![a] = Undecided]
                /\ UNCHANGED proposal
        /\ UNCHANGED <<inForce, seconded, clashed, policyRestarts>>

\* runtime.policy = candidate
Install(a) ==
    /\ decision[a].at = "install"
    /\ inForce' = [inForce EXCEPT ![decision[a].replica] = proposal[decision[a].id].draft]
    /\ decision' = [decision EXCEPT ![a] = Undecided]
    /\ UNCHANGED <<proposal, seconded, clashed, policyRestarts>>

Applied == {i \in Ids : proposal[i].status = "applied"}
LastApplied == CHOOSE i \in Applied : \A j \in Applied : j <= i

\* Takes the newest of the proposals that are approved or applied.
ReloadApproved(r) ==
    LET ready == {i \in Ids : proposal[i].status \in {"approved", "applied"}}
        d == proposal[CHOOSE i \in ready : \A j \in ready : j <= i].draft
    IN  /\ ready # {} /\ Candidate(d) /\ d.version # inForce[r].version
        /\ inForce' = [inForce EXCEPT ![r] = d]
        /\ UNCHANGED <<proposal, decision, seconded, clashed, policyRestarts>>

\* Never replaces a policy that was already reloaded.
ReloadOnce(r) ==
    /\ Applied # {} /\ Candidate(proposal[LastApplied].draft)
    /\ inForce[r] = FilePolicy
    /\ proposal[LastApplied].draft.version # inForce[r].version
    /\ inForce' = [inForce EXCEPT ![r] = proposal[LastApplied].draft]
    /\ UNCHANGED <<proposal, decision, seconded, clashed, policyRestarts>>

\* reload_policy_if_changed: the applied proposal with the highest id, unless
\* its version is the one in force.
Reload(r) ==
    /\ Applied # {} /\ Candidate(proposal[LastApplied].draft)
    /\ proposal[LastApplied].draft.version # inForce[r].version
    /\ inForce' = [inForce EXCEPT ![r] = proposal[LastApplied].draft]
    /\ UNCHANGED <<proposal, decision, seconded, clashed, policyRestarts>>

\* A replica starts again; requests it was serving are lost.
ReplicaRestarts(r) ==
    /\ policyRestarts < MaxPolicyRestarts /\ policyRestarts' = policyRestarts + 1
    /\ inForce' = [inForce EXCEPT ![r] = FilePolicy]
    /\ decision' = [a \in Admins |-> IF decision[a].replica = r THEN Undecided ELSE decision[a]]
    /\ UNCHANGED <<proposal, seconded, clashed>>

AdminStep(a) ==
    \/ \E r \in Replicas : \E d \in Drafts : Propose(a, r, d)
    \/ \E r \in Replicas, i \in Ids : OpenDecision(a, r, i)
    \/ CommitDecision(a) \/ Promote(a) \/ Install(a)

PolicyNext ==
    \/ \E a \in Admins : AdminStep(a)
    \/ \E r \in Replicas : Reload(r) \/ ReplicaRestarts(r)

\* Every worker tick of a replica reloads.
PolicyFairness ==
    /\ \A r \in Replicas : WF_policyVars(Reload(r))
    /\ \A a \in Admins : WF_policyVars(CommitDecision(a) \/ Promote(a) \/ Install(a))

PolicySpec == PolicyInit /\ [][PolicyNext]_policyVars /\ PolicyFairness

-----------------------------------------------------------------------------
\* Whatever policy a replica runs instead of the file's was proposed by one
\* person and approved by another, also when requests race and replicas
\* restart; an approval that nobody else gave stays without effect.
PolicyHasTwoPeople ==
    \A r \in Replicas : inForce[r] # FilePolicy =>
        \E i \in Ids, a \in Admins :
            proposal[i].draft = inForce[r] /\ <<i, a>> \in seconded /\ a # proposal[i].by

AgreeOnPolicy ==
    Applied # {} => \A r \in Replicas : inForce[r].version = proposal[LastApplied].draft.version

\* The replicas converge: once the changes cease, every one of them runs the
\* version of the applied proposal with the highest id, through restarts and
\* promotions that finish out of order, unless a proposal was both approved
\* and rejected by requests that overlapped.
ReplicasConverge == <>[](clashed \/ AgreeOnPolicy)
=============================================================================
