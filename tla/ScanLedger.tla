----------------------------- MODULE ScanLedger -----------------------------
(***************************************************************************)
(* What the scan pipeline promises to the rest of the system about one     *)
(* scan, without streams, workers, batches or faults: its state only moves *)
(* forward, one verdict is issued for it, and it is closed only under the  *)
(* verdict that closes it.  The vocabulary is scan_job.state and the       *)
(* verdict row; an unscored scan is "open" whether queued or running.      *)
(***************************************************************************)
CONSTANT Scans

VARIABLES
    state,      \* "none", "open", "scored", "decided", "failed"
    issued      \* "none", or the path that issued the verdict

lvars == <<state, issued>>

LedgerInit ==
    /\ state = [s \in Scans |-> "none"]
    /\ issued = [s \in Scans |-> "none"]

Open(s) ==
    /\ state[s] = "none"
    /\ state' = [state EXCEPT ![s] = "open"]
    /\ UNCHANGED issued

RecordResult(s) ==
    /\ state[s] = "open"
    /\ state' = [state EXCEPT ![s] = "scored"]
    /\ UNCHANGED issued

\* A scored verdict needs the result; a dead letter may overtake it.
IssueScored(s) ==
    /\ state[s] = "scored" /\ issued[s] = "none"
    /\ issued' = [issued EXCEPT ![s] = "score"]
    /\ UNCHANGED state

IssueDeadLetter(s) ==
    /\ state[s] \in {"open", "scored"} /\ issued[s] = "none"
    /\ issued' = [issued EXCEPT ![s] = "deadletter"]
    /\ UNCHANGED state

CloseDecided(s) ==
    /\ state[s] = "scored" /\ issued[s] = "score"
    /\ state' = [state EXCEPT ![s] = "decided"]
    /\ UNCHANGED issued

CloseFailed(s) ==
    /\ state[s] = "open" /\ issued[s] = "deadletter"
    /\ state' = [state EXCEPT ![s] = "failed"]
    /\ UNCHANGED issued

LedgerNext ==
    \E s \in Scans : \/ Open(s) \/ RecordResult(s)
                     \/ IssueScored(s) \/ IssueDeadLetter(s)
                     \/ CloseDecided(s) \/ CloseFailed(s)

LedgerSpec == LedgerInit /\ [][LedgerNext]_lvars
=============================================================================
