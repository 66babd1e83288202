------------------------- MODULE MarketplaceAnswer -------------------------
(***************************************************************************)
(* The marketplace's poll of a skill (marketplace_api): the newest version *)
(* is read from the inventory, its newest scans from the orchestration     *)
(* tables and their verdicts from the gate's, each in a statement of its   *)
(* own while scans go on.  Creation times have whole seconds, so several   *)
(* versions or scans may be the newest.  A request that is refused (401,   *)
(* 403, 404, 429, 503) changes nothing and is left out.                    *)
(***************************************************************************)
EXTENDS Naturals

CONSTANTS Contents,      \* versions of the skill, by content hash
          PolledScans,   \* ids of scan_job rows
          ScanOf,        \* pairs <<scan, content>> that may be submitted
          LastSecond     \* bound on the seconds

ASSUME AnswerAssumption == ScanOf \subseteq PolledScans \X Contents /\ "none" \notin Contents

VARIABLES second,
          versionAt,     \* content -> created_at of its skill_version row, or 0
          scanRow,       \* scan -> row of scan_job with its verdict
          poll,          \* local state of get_marketplace_skill
          fetchLog       \* scan the last marketplace_fetch_log row names

answerVars == <<second, versionAt, scanRow, poll, fetchLog>>

NoScanRow == [content |-> "none", at |-> 0, state |-> "none", verdict |-> "none"]
NoPoll == [pc |-> "idle", hashes |-> {}, reading |-> {}, answers |-> {}, asked |-> {}]

AnswerInit ==
    /\ second = 1 /\ versionAt = [c \in Contents |-> 0]
    /\ scanRow = [s \in PolledScans |-> NoScanRow]
    /\ poll = NoPoll /\ fetchLog = "nothing"

-----------------------------------------------------------------------------
(* What other parts do to the rows, until the answer is given *)

Polling == poll.pc # "given"

NextSecond ==
    /\ Polling /\ second < LastSecond /\ second' = second + 1
    /\ UNCHANGED <<versionAt, scanRow, poll, fetchLog>>

\* A submission registers the version after submit_scan has returned.
RegisterVersion(c) ==
    /\ Polling /\ versionAt[c] = 0 /\ \E s \in PolledScans : scanRow[s].content = c
    /\ versionAt' = [versionAt EXCEPT ![c] = second]
    /\ UNCHANGED <<second, scanRow, poll, fetchLog>>

SubmitOf(s, c) ==
    /\ Polling /\ scanRow[s] = NoScanRow
    /\ scanRow' = [scanRow EXCEPT ![s] = [content |-> c, at |-> second, state |-> "queued",
                                          verdict |-> "none"]]
    /\ UNCHANGED <<second, versionAt, poll, fetchLog>>

\* The pipeline's transactions and the reviewer's, as ScanLedger has them
RowStep(r) ==
    CASE r.state = "queued" -> {[r EXCEPT !.state = "running"]}
      [] r.state = "running" /\ r.verdict = "none" ->
             {[r EXCEPT !.state = "scored"], [r EXCEPT !.verdict = "BLOCK"]}
      [] r.state = "running" /\ r.verdict # "none" -> {[r EXCEPT !.state = "failed"]}
      [] r.state = "scored" /\ r.verdict = "none" ->
             {[r EXCEPT !.verdict = v] : v \in {"PASS", "REVIEW", "BLOCK"}}
      [] r.state = "scored" /\ r.verdict # "none" -> {[r EXCEPT !.state = "decided"]}
      [] r.state = "decided" /\ r.verdict = "REVIEW" ->
             {[r EXCEPT !.verdict = v] : v \in {"PASS", "BLOCK"}}
      [] OTHER -> {}

ScanMoves(s) ==
    /\ Polling /\ \E r \in RowStep(scanRow[s]) : scanRow' = [scanRow EXCEPT ![s] = r]
    /\ UNCHANGED <<second, versionAt, poll, fetchLog>>

-----------------------------------------------------------------------------
(* The request *)

\* latest_skill_version_hashes: every version of the newest second
LatestVersions ==
    {c \in Contents : versionAt[c] > 0 /\ \A d \in Contents : versionAt[d] <= versionAt[c]}

\* latest_scan_identities_for_content
LatestScans(c) ==
    LET of == {s \in PolledScans : scanRow[s].content = c}
    IN  {s \in of : \A x \in of : scanRow[x].at <= scanRow[s].at}

\* project_status
Status(state) ==
    CASE state \in {"none", "queued"} -> "PENDING"
      [] state \in {"running", "scored"} -> "RUNNING"
      [] state \in {"decided", "failed"} -> "COMPLETED"

\* classify_safety; why an answer is unsafe is left out.
ClassifySafety(status, verdict) == status = "COMPLETED" /\ verdict = "PASS"

\* project_skill_verdict, of the state as it was read and the verdict row
Project(scan, state, verdict) ==
    [scan |-> scan, status |-> Status(state), isSafe |-> ClassifySafety(Status(state), verdict)]

\* get_marketplace_skill: the versions are read; without one the answer is
\* that nothing was scanned.
ReadVersions ==
    /\ poll.pc = "idle"
    /\ poll' = [NoPoll EXCEPT !.hashes = LatestVersions,
                              !.asked = UNION {LatestScans(c) : c \in LatestVersions},
                              !.pc = IF LatestVersions = {} THEN "verdicts" ELSE "scans",
                              !.answers = IF LatestVersions = {} THEN {Project("none", "none", "none")} ELSE {}]
    /\ UNCHANGED <<second, versionAt, scanRow, fetchLog>>

\* ... their scans with the states, in one snapshot of the orchestration tables
ReadScans ==
    /\ poll.pc = "scans"
    /\ LET found == UNION {LatestScans(c) : c \in poll.hashes}
       IN  poll' = [poll EXCEPT !.pc = "verdicts", !.hashes = {},
                        !.reading = {[scan |-> s, state |-> scanRow[s].state] : s \in found},
                        !.answers = {Project("none", "none", "none") :
                                        c \in {d \in poll.hashes : LatestScans(d) = {}}}]
    /\ UNCHANGED <<second, versionAt, scanRow, fetchLog>>

\* ... and the verdict row of one of them
ReadVerdict ==
    /\ poll.pc = "verdicts" /\ poll.reading # {}
    /\ LET r == CHOOSE r \in poll.reading : TRUE
       IN  poll' = [poll EXCEPT !.reading = @ \ {r},
                        !.answers = @ \cup {Project(r.scan, r.state, scanRow[r.scan].verdict)}]
    /\ UNCHANGED <<second, versionAt, scanRow, fetchLog>>

\* Variant: a safe candidate is preferred.
LeastSafeReversed(answers) ==
    CHOOSE a \in answers : \A b \in answers : b.isSafe => a.isSafe

\* The least safe answer is given.
LeastSafe(answers) ==
    CHOOSE a \in answers : \A b \in answers : a.isSafe => b.isSafe

\* ... and logged, unless the log fails (_record_fetch).  One request is
\* followed, whenever it begins.
GiveAnswer ==
    /\ poll.pc = "verdicts" /\ poll.reading = {}
    /\ poll' = [poll EXCEPT !.pc = "given", !.answers = {LeastSafe(poll.answers)}]
    /\ fetchLog' \in {fetchLog, LeastSafe(poll.answers).scan}
    /\ UNCHANGED <<second, versionAt, scanRow>>

AnswerNext ==
    \/ NextSecond \/ ReadVersions \/ ReadScans \/ ReadVerdict \/ GiveAnswer
    \/ \E c \in Contents : RegisterVersion(c)
    \/ \E s \in PolledScans : ScanMoves(s)
    \/ \E p \in ScanOf : SubmitOf(p[1], p[2])

AnswerSpec == AnswerInit /\ [][AnswerNext]_answerVars

-----------------------------------------------------------------------------
\* A skill is called safe only if every scan that was the newest of its newest
\* version when the request began, ties included, has passed by now, or a later
\* scan of the same bytes has (get_marketplace_skill, "unsafe wins").
SafeMeansPassed ==
    poll.pc = "given" /\ (\A a \in poll.answers : a.isSafe) =>
        \A s \in poll.asked :
            \E x \in PolledScans : /\ scanRow[x].content = scanRow[s].content
                                   /\ x = s \/ scanRow[x].at > scanRow[s].at
                                   /\ scanRow[x].verdict = "PASS"
=============================================================================
