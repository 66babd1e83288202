----------------------------- MODULE Submission -----------------------------
(***************************************************************************)
(* submit_scan and who may read its answer (orchestration/service.py,      *)
(* gateway/router.py).  A scan is keyed by content and toolchain.  Several *)
(* requests for one key overlap: each looks the key up, and inserts a job  *)
(* under a unique index or joins the scan that is there.  An INSERT waits  *)
(* for the transaction that holds the same key; a transaction may fail.    *)
(***************************************************************************)
EXTENDS Naturals, FiniteSets, Sequences

CONSTANTS Requests,
          Asks,            \* what requests ask for, {[who, key, tier]}
          ReviewingUser,   \* has a role that may read every scan
          RescanTier,
          MaxRollbacks     \* bound

ASSUME RequestNames == {"none", "rescan"} \cap Requests = {}

VARIABLES req,             \* request -> its local state
          jobRow,          \* cache key -> the scan_job row, or NoJobRow
          storedArtifact,  \* contents whose artifact is in the blob store
          submitterRow,    \* {[scan, who, tier, by]}: scan_submitter, and the writer
          announced,       \* scans with an entry on the stream
          committed,       \* transactions (requests, or "rescan") that committed
          rollbacks

submissionVars == <<req, jobRow, storedArtifact, submitterRow, announced, committed, rollbacks>>

CacheKeys == {a.key : a \in Asks}      \* <<content, toolchain>>
NoJobRow == [scan |-> "none", tier |-> "none", by |-> "none"]
NoRequest == [at |-> "new", who |-> "none", key |-> <<>>, tier |-> "none", scan |-> "none"]

SubmissionInit ==
    /\ req = [r \in Requests |-> NoRequest]
    /\ jobRow = [k \in CacheKeys |-> NoJobRow]
    /\ storedArtifact = {} /\ submitterRow = {} /\ announced = {}
    /\ committed = {} /\ rollbacks = 0

\* A row is visible to other transactions once its writer has committed.
SeenRows(k) == jobRow[k] # NoJobRow /\ jobRow[k].by \in committed

\* Another transaction holds the key; an INSERT of it waits.
JobLocked(k) == jobRow[k] # NoJobRow /\ jobRow[k].by \notin committed

RowsOf(scan, who) == {row \in submitterRow : row.scan = scan /\ row.who = who}

-----------------------------------------------------------------------------
\* submit_scan, up to the lookup of the key
Lookup(r) ==
    /\ req[r] = NoRequest
    /\ \E a \in Asks :
           req' = [req EXCEPT ![r] = [who |-> a.who, key |-> a.key, tier |-> a.tier,
                       at |-> IF SeenRows(a.key) THEN "associate" ELSE "insert",
                       scan |-> IF SeenRows(a.key) THEN jobRow[a.key].scan ELSE r]]
    /\ UNCHANGED <<jobRow, storedArtifact, submitterRow, announced, committed, rollbacks>>

\* ... the artifact, if the blob store lacks it, and the INSERT of the job; a
\* key that another request has committed meanwhile fails the request.
InsertJob(r) ==
    LET k == req[r].key
    IN  /\ req[r].at = "insert" /\ ~JobLocked(k)
        /\ storedArtifact' = storedArtifact \cup {k[1]}
        /\ IF SeenRows(k)
           THEN /\ req' = [req EXCEPT ![r].at = "failed"]
                /\ UNCHANGED jobRow
           ELSE /\ jobRow' = [jobRow EXCEPT ![k] = [scan |-> r, tier |-> req[r].tier, by |-> r]]
                /\ req' = [req EXCEPT ![r].at = "associate"]
        /\ UNCHANGED <<submitterRow, announced, committed, rollbacks>>

\* Joins the scan without a row of its own.
AssociateCreatorOnly(r) ==
    LET scan == req[r].scan
    IN  /\ req[r].at = "associate"
        /\ submitterRow' = IF scan # r THEN submitterRow ELSE submitterRow \cup
               {[scan |-> scan, who |-> req[r].who, tier |-> req[r].tier, by |-> r]}
        /\ req' = [req EXCEPT ![r].at = IF scan = r THEN "produce" ELSE "commit"]
        /\ UNCHANGED <<jobRow, storedArtifact, announced, committed, rollbacks>>

\* _associate_submitter: a row that is there stays as it is; one that another
\* transaction is writing is waited for.
Associate(r) ==
    LET scan == req[r].scan
        rows == RowsOf(scan, req[r].who)
    IN  /\ req[r].at = "associate"
        /\ \A row \in rows : row.by \in committed
        /\ submitterRow' = IF rows # {} THEN submitterRow ELSE submitterRow \cup
               {[scan |-> scan, who |-> req[r].who, tier |-> req[r].tier, by |-> r]}
        /\ req' = [req EXCEPT ![r].at = IF scan = r THEN "produce" ELSE "commit"]
        /\ UNCHANGED <<jobRow, storedArtifact, announced, committed, rollbacks>>

\* produce_scan_job, before the transaction commits
ProduceEntry(r) ==
    /\ req[r].at = "produce"
    /\ announced' = announced \cup {r}
    /\ req' = [req EXCEPT ![r].at = "commit"]
    /\ UNCHANGED <<jobRow, storedArtifact, submitterRow, committed, rollbacks>>

\* The caller's transaction ends; only then is the request answered.
CommitRequest(r) ==
    /\ req[r].at = "commit"
    /\ committed' = committed \cup {r}
    /\ req' = [req EXCEPT ![r].at = "answered"]
    /\ UNCHANGED <<jobRow, storedArtifact, submitterRow, announced, rollbacks>>

RollbackRequest(r) ==
    /\ req[r].at \in {"associate", "produce", "commit"}
    /\ rollbacks < MaxRollbacks /\ rollbacks' = rollbacks + 1
    /\ jobRow' = [k \in CacheKeys |-> IF jobRow[k].by = r THEN NoJobRow ELSE jobRow[k]]
    /\ submitterRow' = {row \in submitterRow : row.by # r}
    /\ req' = [req EXCEPT ![r].at = "failed"]
    /\ UNCHANGED <<storedArtifact, announced, committed>>

\* A rescan of the re-evaluation inserts a job for a known content, with no
\* submitter of its own.
RescanInserts(k) ==
    /\ k[1] \in storedArtifact /\ jobRow[k] = NoJobRow /\ "rescan" \notin committed
    /\ jobRow' = [jobRow EXCEPT ![k] = [scan |-> "rescan", tier |-> RescanTier,
                                        by |-> "rescan"]]
    /\ committed' = committed \cup {"rescan"}
    /\ UNCHANGED <<req, storedArtifact, submitterRow, announced, rollbacks>>

RequestStep(r) ==
    \/ Lookup(r) \/ InsertJob(r) \/ Associate(r) \/ ProduceEntry(r)
    \/ CommitRequest(r) \/ RollbackRequest(r)

SubmissionNext ==
    \/ \E r \in Requests : RequestStep(r)
    \/ \E k \in CacheKeys : RescanInserts(k)

SubmissionSpec == SubmissionInit /\ [][SubmissionNext]_submissionVars

-----------------------------------------------------------------------------
\* is_scan_submitter
IsScanSubmitter(who, scan) == \E row \in RowsOf(scan, who) : row.by \in committed

\* submitter_attribution, of one submitter: the tiers on record
Attribution(who, scan) == {row.tier : row \in {x \in RowsOf(scan, who) : x.by \in committed}}

\* The tier of the caller's own row; that of the job when there is none.
RequestedByCaller(who, k) ==
    LET own == Attribution(who, jobRow[k].scan)
    IN  IF own = {} THEN jobRow[k].tier ELSE CHOOSE t \in own : TRUE

NotFound == [found |-> FALSE, asked |-> "none", judged |-> "none"]

\* Shows the tier of the job under both labels.
GetScanOneTier(who, k, reviewer) ==
    IF ~SeenRows(k) \/ ~(IsScanSubmitter(who, jobRow[k].scan) \/ reviewer) THEN NotFound
    ELSE [found |-> TRUE, judged |-> jobRow[k].tier, asked |-> jobRow[k].tier]

\* get_scan: NotFound for a scan that does not exist or is another's; else the
\* tier the caller asked for, where it is on record, and the tier of the job.
GetScan(who, k, reviewer) ==
    IF ~SeenRows(k) \/ ~(IsScanSubmitter(who, jobRow[k].scan) \/ reviewer) THEN NotFound
    ELSE [found |-> TRUE, judged |-> jobRow[k].tier, asked |-> RequestedByCaller(who, k)]

Answered(r) == req[r].at = "answered"

\* Every answer can be used: the scan id a request was given is that of the
\* committed job of its key, the artifact is stored, and the caller may read
\* the scan, whichever of the overlapping requests created it and whichever
\* failed.
AnswerIsBacked ==
    \A r \in Requests : Answered(r) =>
        /\ SeenRows(req[r].key) /\ jobRow[req[r].key].scan = req[r].scan
        /\ req[r].key[1] \in storedArtifact
        /\ GetScan(req[r].who, req[r].key, FALSE).found

\* Nobody's request is shown as another's: a caller who asked for one tier only
\* sees that tier beside the tier the scan was judged at, however many callers
\* with other tiers share the scan.
OwnTierIsShown ==
    \A r \in Requests :
        LET mine == {q \in Requests : Answered(q) /\ req[q].who = req[r].who
                                                  /\ req[q].key = req[r].key}
            view == GetScan(req[r].who, req[r].key, req[r].who = ReviewingUser)
        IN  Answered(r) /\ (\A q \in mine : req[q].tier = req[r].tier) =>
                view.asked = req[r].tier /\ view.judged = jobRow[req[r].key].tier
=============================================================================
