--------------------------- MODULE EngineCoverage ---------------------------
(***************************************************************************)
(* What the console and the marketplace say about the evidence behind a    *)
(* verdict (orchestration/engine_health.py, admin/engine_registry.py).     *)
(* The rows of scan_engine_health are written when a scan is scored; the   *)
(* configuration that explains a silent engine is read when somebody asks, *)
(* and nothing records the one the scan ran under.                         *)
(***************************************************************************)
EXTENDS Naturals, Sequences, FiniteSets

CONSTANTS CovScans,
          InProcess,     \* engines of the monolith
          Sandboxed,     \* SANDBOX_ENGINE_NAMES
          LlmGated,      \* sandbox engines that need an LLM endpoint
          Required,      \* floor_engine_names
          Ends,          \* engine -> how its run may end
          MaxToggled, MaxSwept   \* bounds

ASSUME CoverageAssumption ==
    /\ IsFiniteSet(InProcess \cup Sandboxed)
    /\ LlmGated \subseteq Sandboxed /\ Required \subseteq InProcess
    /\ \A e \in InProcess \cup Sandboxed :
          Ends[e] \subseteq {"ok", "partial", "error", "unreadable", "not_reported"}

VARIABLES switchedOff,   \* the disabled-engines set in Redis
          toggled,
          runnerLlm,     \* the engine-runner has an endpoint; the monolith's
                         \* own setting may differ
          dispatch,      \* scan -> engines that were run on it, or NotRun
          healthRow,     \* scan -> engine -> report state of its row
          scoredOrder,   \* scans in the order of recorded_at
          swept          \* rows the retention sweep has deleted

coverageVars == <<switchedOff, toggled, runnerLlm, dispatch, healthRow, scoredOrder, swept>>

\* known_engine_rows, known_engine_names
KnownEngines == InProcess \cup Sandboxed
NotRun == {"not run"}

CoverageInit ==
    /\ switchedOff = {} /\ toggled = 0 /\ runnerLlm \in BOOLEAN
    /\ dispatch = [s \in CovScans |-> NotRun]
    /\ healthRow = [s \in CovScans |-> [e \in {} |-> "none"]]
    /\ scoredOrder = <<>> /\ swept = 0

-----------------------------------------------------------------------------
\* set_engine_enabled_endpoint: 404 for an unknown engine, 409 for a required one.
SetEngineEnabled(e, enabled) ==
    /\ e \in KnownEngines /\ (enabled \/ e \notin Required)
    /\ toggled < MaxToggled /\ toggled' = toggled + 1
    /\ switchedOff' = IF enabled THEN switchedOff \ {e} ELSE switchedOff \cup {e}
    /\ UNCHANGED <<runnerLlm, dispatch, healthRow, scoredOrder, swept>>

\* filter_enabled_engines; the runner builds an LLM-gated engine only with an
\* endpoint.
DispatchScan(s) ==
    /\ dispatch[s] = NotRun
    /\ dispatch' = [dispatch EXCEPT ![s] =
           {e \in KnownEngines : e \notin switchedOff /\ (e \in LlmGated => runnerLlm)}]
    /\ UNCHANGED <<switchedOff, toggled, runnerLlm, healthRow, scoredOrder, swept>>

\* load_and_aggregate: a row for every engine, written with the result row
ScoreScan(s) ==
    /\ dispatch[s] # NotRun /\ \A i \in DOMAIN scoredOrder : scoredOrder[i] # s
    /\ \E row \in [KnownEngines -> UNION {Ends[e] : e \in KnownEngines}] :
          /\ \A e \in KnownEngines :
                row[e] \in IF e \in dispatch[s] THEN Ends[e] ELSE {"not_reported"}
          /\ healthRow' = [healthRow EXCEPT ![s] = row]
    /\ scoredOrder' = Append(scoredOrder, s)
    /\ UNCHANGED <<switchedOff, toggled, runnerLlm, dispatch, swept>>

\* retention_delete_stmt: DELETE ... LIMIT takes rows one by one, not scans.
SweepRow(s, e) ==
    /\ e \in DOMAIN healthRow[s] /\ swept < MaxSwept /\ swept' = swept + 1
    /\ healthRow' = [healthRow EXCEPT ![s] = [x \in DOMAIN @ \ {e} |-> @[x]]]
    /\ UNCHANGED <<switchedOff, toggled, runnerLlm, dispatch, scoredOrder>>

CoverageNext ==
    \/ \E e \in KnownEngines, enabled \in BOOLEAN : SetEngineEnabled(e, enabled)
    \/ \E s \in CovScans : DispatchScan(s) \/ ScoreScan(s)
    \/ \E s \in CovScans, e \in KnownEngines : SweepRow(s, e)

CoverageSpec == CoverageInit /\ [][CoverageNext]_coverageVars

-----------------------------------------------------------------------------
(* The answers.  off is the disabled set and llm the monolith's setting, as *)
(* the request read them.                                                   *)

\* llm_unconfigured_engine_names
LlmUnconfigured(llm) == IF llm THEN {} ELSE LlmGated

\* structurally_absent_engine_names
StructurallyAbsent(off, llm) == off \cup LlmUnconfigured(llm)

\* not_reported_attribution
NotReportedAttribution(e, off, llm, reportedInWindow) ==
    IF e \in LlmUnconfigured(llm) /\ reportedInWindow = 0 THEN "llm_endpoint_unconfigured"
    ELSE IF e \in off THEN "currently_disabled" ELSE "none"

\* Variant: an absent engine is excused whatever its row says.
CoverageClassExcused(e, state, absent) ==
    IF state \in {"ok", "partial"} THEN "reported"
    ELSE IF e \in absent THEN "not_applicable" ELSE "missing"

\* classify_engine_coverage
CoverageClass(e, state, absent) ==
    IF state \in {"ok", "partial"} THEN "reported"
    ELSE IF state = "not_reported" /\ e \in absent THEN "not_applicable" ELSE "missing"

\* summarize_scan_coverage, load_scan_engine_coverage
ScanCoverage(s, absent) ==
    LET class(c) == {e \in DOMAIN healthRow[s] : CoverageClass(e, healthRow[s][e], absent) = c}
    IN  [expected |-> Cardinality(class("reported")) + Cardinality(class("missing")),
         reported |-> Cardinality(class("reported")),
         entries  |-> DOMAIN healthRow[s] \ class("reported"),
         observed |-> DOMAIN healthRow[s] # {}]

\* ScanEngineCoverage.complete
Complete(c) == IF ~c.observed THEN "null" ELSE IF c.reported = c.expected THEN "true" ELSE "false"

\* _engine_coverage_to_dict, _coverage_attribution
CoverageAnswer(s, off, llm) ==
    LET c == ScanCoverage(s, StructurallyAbsent(off, llm))
    IN  [complete |-> Complete(c),
         reason |-> [e \in c.entries |-> IF healthRow[s][e] # "not_reported" THEN "none"
                                         ELSE NotReportedAttribution(e, off, llm, 0)]]

\* load_recent_engine_health: the newest n scans that have rows, by their place
\* in scoredOrder
HealthWindow(n) ==
    LET kept == {i \in DOMAIN scoredOrder : DOMAIN healthRow[scoredOrder[i]] # {}}
    IN  {i \in kept : Cardinality({j \in kept : j > i}) < n}

ReportStates == {"ok", "partial", "error", "not_reported", "unreadable"}

\* summarize_engine_health and _count, of one engine
HealthSummary(e, window) ==
    LET mine == {i \in window : e \in DOMAIN healthRow[scoredOrder[i]]}
        state(i) == healthRow[scoredOrder[i]][e]
    IN  [counts |-> [v \in ReportStates |-> Cardinality({i \in mine : state(i) = v})],
         observed |-> Cardinality(mine),
         latest |-> IF mine = {} THEN "none"
                    ELSE state(CHOOSE i \in mine : \A j \in mine : j <= i)]

\* get_engine_health, _engine_health_to_dict
HealthAnswer(e, n, off, llm) ==
    LET h == HealthSummary(e, HealthWindow(n))
    IN  [counts |-> h.counts,
         attribution |-> IF h.latest = "not_reported"
                         THEN NotReportedAttribution(e, off, llm,
                                          h.counts["ok"] + h.counts["partial"] + h.counts["error"])
                         ELSE "none"]

-----------------------------------------------------------------------------
\* The engines a verdict was reached without: they ran, and delivered nothing.
Unheard(s) == {e \in dispatch[s] : healthRow[s][e] \notin {"ok", "partial"}}

\* Evidence outranks the configuration of the day (classify_engine_coverage,
\* not_reported_attribution): while a scan has all its rows it is called
\* complete only if every engine that was run on it delivered, or wrote nothing
\* at all and the answer gives the reason it is excused for; and the health page
\* never explains by a missing endpoint the silence of an engine that reported
\* within the window.  This holds whatever was switched since.
EvidenceOutranksInference ==
    /\ \A s \in {x \in CovScans : DOMAIN healthRow[x] = KnownEngines} :
          \A off \in SUBSET (KnownEngines \ Required), llm \in BOOLEAN :
              LET a == CoverageAnswer(s, off, llm)
              IN  a.complete = "true" =>
                     \A e \in Unheard(s) : healthRow[s][e] = "not_reported" /\ a.reason[e] # "none"
    /\ \A n \in DOMAIN scoredOrder, e \in KnownEngines :
          \A off \in SUBSET (KnownEngines \ Required), llm \in BOOLEAN :
              HealthAnswer(e, n, off, llm).attribution = "llm_endpoint_unconfigured" =>
                  \A i \in HealthWindow(n) :
                      LET row == healthRow[scoredOrder[i]]
                      IN  e \in DOMAIN row => row[e] \in {"not_reported", "unreadable"}
=============================================================================
