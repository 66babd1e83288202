---------------------------- MODULE EngineBudget ----------------------------
(***************************************************************************)
(* The sandbox runner's engines on one job (services/engine_runner): the   *)
(* timeouts configured for them, their turns against the job's deadline,   *)
(* and what each adapter makes of its subprocess.  Times are in small      *)
(* units; the time between two turns is left out.                          *)
(***************************************************************************)
EXTENDS Integers, Sequences, FiniteSets, FiniteSetsExt, Functions

CONSTANTS DefaultTimeout,   \* DEFAULT_ENGINE_TIMEOUT_S
          AigTimeout,       \* BUILTIN_ENGINE_TIMEOUT_S of aig-mcp-scan
          RunnerEnvs,       \* environments the runner may be started in
          Conducts,         \* [starts, runs, exit, output] of a subprocess
          MaxWait           \* bound: time a job waits for the runner

\* Settings are whole numbers, and no run takes negative time.
ASSUME BudgetAssumption ==
    /\ {DefaultTimeout, AigTimeout} \subseteq Nat \ {0} /\ MaxWait \in Nat
    /\ \A c \in Conducts : c.runs \in Nat
    /\ \A v \in RunnerEnvs :
          /\ v.deadline \in Int
          /\ \A s \in {v.default, v.legacy} : s \subseteq Int /\ \A m, n \in s : m = n
          /\ \A e \in DOMAIN v.overrides : v.overrides[e] \in Int

VARIABLES env,              \* [default, overrides, legacy, llm, deadline, disabled]
          waited, clock,    \* since the submission of the job
          turn,             \* 0 before the job is taken
          last              \* the latest engine's result

budgetVars == <<env, waited, clock, turn, last>>

Aig == "aig-mcp-scan"

SandboxEngineNames == <<"bandit", "osv-scanner", "yara", "skillspector", Aig>>

-----------------------------------------------------------------------------
(* Configuration.  An optional setting is a set of at most one value. *)

CheckedSeconds(value) == value > 0

BadOverrides(v) ==
    \E e \in DOMAIN v.overrides :
        e \notin Range(SandboxEngineNames) \/ ~CheckedSeconds(v.overrides[e])

\* Both variables name aig-mcp-scan, with different values.
LegacyConflict(v) == Aig \in DOMAIN v.overrides /\ \E value \in v.legacy : value # v.overrides[Aig]

\* EngineTimeoutConfigError: the runner does not start.
TimeoutConfigError(v) ==
    \/ \E value \in v.default \cup v.legacy : ~CheckedSeconds(value)
    \/ BadOverrides(v) \/ LegacyConflict(v)

TimeoutFor(v, e) ==
    IF e = Aig /\ v.legacy # {} THEN Max(v.legacy)
    ELSE IF e \in DOMAIN v.overrides THEN v.overrides[e]
    ELSE IF e = Aig THEN AigTimeout
    ELSE Max(IF v.default = {} THEN {DefaultTimeout} ELSE v.default)

\* sandbox_engines: without an LLM endpoint there is no aig-mcp-scan.
BuiltEngines(v) ==
    IF v.llm THEN SandboxEngineNames ELSE <<"bandit", "osv-scanner", "yara", "skillspector">>

\* Variant: the longest timeout.
TotalBudgetLongest(v) == Max({TimeoutFor(v, e) : e \in Range(BuiltEngines(v))})

TotalBudget(v) ==
    LET t(e) == TimeoutFor(v, e)
    IN  t("bandit") + t("osv-scanner") + t("yara") + t("skillspector") + (IF v.llm THEN t(Aig) ELSE 0)

\* _warn_if_timeouts_exceed_scan_budget
Shortfall(v) == Max({0, TotalBudget(v) - v.deadline})

-----------------------------------------------------------------------------
(* What an adapter makes of a subprocess that ended by itself *)

NonzeroIsError(e) == e \in {"yara", Aig}

\* A report file with results, or ValueError
ParseBandit(c) == IF c.output = "report" THEN "ok" ELSE "error"
ParseSarif(c) == IF c.output = "report" THEN "ok" ELSE "error"

ParseOsv(c) ==
    IF c.exit = 128 THEN "partial"
    ELSE IF c.exit \notin {0, 1} \/ c.output = "garbage" THEN "error" ELSE "ok"

\* A line that is no match line is refused; no line is no match.
ParseYara(c) == IF c.output = "garbage" THEN "error" ELSE "ok"

\* Blocks that are not complete are passed over.
ParseAig(c) == "ok"

ParseOutput(e, c) ==
    CASE e = "bandit" -> ParseBandit(c)
      [] e = "skillspector" -> ParseSarif(c)
      [] e = "osv-scanner" -> ParseOsv(c)
      [] e = "yara" -> ParseYara(c)
      [] OTHER -> ParseAig(c)

Unusable(e, status, granted, ran) ==
    [engine |-> e, status |-> status, granted |-> granted, ran |-> ran]

\* A subprocess under the timeout it was granted
RunProcess(e, c, granted) ==
    IF ~c.starts THEN Unusable(e, "error", granted, 0)
    ELSE IF c.runs > granted THEN Unusable(e, "timeout", granted, granted)
    ELSE IF c.exit # 0 /\ NonzeroIsError(e) THEN Unusable(e, "error", granted, c.runs)
    ELSE [engine |-> e, status |-> ParseOutput(e, c), granted |-> granted, ran |-> c.runs]

\* SubprocessEngineAdapter.analyze
Analyze(e, c, v, now) ==
    IF now >= v.deadline THEN Unusable(e, "timeout", 0, 0)
    ELSE RunProcess(e, c, Min({TimeoutFor(v, e), v.deadline - now}))

-----------------------------------------------------------------------------

NoResult == [engine |-> "none", status |-> "none", granted |-> 0, ran |-> 0]

BudgetInit ==
    /\ env \in RunnerEnvs /\ ~TimeoutConfigError(env)
    /\ waited = 0 /\ clock = 0 /\ turn = 0 /\ last = NoResult

TakeJob ==
    /\ turn = 0 /\ turn' = 1
    /\ waited' \in 0..MaxWait /\ clock' = waited'
    /\ UNCHANGED <<env, last>>

\* One turn of _dispatch_engines
RunEngine ==
    /\ turn \in DOMAIN BuiltEngines(env)
    /\ LET e == BuiltEngines(env)[turn]
       IN  \/ e \in env.disabled /\ last' = NoResult
           \/ e \notin env.disabled /\ \E c \in Conducts : last' = Analyze(e, c, env, clock)
    /\ clock' = clock + last'.ran
    /\ turn' = turn + 1
    /\ UNCHANGED <<env, waited>>

BudgetNext == TakeJob \/ RunEngine

BudgetSpec == BudgetInit /\ [][BudgetNext]_budgetVars

-----------------------------------------------------------------------------

\* When the start-up check is silent, an engine loses time only to the job's wait
\* in the stream, never to the engines before it
\* (_warn_if_timeouts_exceed_scan_budget).
SilentBudgetSuffices ==
    last # NoResult /\ Shortfall(env) = 0 =>
        last.granted >= TimeoutFor(env, last.engine) - waited
=============================================================================
