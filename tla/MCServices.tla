----------------------------- MODULE MCServices -----------------------------
(***************************************************************************)
(* The instances of the services around the pipeline that TLC checks.  The *)
(* services share no state, so that one of them moves in a behaviour and   *)
(* the others stay in an initial state: every behaviour of every service   *)
(* is explored, and none of their products.                                *)
(***************************************************************************)
EXTENDS GateDecision, SkillPackage, EngineBudget, ShareProbe, BrowserSession, LocalAccounts,
        BreakGlass, Submission, WorkerLoop, EngineCoverage, MarketplaceAnswer, TLC

VARIABLE focus   \* the service that moves

Services == {"gate", "package", "budget", "share", "browser", "accounts", "groups", "glass",
             "submission", "loop", "coverage", "answer"}

\* A choice an initial state leaves open matters only to the service that moves.
Pinned(f, value, values) == focus = f \/ value = CHOOSE v \in values : TRUE

ServicesInit ==
    /\ focus \in Services
    /\ GateInit /\ Pinned("gate", setting, {s \in Settings : ValidPolicy(s.policy)})
    /\ PackageInit
    /\ Pinned("package", [format |-> upload.format, packed |-> upload.packed], Uploads)
    /\ BudgetInit /\ Pinned("budget", env, {e \in RunnerEnvs : ~TimeoutConfigError(e)})
    /\ ProbeInit /\ \A m \in Monoliths : volume[m] = CHOOSE v \in Volumes : TRUE
    /\ Pinned("share", volume, [Probers -> {CHOOSE v \in Volumes : TRUE}])
    /\ BrowserInit
    /\ Pinned("browser", ttlEnv, {t \in TtlEnvs : \A k \in DOMAIN t : SessionTtlFromEnv(t[k])})
    /\ AccountsInit /\ GlassInit /\ SubmissionInit
    /\ LoopInit /\ Pinned("loop", retentionEnv, RetentionEnvs)
    /\ CoverageInit /\ Pinned("coverage", runnerLlm, BOOLEAN)
    /\ AnswerInit

Moves(f) ==
    /\ focus = f /\ UNCHANGED focus
    /\ f # "gate" => UNCHANGED gateVars
    /\ f # "package" => UNCHANGED packageVars
    /\ f # "budget" => UNCHANGED budgetVars
    /\ f # "share" => UNCHANGED probeVars
    /\ f # "browser" => UNCHANGED browserVars
    /\ f \notin {"accounts", "groups"} => UNCHANGED accountVars
    /\ f # "glass" => UNCHANGED glassVars
    /\ f # "submission" => UNCHANGED submissionVars
    /\ f # "loop" => UNCHANGED loopVars
    /\ f # "coverage" => UNCHANGED coverageVars
    /\ f # "answer" => UNCHANGED answerVars

ServicesNext ==
    \/ Moves("gate") /\ GateNext
    \/ Moves("package") /\ PackageNext
    \/ Moves("budget") /\ BudgetNext
    \/ Moves("share") /\ ProbeNext
    \/ Moves("browser") /\ BrowserNext
    \/ Moves("accounts") /\ AccountsNext /\ \A o \in Operators : change'[o].kind # "live"
    \/ Moves("groups") /\ AccountsNext /\ \A o \in Operators : change'[o].kind \in {"none", "live"}
    \/ Moves("glass") /\ GlassNext
    \/ Moves("submission") /\ SubmissionNext
    \/ Moves("loop") /\ LoopNext
    \/ Moves("coverage") /\ CoverageNext
    \/ Moves("answer") /\ AnswerNext

servicesVars == <<focus, gateVars, packageVars, budgetVars, probeVars, browserVars, accountVars,
                  glassVars, submissionVars, loopVars, coverageVars, answerVars>>

ServicesSpec == ServicesInit /\ [][ServicesNext]_servicesVars

\* The gate by itself
JudgingSpec == ServicesInit /\ focus = "gate" /\ [][ServicesNext]_servicesVars

-----------------------------------------------------------------------------
(* GateDecision: three engines, one of them LLM-sourced *)

Find(rule, sev, conf, llm, sig, place) ==
    [rule |-> rule, sev |-> sev, conf |-> conf, llm |-> llm, sig |-> sig, place |-> place]
UpToTwo(S) == {<<>>} \cup {<<a>> : a \in S} \cup {<<a, b>> : a, b \in S}
Blob(e, findings) ==
    [state |-> "json", name |-> e, network |-> FALSE, status |-> "ok", findings |-> findings]
Broken(e) == {[Blob(e, <<>>) EXCEPT !.state = "garbage"], [Blob(e, <<>>) EXCEPT !.status = "timeout"],
              [Blob(e, <<Find("r3", 1, 9, e = "llm", {}, "q")>>) EXCEPT !.name = "other"]}
CodeFindings == {Find("r1", 3, 5, FALSE, {}, "p"), Find("r1", 2, 9, FALSE, {"external_egress"}, "p"),
                 Find("r3", 1, 3, FALSE, {"untrusted_input"}, "p"), Find("hg", 1, 9, FALSE, {}, "p")}
PiiFindings == {Find("r1", 3, 3, FALSE, {"external_egress"}, "p"),
                Find("r2", 2, 5, FALSE, {"private_data_access", "untrusted_input"}, "p"),
                Find("r4", 1, 9, FALSE, {"external_egress"}, "q")}
LlmFindings == {Find("r1", 3, 9, TRUE, {"external_egress"}, "p"), Find("r2", 1, 9, TRUE, {}, "p"),
                Find("r4", 1, 9, TRUE, {"external_egress"}, "q")}
MCEngineOrder == <<"code", "pii", "llm">>
MCReports ==
    [e \in {"code", "pii", "llm"} |->
        IF e = "code" THEN Broken(e) \cup {Blob(e, s) : s \in UpToTwo(CodeFindings)}
        ELSE IF e = "pii" THEN Broken(e) \cup {Blob(e, s) : s \in UpToTwo(PiiFindings)}
        ELSE Broken(e) \cup {Blob(e, <<f>>) : f \in LlmFindings}]
BasePolicy == [version |-> "v1", required |-> {"code", "pii"}, hard |-> {"hg"}, reviewConf |-> 6,
               blockOn |-> 4, reviewOn |-> 3, failClosed |-> 2, allowMax |-> 3, overrides |-> <<>>]
ForPublic(sevs) == [n \in DOMAIN sevs |-> [tier |-> "public", sev |-> sevs[n]]]
Waiver(rule) == [rule |-> rule, scope |-> "global", own |-> FALSE, expired |-> FALSE,
                 approved |-> "a", requested |-> "b"]
MCSettings ==
    [policy : {BasePolicy, [BasePolicy EXCEPT !.overrides = ForPublic(<<4, 3>>)],
               [BasePolicy EXCEPT !.allowMax = 2, !.required = {"code"}],
               [BasePolicy EXCEPT !.required = {"code"}]},
     allowlist : {{}, {Waiver("r1")}}, tier : {"internal", "public"}]
    \cup [policy : {[BasePolicy EXCEPT !.required = {"code"}]}, allowlist : {{Waiver("r4")}},
          tier : {"internal"}]

-----------------------------------------------------------------------------
(* SkillPackage *)

Member(path, kind, size) ==
    [path |-> path, kind |-> kind, size |-> size, mode |-> IF size = 2 THEN 0 ELSE 755,
     data |-> <<path, size>>]
MCEntries ==
    {Member(<<"a">>, "file", 1), Member(<<"a">>, "file", 2), Member(<<".", "a">>, "file", 1),
     Member(<<"a", "b">>, "file", 2), Member(<<"b", "a">>, "file", 4), Member(<<"b">>, "dir", 0),
     Member(<<"..", "b">>, "dir", 0), Member(<<"a", "a\\..">>, "file", 1),
     Member(<<"b">>, "link", 0), Member(<<"a", "b", "c">>, "file", 5)}
MCUploads == [format : {"zip", "tar"}, packed : {0, 1, 3, 6, 7}]

-----------------------------------------------------------------------------
(* EngineBudget *)

Env(default, overrides, legacy, llm, deadline, disabled) ==
    [default |-> default, overrides |-> overrides, legacy |-> legacy, llm |-> llm,
     deadline |-> deadline, disabled |-> disabled]
NoOverride == [e \in {} |-> 0]
MCRunnerEnvs ==
    {Env({}, NoOverride, {}, TRUE, 8, {}), Env({}, NoOverride, {}, FALSE, 4, {}),
     Env({1}, "yara" :> 3 @@ Aig :> 2, {2}, TRUE, 8, {"bandit"}),
     Env({2}, "bandit" :> 1, {}, TRUE, 10, {}), Env({0}, NoOverride, {}, TRUE, 8, {}),
     Env({}, "semgrep" :> 1, {}, TRUE, 8, {}), Env({}, Aig :> 3, {2}, TRUE, 8, {}),
     Env({}, NoOverride, {5}, TRUE, 8, {"yara"})}
Conduct(starts, runs, exit, output) ==
    [starts |-> starts, runs |-> runs, exit |-> exit, output |-> output]
MCConducts ==
    {Conduct(FALSE, 0, 0, "none"), Conduct(TRUE, 9, 0, "none"), Conduct(TRUE, 2, 0, "report"),
     Conduct(TRUE, 1, 1, "report"), Conduct(TRUE, 1, 128, "none"),
     Conduct(TRUE, 0, 2, "garbage"), Conduct(TRUE, 1, 0, "garbage")}

-----------------------------------------------------------------------------
(* BrowserSession, LocalAccounts *)

MCTtlEnvs == [local : {1, 4, 5}, breakglass : {1, 5}]
MCSeedAccounts == "ada" :> "admin"
MCSeedGroups == "ops" :> "admin"

-----------------------------------------------------------------------------
(* Submission: the same package from two callers, under two tiers *)

Ask(who, toolchain, tier) == [who |-> who, key |-> <<"c1", toolchain>>, tier |-> tier]
MCAsks == {Ask("ada", "t1", "public"), Ask("ada", "t1", "internal"),
           Ask("bob", "t1", "internal"), Ask("bob", "t2", "public")}

-----------------------------------------------------------------------------
(* WorkerLoop: a schedule of every minute and one that uses every form *)

MCMinuteRange == <<0, 3>>
MCDomRange == <<1, 4>>
MCDowRange == <<0, 7>>
Token(start, end, step_) == <<[start |-> start, end |-> end, step |-> step_]>>
MCCrons ==
    {[minute |-> AnyOf(MinuteRange), dom |-> AnyOf(DomRange), dow |-> AnyOf(DowRange)],
     [minute |-> Token(0, 2, 2) \o Token(9, 9, 1), dom |-> Token(2, 2, 1), dow |-> Token(7, 7, 1)]}
MCCalendar == [t \in 0 .. 1 |-> [minute |-> t % 2, dom |-> 1 + t, dow |-> t % 3]]
MCBackground == <<"relay">>
MCRetentionEnvs == {{}, {0}}

-----------------------------------------------------------------------------
(* EngineCoverage, MarketplaceAnswer *)

MCEnds == "rules" :> {"ok", "error"} @@ "yara" :> {"ok", "not_reported", "unreadable"}
          @@ "aig" :> {"error", "not_reported"}
MCScanOf == {<<"n1", "c1">>, <<"n2", "c1">>, <<"n2", "c2">>}
=============================================================================
