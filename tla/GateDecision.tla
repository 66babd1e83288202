---------------------------- MODULE GateDecision ----------------------------
(***************************************************************************)
(* What the gate makes of the findings blobs of one scan: reading them     *)
(* (orchestration/aggregate.py, libs/schemas/findings.py), aggregating     *)
(* them (skillscan_core/scoring.py) and deciding (skillscan_core/gate.py)  *)
(* under a policy (skillscan_core/models.py, gate/policy.py).              *)
(*                                                                         *)
(* A finding is a record of what the decision looks at.  `place' stands    *)
(* for file, line and category; confidence is in tenths, and "none" is the  *)
(* empty string.  min_confidence is 0 in every call of the code, so every  *)
(* finding counts.                                                         *)
(***************************************************************************)
EXTENDS Integers, FiniteSets, Sequences, FiniteSetsExt, Functions

CONSTANTS EngineOrder,   \* engine names in the order they are aggregated
          LlmEngines,    \* those whose findings are LLM-sourced
          Reports,       \* Reports[e]: blobs engine e may write
          Settings,      \* [policy, allowlist, tier] a scan may be judged under
          MaxFindings    \* SKILLSCAN_MAX_FINDINGS

VARIABLES blobs,         \* findings blob of each engine
          setting

gateVars == <<blobs, setting>>

NONE == 0
LOW == 1
CRITICAL == 4
PASS == 0
REVIEW == 1
BLOCK == 2

Signals == {"private_data_access", "untrusted_input", "external_egress"}
Tiers == {"internal", "partner", "public"}

Engines == Range(EngineOrder)

\* Severity, Verdict and TrustTier are enumerations.  An engine gives all its
\* findings one source_capability, and a policy requires engines of the floor
\* only, none of them LLM-sourced (scoring.aggregate).
ASSUME GateAssumption ==
    /\ EngineOrder \in Seq(Engines) /\ MaxFindings \in Nat
    /\ \A e \in Engines : \A b \in Reports[e] :
          /\ b.findings \in Seq(Range(b.findings))
          /\ \A i \in DOMAIN b.findings : /\ b.findings[i].sev \in NONE..CRITICAL
                                         /\ b.findings[i].llm = (e \in LlmEngines)
    /\ \A s \in Settings :
          /\ s.tier \in Tiers /\ s.policy.required \cap LlmEngines = {}
          /\ {s.policy.blockOn, s.policy.allowMax} \subseteq NONE..CRITICAL
          /\ s.policy.failClosed \in PASS..BLOCK
          /\ \A i \in DOMAIN s.policy.overrides : s.policy.overrides[i].sev \in NONE..CRITICAL

-----------------------------------------------------------------------------
(* Reading a blob *)

\* Finding.__post_init__
ValidFinding(f) == f.rule # "none" /\ f.conf \in 0..10 /\ f.sev >= LOW

\* EngineMetadata.__post_init__ refuses engines that need the network.
ParsesAsEngineResult(raw) ==
    /\ raw.state = "json" /\ ~raw.network
    /\ \A i \in DOMAIN raw.findings : ValidFinding(raw.findings[i])

NoBlob == [state |-> "absent", name |-> "none", network |-> FALSE, status |-> "error",
           findings |-> << >>]

\* What stands for an engine that left no readable result
Unavailable(name) == [NoBlob EXCEPT !.name = name]

\* Absent, unparseable and misnamed blobs are results of a failed engine.
LoadEngineResult(b, name) ==
    IF ParsesAsEngineResult(b[name]) /\ b[name].name = name
    THEN b[name] ELSE Unavailable(name)

Usable(result) == result.status \in {"ok", "partial"}

-----------------------------------------------------------------------------
(* Aggregation *)

TrifectaIn(fs) == Signals \subseteq UNION {f.sig : f \in fs}

\* evaluate_findings over a set of findings
Evaluate(fs) ==
    LET top  == Max({f.sev : f \in fs} \cup {NONE})
        trif == TrifectaIn(fs)
    IN  [sev  |-> IF trif THEN CRITICAL ELSE top,
         conf |-> Max({f.conf : f \in {x \in fs : x.sev = top}} \cup {0}),
         trif |-> trif]

Stronger(f, g) == f.sev > g.sev \/ (f.sev = g.sev /\ f.conf > g.conf)

\* Findings of the usable results, by their position: engine, then index
Positions(b) ==
    LET usable == {n \in DOMAIN EngineOrder : Usable(LoadEngineResult(b, EngineOrder[n]))}
    IN  UNION {{<<n, i>> : i \in DOMAIN b[EngineOrder[n]].findings} : n \in usable}

FindingAt(b, p) == b[EngineOrder[p[1]]].findings[p[2]]

AllFindings(b) == {FindingAt(b, p) : p \in Positions(b)}

\* all_findings.sort by severity and confidence, which is stable
Precedes(b, p, q) ==
    LET f == FindingAt(b, p)
        g == FindingAt(b, q)
    IN  \/ Stronger(f, g)
        \/ ~Stronger(g, f) /\ (p[1] < q[1] \/ (p[1] = q[1] /\ p[2] < q[2]))

Capped(b) == Cardinality(Positions(b)) > MaxFindings

\* all_findings[:max_findings]
WithinCap(b) == {p \in Positions(b) : Cardinality({q \in Positions(b) : Precedes(b, q, p)}) < MaxFindings}

DedupKey(f) == <<f.rule, f.place, f.llm>>

\* _dedup keeps the first strongest finding of each key
Dedup(b, P) ==
    LET same(p) == {q \in P \ {p} : DedupKey(FindingAt(b, q)) = DedupKey(FindingAt(b, p))}
    IN  [kept     |-> {FindingAt(b, p) : p \in {x \in P : \A q \in same(x) : Precedes(b, x, q)}},
         collided |-> {FindingAt(b, p).rule : p \in {x \in P : same(x) # {}}}]

MissingOrFailed(b, policy) ==
    {e \in policy.required : e \notin Engines \/ ~Usable(LoadEngineResult(b, e))}

\* Variant: the trifecta is looked for in what the cap and the dedup leave.
AggregateAfterCap(b, policy) ==
    LET kept == Dedup(b, WithinCap(b))
        ev   == Evaluate(kept.kept)
    IN  [sev |-> ev.sev, trif |-> ev.trif,
         hard |-> {f.rule : f \in AllFindings(b)} \cap policy.hard,
         findings |-> kept.kept, collided |-> kept.collided, capped |-> Capped(b),
         missing |-> MissingOrFailed(b, policy)]

\* aggregate: hard gates and trifecta are taken before the cap.
Aggregate(b, policy) ==
    LET kept == Dedup(b, WithinCap(b))
        ev   == Evaluate(kept.kept)
        trif == TrifectaIn(AllFindings(b)) \/ ev.trif
    IN  [sev |-> IF trif THEN CRITICAL ELSE ev.sev, trif |-> trif,
         hard |-> {f.rule : f \in AllFindings(b)} \cap policy.hard,
         findings |-> kept.kept, collided |-> kept.collided, capped |-> Capped(b),
         missing |-> MissingOrFailed(b, policy)]

-----------------------------------------------------------------------------
(* Policy *)

\* GatePolicy.__post_init__
ValidPolicy(p) ==
    /\ p.version # "none"
    /\ p.reviewConf \in 0..10
    /\ p.blockOn >= LOW /\ p.reviewOn >= LOW
    /\ p.failClosed # PASS
    /\ \A i \in DOMAIN p.overrides : p.overrides[i].sev <= p.blockOn

BlockThreshold(p, tier) ==
    LET own == {o \in Range(p.overrides) : o.tier = tier}
    IN  IF own = {} THEN p.blockOn ELSE Min({o.sev : o \in own})

\* Variant: forgets what may be waived.
AdjudicationSemanticsShort(p) ==
    [required |-> p.required, hard |-> p.hard, reviewConf |-> p.reviewConf,
     blockOn |-> p.blockOn, reviewOn |-> p.reviewOn, failClosed |-> p.failClosed,
     tiers |-> [t \in Tiers |-> BlockThreshold(p, t)]]

\* Every field but the version, the overrides by what they come to
AdjudicationSemantics(p) ==
    [required |-> p.required, hard |-> p.hard, reviewConf |-> p.reviewConf,
     blockOn |-> p.blockOn, reviewOn |-> p.reviewOn, failClosed |-> p.failClosed,
     allowMax |-> p.allowMax, tiers |-> [t \in Tiers |-> BlockThreshold(p, t)]]

CachePolicyVersion(p) == <<p.version, AdjudicationSemantics(p)>>

\* Would the tier a verdict was judged under let more through?
TierDirection(p, requested, judged) ==
    IF requested \notin Tiers \/ judged \notin Tiers \/ requested = judged THEN "none"
    ELSE LET a == BlockThreshold(p, requested)
             b == BlockThreshold(p, judged)
         IN  IF b > a THEN "looser" ELSE IF b < a THEN "stricter" ELSE "equivalent"

-----------------------------------------------------------------------------
(* Decision *)

\* AllowlistEntry.__post_init__: four eyes
ValidEntry(a) == a.approved # a.requested /\ a.scope \in {"content", "skill", "global"}

\* is_active: an expired entry, or one for another content, is none.  The gate
\* passes no skill_id, so an entry for a skill is never active.
IsActive(a) == ValidEntry(a) /\ ~a.expired /\ \/ a.scope = "content" /\ a.own
                                              \/ a.scope = "global"

RuleWaived(rule, policy, allowlist) ==
    rule \notin policy.hard /\ \E a \in allowlist : a.rule = rule /\ IsActive(a)

IsWaived(f, policy, allowlist) ==
    f.sev <= policy.allowMax /\ RuleWaived(f.rule, policy, allowlist)

Classify(sev, conf, policy, tier) ==
    IF sev >= BlockThreshold(policy, tier) THEN BLOCK
    ELSE IF sev >= policy.reviewOn THEN REVIEW
    ELSE IF sev >= LOW /\ conf < policy.reviewConf THEN REVIEW ELSE PASS

\* dedup_signal_restored: the aggregate knows of a signal its findings lack.
Restored(r, policy, allowlist) ==
    LET raw == Evaluate(r.findings)
    IN  /\ (r.trif /\ ~raw.trif) \/ r.sev > raw.sev
        /\ ~(r.collided # {} /\ \A rule \in r.collided : RuleWaived(rule, policy, allowlist))

\* Severity of the effective findings with what Restored gives back
EffectiveSeverity(r, policy, allowlist) ==
    LET ev  == Evaluate({f \in r.findings : ~IsWaived(f, policy, allowlist)})
        raw == Evaluate(r.findings)
    IN  IF ~Restored(r, policy, allowlist) THEN ev.sev
        ELSE IF ev.trif \/ (r.trif /\ ~raw.trif) THEN CRITICAL
        ELSE IF r.sev > raw.sev THEN Max({ev.sev, r.sev}) ELSE ev.sev

\* The stricter of all findings and of the deterministic ones
ClassifyFindings(r, policy, allowlist, tier) ==
    LET effective == {f \in r.findings : ~IsWaived(f, policy, allowlist)}
        firm      == Evaluate({f \in effective : ~f.llm})
    IN  Max({Classify(EffectiveSeverity(r, policy, allowlist), Evaluate(effective).conf, policy, tier),
             Classify(firm.sev, firm.conf, policy, tier)})

Decide(r, policy, allowlist, tier) ==
    IF r.missing # {} THEN [verdict |-> policy.failClosed, failClosed |-> TRUE]
    ELSE IF r.hard \cup ({f.rule : f \in r.findings} \cap policy.hard) # {}
    THEN [verdict |-> BLOCK, failClosed |-> FALSE]
    ELSE LET v == ClassifyFindings(r, policy, allowlist, tier)
         IN  [verdict |-> IF r.capped THEN Max({v, REVIEW}) ELSE v, failClosed |-> FALSE]

Outcome(b, s) == Decide(Aggregate(b, s.policy), s.policy, s.allowlist, s.tier)

-----------------------------------------------------------------------------

GateInit == /\ blobs = [e \in Engines |-> NoBlob]
            /\ setting \in Settings /\ ValidPolicy(setting.policy)

Report(e) == /\ blobs[e] = NoBlob
             /\ \E b \in Reports[e] : blobs' = [blobs EXCEPT ![e] = b]
             /\ UNCHANGED setting

GateNext == \E e \in Engines : Report(e)

GateSpec == GateInit /\ [][GateNext]_gateVars

-----------------------------------------------------------------------------

\* The verdict of someone who reads every usable finding, uncapped and with its
\* duplicates, and takes away what is waived.
RawVerdict(s) ==
    LET all  == {f \in AllFindings(blobs) : ~IsWaived(f, s.policy, s.allowlist)}
        firm == Evaluate({f \in all : ~f.llm})
        ev   == Evaluate(all)
    IN  IF MissingOrFailed(blobs, s.policy) # {} THEN s.policy.failClosed
        ELSE IF \E f \in AllFindings(blobs) : f.rule \in s.policy.hard THEN BLOCK
        ELSE Max({Classify(ev.sev, ev.conf, s.policy, s.tier),
                  Classify(firm.sev, firm.conf, s.policy, s.tier)})

\* The blobs without the reports of the LLM-sourced engines, which no policy
\* requires
WithoutLlm(b) == [e \in Engines |-> IF e \in LlmEngines THEN NoBlob ELSE b[e]]

\* The two ways a waiver keeps decide from restoring what the dedup lost: the
\* findings that are left complete the trifecta only with waived ones, and
\* Restored looks at them before they are waived; or every collided rule is
\* waived, and a finding of such a rule is above what may be waived.
WaiverHides(b, s) ==
    LET r == Aggregate(b, s.policy)
        Stands(f) == ~IsWaived(f, s.policy, s.allowlist)
    IN  /\ r.collided # {}
        /\ \/ TrifectaIn(r.findings) /\ ~TrifectaIn({f \in r.findings : Stands(f)})
           \/ /\ \A rule \in r.collided : RuleWaived(rule, s.policy, s.allowlist)
              /\ \E f \in AllFindings(b) : f.rule \in r.collided /\ Stands(f)

\* Unless a waiver hides what was lost, capping and deduplicating never make the
\* verdict softer than the raw findings deserve, nor do the reports of LLM-sourced
\* engines soften it; a capped scan may come out as REVIEW for BLOCK, never as
\* PASS (aggregate, decide).
NoSignalIsLost ==
    LET out == Outcome(blobs, setting)
    IN  ~WaiverHides(blobs, setting) =>
            \/ Capped(blobs) /\ out.verdict = REVIEW
            \/ /\ out.verdict >= RawVerdict(setting)
               /\ Capped(blobs) \/ out.verdict >= Outcome(WithoutLlm(blobs), setting).verdict

\* The reports of engines whose findings are LLM-sourced never soften the
\* verdict, short of the cap (decide, "INV-2").
LlmOnlyEscalates ==
    ~Capped(blobs) =>
        Outcome(blobs, setting).verdict >= Outcome(WithoutLlm(blobs), setting).verdict

\* A verdict that is reused for another request under the same cache key is no
\* softer than a new scan's would be, unless the answer calls the tier it was
\* judged under looser (cache_policy_version, tier_direction).
ReuseIsSound ==
    LET key == CachePolicyVersion(setting.policy)
        verdict == Outcome(blobs, setting).verdict
    IN  \A s \in {x \in Settings : x.allowlist = setting.allowlist} :
            /\ \/ s.tier = setting.tier
               \/ TierDirection(setting.policy, s.tier, setting.tier) \in {"stricter", "equivalent"}
            /\ CachePolicyVersion(s.policy) = key
            => verdict >= Outcome(blobs, s).verdict
=============================================================================
