-------------------------- MODULE JudgementProofs --------------------------
(***************************************************************************)
(* Theorems about how a scan is judged and what is said of the judgement:  *)
(* GateDecision, EngineBudget and EngineCoverage.                          *)
(***************************************************************************)
EXTENDS GateDecision, EngineBudget, EngineCoverage, FiniteSetTheorems, WellFoundedInduction, TLAPS

-----------------------------------------------------------------------------
(* GateDecision: a verdict that is reused *)

Severities == 0 .. 4

\* A set of severities or verdicts has a greatest and a least member.
LEMMA ExtremesOf ==
    ASSUME NEW T, T \subseteq Severities, T # {}
    PROVE  /\ Max(T) \in T /\ \A j \in T : Max(T) >= j
           /\ Min(T) \in T /\ \A j \in T : Min(T) =< j
<1>a. \A j \in T : j \in 0 .. 4
  BY Zenon DEF Severities
<1>b. 4 \in T \/ 3 \in T \/ 2 \in T \/ 1 \in T \/ 0 \in T
  BY <1>a
<1>1. \E i \in T : \A j \in T : i >= j
  <2>1. CASE 4 \in T
    BY <1>a, <2>1
  <2>2. CASE 4 \notin T /\ 3 \in T
    BY <1>a, <2>2
  <2>3. CASE 4 \notin T /\ 3 \notin T /\ 2 \in T
    BY <1>a, <2>3
  <2>4. CASE 4 \notin T /\ 3 \notin T /\ 2 \notin T
    BY <1>a, <1>b, <2>4
  <2> QED
    BY <2>1, <2>2, <2>3, <2>4, Zenon
<1>2. \E i \in T : \A j \in T : i =< j
  <2>1. CASE 0 \in T
    BY <1>a, <2>1
  <2>2. CASE 0 \notin T /\ 1 \in T
    BY <1>a, <2>2
  <2>3. CASE 0 \notin T /\ 1 \notin T /\ 2 \in T
    BY <1>a, <2>3
  <2>4. CASE 0 \notin T /\ 1 \notin T /\ 2 \notin T
    BY <1>a, <1>b, <2>4
  <2> QED
    BY <2>1, <2>2, <2>3, <2>4, Zenon
<1>3. Max(T) \in T /\ \A j \in T : Max(T) >= j
  BY <1>1, Zenon DEF Max
<1>4. Min(T) \in T /\ \A j \in T : Min(T) =< j
  BY <1>2, Zenon DEF Min
<1> QED
  BY <1>3, <1>4, Zenon

Rated(fs) == \A f \in fs : f.sev \in Severities

\* The severity of rated findings is a severity.
LEMMA EvaluateRates ==
    ASSUME NEW fs, Rated(fs)
    PROVE  Evaluate(fs).sev \in Severities
<1> DEFINE T == {f.sev : f \in fs} \cup {NONE}
<1>1. T \subseteq Severities /\ T # {} /\ CRITICAL \in Severities
  BY DEF Rated, Severities, NONE, CRITICAL
<1>2. Max(T) \in Severities
  BY <1>1, ExtremesOf, Zenon
<1>3. Evaluate(fs).sev = IF TrifectaIn(fs) THEN CRITICAL ELSE Max(T)
  BY Zenon DEF Evaluate
<1> QED
  BY <1>1, <1>2, <1>3, Zenon

\* The threshold of a tier is a severity.
LEMMA ThresholdRated ==
    ASSUME NEW s \in Settings, NEW t
    PROVE  BlockThreshold(s.policy, t) \in Severities
<1> DEFINE own == {o \in Range(s.policy.overrides) : o.tier = t}
           T == {o.sev : o \in own}
<1>1. s.policy.blockOn \in Severities
  BY GateAssumption, Zenon DEF Severities, NONE, CRITICAL
<1>2. \A o \in Range(s.policy.overrides) : o.sev \in Severities
  BY GateAssumption DEF Severities, NONE, CRITICAL, Range
<1>3. ASSUME own # {}
      PROVE  Min(T) \in Severities
  <2>1. T \subseteq Severities /\ T # {}
    BY <1>2, <1>3, Zenon
  <2> QED
    BY <2>1, ExtremesOf, Zenon
<1> QED
  BY <1>1, <1>3, Zenon DEF BlockThreshold

\* What a cache key keeps of a policy
Alike(p, q) ==
    /\ p.required = q.required /\ p.hard = q.hard
    /\ p.reviewConf = q.reviewConf /\ p.reviewOn = q.reviewOn
    /\ p.failClosed = q.failClosed /\ p.allowMax = q.allowMax

\* A lower threshold classifies no softer.
LEMMA StricterClassifies ==
    ASSUME NEW sev \in Severities, NEW conf, NEW p, NEW q, NEW t, NEW u, Alike(p, q),
           BlockThreshold(p, t) \in Severities, BlockThreshold(q, u) \in Severities,
           BlockThreshold(p, t) <= BlockThreshold(q, u)
    PROVE  /\ Classify(sev, conf, p, t) \in 0 .. 2 /\ Classify(sev, conf, q, u) \in 0 .. 2
           /\ Classify(sev, conf, p, t) >= Classify(sev, conf, q, u)
<1> DEFINE a == BlockThreshold(p, t)
           b == BlockThreshold(q, u)
           low == IF sev >= p.reviewOn THEN REVIEW
                  ELSE IF sev >= LOW /\ conf < p.reviewConf THEN REVIEW ELSE PASS
<1>1. Classify(sev, conf, p, t) = IF sev >= a THEN BLOCK ELSE low
  BY Zenon DEF Classify
<1>2. Classify(sev, conf, q, u) = IF sev >= b THEN BLOCK ELSE low
  BY Zenon DEF Classify, Alike
<1>3. low = REVIEW \/ low = PASS
  BY Zenon
<1> HIDE DEF low
<1>4. low \in 0 .. 1
  BY <1>3 DEF REVIEW, PASS
<1>5. a \in Severities /\ b \in Severities /\ a <= b
  BY Zenon
<1> HIDE DEF a, b
<1> QED
  BY <1>1, <1>2, <1>4, <1>5 DEF BLOCK, Severities

\* Policies that are alike waive the same findings.
LEMMA AlikeWaive ==
    ASSUME NEW p, NEW q, NEW al, Alike(p, q)
    PROVE  /\ \A x : RuleWaived(x, p, al) <=> RuleWaived(x, q, al)
           /\ \A f : IsWaived(f, p, al) <=> IsWaived(f, q, al)
<1>1. \A x : RuleWaived(x, p, al) <=> RuleWaived(x, q, al)
  BY Zenon DEF Alike, RuleWaived
<1> QED
  BY <1>1, Zenon DEF Alike, IsWaived

\* Findings that are not waived
Standing(r, p, al) == {f \in r.findings : ~IsWaived(f, p, al)}

\* They aggregate alike, and the effective severity is the same.
LEMMA AlikeRead ==
    ASSUME NEW p, NEW q, NEW al, Alike(p, q)
    PROVE  /\ \A b : Aggregate(b, p) = Aggregate(b, q)
           /\ \A r : /\ Standing(r, p, al) = Standing(r, q, al)
                     /\ EffectiveSeverity(r, p, al) = EffectiveSeverity(r, q, al)
<1>1. \A b : MissingOrFailed(b, p) = MissingOrFailed(b, q)
  BY Zenon DEF Alike, MissingOrFailed
<1>2. \A b : Aggregate(b, p) = Aggregate(b, q)
  BY <1>1, Zenon DEF Alike, Aggregate
<1>3. \A r : Standing(r, p, al) = Standing(r, q, al)
  BY AlikeWaive, Zenon DEF Standing
<1>4. \A r : Restored(r, p, al) <=> Restored(r, q, al)
  BY AlikeWaive, Zenon DEF Restored
<1>5. \A r : EffectiveSeverity(r, p, al) = EffectiveSeverity(r, q, al)
  BY <1>3, <1>4, Zenon DEF EffectiveSeverity, Standing
<1> QED
  BY <1>2, <1>3, <1>5, Zenon

\* The effective severity of a rated result is a severity.
LEMMA SeverityRated ==
    ASSUME NEW r, Rated(r.findings), r.sev \in Severities, NEW p, NEW al
    PROVE  EffectiveSeverity(r, p, al) \in Severities
<1> DEFINE ev == Evaluate({f \in r.findings : ~IsWaived(f, p, al)})
<1>1. ev.sev \in Severities
  <2>1. Rated({f \in r.findings : ~IsWaived(f, p, al)})
    BY Zenon DEF Rated
  <2> QED
    BY <2>1, EvaluateRates, Zenon
<1>2. Max({ev.sev, r.sev}) \in Severities
  <2>1. {ev.sev, r.sev} \subseteq Severities /\ {ev.sev, r.sev} # {}
    BY <1>1, Zenon
  <2> QED
    BY <2>1, ExtremesOf, Zenon
<1>3. CRITICAL \in Severities
  BY DEF CRITICAL, Severities
<1> QED
  BY <1>1, <1>2, <1>3, Zenon DEF EffectiveSeverity

\* The greater of two verdicts grows with both.
LEMMA MaxGrows ==
    ASSUME NEW a \in 0 .. 2, NEW b \in 0 .. 2, NEW c \in 0 .. 2, NEW d \in 0 .. 2, a >= c, b >= d
    PROVE  Max({a, b}) \in 0 .. 2 /\ Max({c, d}) \in 0 .. 2 /\ Max({a, b}) >= Max({c, d})
<1>1. /\ {a, b} \subseteq Severities /\ {a, b} # {}
      /\ {c, d} \subseteq Severities /\ {c, d} # {}
  BY DEF Severities
<1>2. /\ Max({a, b}) \in {a, b} /\ \A j \in {a, b} : Max({a, b}) >= j
      /\ Max({c, d}) \in {c, d} /\ \A j \in {c, d} : Max({c, d}) >= j
  BY <1>1, ExtremesOf, Zenon
<1> QED
  BY <1>2

\* Of two policies that are alike, the one with the lower threshold for the tier
\* in hand judges the same findings no softer.
LEMMA StricterJudges ==
    ASSUME NEW r, Rated(r.findings), r.sev \in Severities,
           NEW p, NEW q, NEW al, NEW t, NEW u, Alike(p, q), p.failClosed \in 0 .. 2,
           BlockThreshold(p, t) \in Severities, BlockThreshold(q, u) \in Severities,
           BlockThreshold(p, t) <= BlockThreshold(q, u)
    PROVE  Decide(r, p, al, t).verdict >= Decide(r, q, al, u).verdict
<1> DEFINE kept == {f \in r.findings : ~IsWaived(f, p, al)}
           firm == Evaluate({f \in kept : ~f.llm})
           sev == EffectiveSeverity(r, p, al)
           conf == Evaluate(kept).conf
           v == ClassifyFindings(r, p, al, t)
           w == ClassifyFindings(r, q, al, u)
<1>1. v = Max({Classify(sev, conf, p, t), Classify(firm.sev, firm.conf, p, t)})
  BY Zenon DEF ClassifyFindings
<1>2. w = Max({Classify(sev, conf, q, u), Classify(firm.sev, firm.conf, q, u)})
  <2>1. {f \in r.findings : ~IsWaived(f, q, al)} = kept /\ EffectiveSeverity(r, q, al) = sev
    <3>1. Standing(r, p, al) = Standing(r, q, al) /\ EffectiveSeverity(r, p, al) = EffectiveSeverity(r, q, al)
      BY AlikeRead
    <3> QED
      BY <3>1, Zenon DEF Standing
  <2> HIDE DEF kept, sev
  <2> QED
    BY <2>1, Zenon DEF ClassifyFindings
<1>3. sev \in Severities /\ firm.sev \in Severities
  <2>1. Rated({f \in kept : ~f.llm})
    BY Zenon DEF Rated
  <2> QED
    BY <2>1, SeverityRated, EvaluateRates, Zenon
<1> HIDE DEF sev, conf, firm
<1>4. v \in 0 .. 2 /\ w \in 0 .. 2 /\ v >= w
  <2>1. /\ Classify(sev, conf, p, t) \in 0 .. 2 /\ Classify(sev, conf, q, u) \in 0 .. 2
        /\ Classify(sev, conf, p, t) >= Classify(sev, conf, q, u)
    BY <1>3, StricterClassifies, Zenon
  <2>2. /\ Classify(firm.sev, firm.conf, p, t) \in 0 .. 2
        /\ Classify(firm.sev, firm.conf, q, u) \in 0 .. 2
        /\ Classify(firm.sev, firm.conf, p, t) >= Classify(firm.sev, firm.conf, q, u)
    BY <1>3, StricterClassifies, Zenon
  <2> DEFINE a == Classify(sev, conf, p, t)
             b == Classify(firm.sev, firm.conf, p, t)
             c == Classify(sev, conf, q, u)
             d == Classify(firm.sev, firm.conf, q, u)
  <2>3. Max({a, b}) \in 0 .. 2 /\ Max({c, d}) \in 0 .. 2 /\ Max({a, b}) >= Max({c, d})
    <3>1. a \in 0 .. 2 /\ b \in 0 .. 2 /\ c \in 0 .. 2 /\ d \in 0 .. 2 /\ a >= c /\ b >= d
      BY <2>1, <2>2, Zenon
    <3> HIDE DEF a, b, c, d
    <3> QED
      BY <3>1, MaxGrows, Zenon
  <2> QED
    BY <1>1, <1>2, <2>3, Zenon
<1> HIDE DEF v, w
<1>5. Max({v, REVIEW}) >= Max({w, REVIEW})
  <2>1. REVIEW \in 0 .. 2 /\ REVIEW >= REVIEW
    BY DEF REVIEW
  <2> QED
    BY <1>4, <2>1, MaxGrows, Zenon
<1>6. Decide(r, p, al, t).verdict =
          IF r.missing # {} THEN p.failClosed
          ELSE IF r.hard \cup ({f.rule : f \in r.findings} \cap p.hard) # {} THEN BLOCK
          ELSE IF r.capped THEN Max({v, REVIEW}) ELSE v
  BY Zenon DEF Decide, v
<1>7. Decide(r, q, al, u).verdict =
          IF r.missing # {} THEN p.failClosed
          ELSE IF r.hard \cup ({f.rule : f \in r.findings} \cap p.hard) # {} THEN BLOCK
          ELSE IF r.capped THEN Max({w, REVIEW}) ELSE w
  BY Zenon DEF Decide, Alike, w
<1>8. p.failClosed >= p.failClosed /\ BLOCK >= BLOCK
  BY DEF BLOCK
<1> QED
  BY <1>4, <1>5, <1>6, <1>7, <1>8, Zenon

-----------------------------------------------------------------------------

Blobs == {NoBlob} \cup UNION {Reports[e] : e \in Engines}

\* Every blob is one that its engine may write.
ReadOK(b) == /\ b \in [Engines -> Blobs]
             /\ \A e \in Engines : b[e] = NoBlob \/ b[e] \in Reports[e]

GateInv == ReadOK(blobs) /\ setting \in Settings /\ ValidPolicy(setting.policy)

\* Every blob is one that its engine may write.
LEMMA GateAlways == GateSpec => []GateInv
<1>1. GateInit => GateInv
  BY Zenon DEF GateInit, GateInv, ReadOK, Blobs
<1>2. GateInv /\ [GateNext]_gateVars => GateInv'
  <2> SUFFICES ASSUME GateInv, [GateNext]_gateVars PROVE GateInv'
    BY Zenon
  <2>1. ASSUME NEW e \in Engines, Report(e)
        PROVE  GateInv'
    <3>1. PICK b \in Reports[e] : blobs' = [blobs EXCEPT ![e] = b]
      BY <2>1, Zenon DEF Report
    <3>2. b \in Blobs
      BY Zenon DEF Blobs
    <3>3. blobs \in [Engines -> Blobs]
      BY Zenon DEF GateInv, ReadOK
    <3>4. ReadOK(blobs')
      <4>1. blobs' \in [Engines -> Blobs]
        BY <3>1, <3>2, <3>3, Zenon
      <4>2. \A x \in Engines : blobs'[x] = IF x = e THEN b ELSE blobs[x]
        BY <3>1, <3>3, Zenon
      <4> QED
        BY <4>1, <4>2, Zenon DEF GateInv, ReadOK
    <3> QED
      BY <2>1, <3>4, Zenon DEF Report, GateInv
  <2>2. CASE UNCHANGED gateVars
    BY <2>2, Zenon DEF gateVars, GateInv, ReadOK
  <2> QED
    BY <2>1, <2>2, Zenon DEF GateNext
<1> QED
  BY <1>1, <1>2, PTL DEF GateSpec

\* The findings of an aggregate are rated, and so is the aggregate.
LEMMA AggregateRated ==
    ASSUME GateInv, NEW p
    PROVE  Rated(Aggregate(blobs, p).findings) /\ Aggregate(blobs, p).sev \in Severities
<1> DEFINE cut == WithinCap(blobs)
           kept == Dedup(blobs, cut).kept
<1>1. \A x \in Positions(blobs) : FindingAt(blobs, x).sev \in Severities
  <2> SUFFICES ASSUME NEW x \in Positions(blobs)
               PROVE  FindingAt(blobs, x).sev \in Severities
    BY Zenon
  <2>0. PICK n \in DOMAIN EngineOrder : \E i \in DOMAIN blobs[EngineOrder[n]].findings : x = <<n, i>>
    BY Zenon DEF Positions
  <2>1. PICK i \in DOMAIN blobs[EngineOrder[n]].findings : x = <<n, i>>
    BY <2>0, Zenon
  <2>2. EngineOrder[n] \in Engines
    BY Zenon DEF Engines, Range
  <2>3. blobs[EngineOrder[n]] # NoBlob
    <3>1. DOMAIN NoBlob.findings = {}
      BY DEF NoBlob
    <3> QED
      BY <3>1, Zenon
  <2>4. PICK e \in Engines : blobs[EngineOrder[n]] \in Reports[e]
    <3>1. blobs[EngineOrder[n]] \in Blobs
      BY <2>2, Zenon DEF GateInv, ReadOK
    <3> QED
      BY <2>3, <3>1, Zenon DEF Blobs
  <2>5. blobs[EngineOrder[n]].findings[i].sev \in NONE .. CRITICAL
    BY <2>4, GateAssumption, Zenon
  <2>6. x[1] = n /\ x[2] = i
    BY <2>1, Zenon
  <2> QED
    BY <2>5, <2>6, Zenon DEF FindingAt, Severities, NONE, CRITICAL
<1>2. \A f \in kept : \E x \in Positions(blobs) : f = FindingAt(blobs, x)
  BY Zenon DEF Dedup, WithinCap
<1>3. Rated(kept)
  BY <1>1, <1>2, Zenon DEF Rated
<1>4. Aggregate(blobs, p).findings = kept
  BY Zenon DEF Aggregate
<1>5. Aggregate(blobs, p).sev = CRITICAL \/ Aggregate(blobs, p).sev = Evaluate(kept).sev
  BY Zenon DEF Aggregate
<1>6. CRITICAL \in Severities
  BY DEF CRITICAL, Severities
<1> QED
  BY <1>3, <1>4, <1>5, <1>6, EvaluateRates, Zenon

\* Whatever the engines reported and whatever the policies say, a verdict that is
\* reused under its cache key is no softer than a new scan's would be, unless the
\* answer calls its tier looser.
THEOREM ReusedVerdictsHold == GateSpec => []ReuseIsSound
<1>1. GateInv => ReuseIsSound
  <2> SUFFICES ASSUME GateInv, NEW s \in Settings, s.allowlist = setting.allowlist,
                      \/ s.tier = setting.tier
                      \/ TierDirection(setting.policy, s.tier, setting.tier)
                            \in {"stricter", "equivalent"},
                      CachePolicyVersion(s.policy) = CachePolicyVersion(setting.policy)
               PROVE  Outcome(blobs, setting).verdict >= Outcome(blobs, s).verdict
    BY Zenon DEF ReuseIsSound
  <2> DEFINE p == setting.policy
             q == s.policy
             a == BlockThreshold(p, setting.tier)
             c == BlockThreshold(q, s.tier)
  <2>1. AdjudicationSemantics(q) = AdjudicationSemantics(p)
    BY Zenon DEF CachePolicyVersion
  <2>2. /\ AdjudicationSemantics(p).required = p.required /\ AdjudicationSemantics(p).hard = p.hard
        /\ AdjudicationSemantics(p).reviewConf = p.reviewConf
        /\ AdjudicationSemantics(p).reviewOn = p.reviewOn
        /\ AdjudicationSemantics(p).failClosed = p.failClosed
        /\ AdjudicationSemantics(p).allowMax = p.allowMax
        /\ AdjudicationSemantics(p).tiers = [t \in Tiers |-> BlockThreshold(p, t)]
    BY Zenon DEF AdjudicationSemantics
  <2>3. /\ AdjudicationSemantics(q).required = q.required /\ AdjudicationSemantics(q).hard = q.hard
        /\ AdjudicationSemantics(q).reviewConf = q.reviewConf
        /\ AdjudicationSemantics(q).reviewOn = q.reviewOn
        /\ AdjudicationSemantics(q).failClosed = q.failClosed
        /\ AdjudicationSemantics(q).allowMax = q.allowMax
        /\ AdjudicationSemantics(q).tiers = [t \in Tiers |-> BlockThreshold(q, t)]
    BY Zenon DEF AdjudicationSemantics
  <2>4. Alike(p, q)
    BY <2>1, <2>2, <2>3, Zenon DEF Alike
  <2>5. setting \in Settings /\ s.tier \in Tiers /\ setting.tier \in Tiers
    BY GateAssumption, Zenon DEF GateInv
  <2>6. BlockThreshold(p, s.tier) = c
    <3>1. [t \in Tiers |-> BlockThreshold(p, t)] = [t \in Tiers |-> BlockThreshold(q, t)]
      BY <2>1, <2>2, <2>3, Zenon
    <3>2. [t \in Tiers |-> BlockThreshold(p, t)][s.tier] = [t \in Tiers |-> BlockThreshold(q, t)][s.tier]
      BY <3>1, Zenon
    <3> QED
      BY <2>5, <3>2, Zenon
  <2>7. a \in Severities /\ c \in Severities
    BY <2>5, ThresholdRated, Zenon
  <2>8. a = c \/ a < c \/ (~(a > c) /\ ~(a < c))
    <3>1. CASE s.tier = setting.tier
      BY <2>6, <3>1, Zenon
    <3>2. CASE s.tier # setting.tier
      <4>1. TierDirection(p, s.tier, setting.tier) =
                IF a > c THEN "looser" ELSE IF a < c THEN "stricter" ELSE "equivalent"
        BY <2>5, <2>6, <3>2, Zenon DEF TierDirection
      <4> QED
        BY <3>2, <4>1, Zenon
    <3> QED
      BY <3>1, <3>2, Zenon
  <2> HIDE DEF a, c
  <2>9. a <= c
    BY <2>7, <2>8 DEF Severities
  <2>10. p.failClosed \in 0 .. 2
    BY <2>5, GateAssumption, Zenon DEF PASS, BLOCK
  <2>11. Decide(Aggregate(blobs, p), p, setting.allowlist, setting.tier).verdict
             >= Decide(Aggregate(blobs, p), q, setting.allowlist, s.tier).verdict
    BY <2>4, <2>7, <2>9, <2>10, AggregateRated, StricterJudges, Zenon DEF a, c
  <2>12. Aggregate(blobs, q) = Aggregate(blobs, p)
    BY <2>4, AlikeRead, Zenon
  <2> QED
    BY <2>11, <2>12, Zenon DEF Outcome
<1> QED
  BY <1>1, GateAlways, PTL


-----------------------------------------------------------------------------
(* GateDecision: what the cap and the dedup lose *)

\* A set of naturals has a least member.
LEMMA LeastOf ==
    ASSUME NEW T, T \subseteq Nat, T # {}
    PROVE  \E i \in T : \A j \in T : i <= j
<1>1. PICK x \in T : \A y \in T : ~(<<y, x>> \in OpToRel(<, Nat))
  BY NatLessThanWellFounded, WFMin, Zenon
<1>2. \A y \in T : ~(y < x)
  BY <1>1, Zenon DEF OpToRel
<1> QED
  BY <1>2

\* A set of confidences or severities has a greatest one.
LEMMA GreatestOf ==
    ASSUME NEW T, T \subseteq 0 .. 10, T # {}
    PROVE  Max(T) \in T /\ \A j \in T : Max(T) >= j
<1> DEFINE D == {10 - i : i \in T}
<1>1. \A i \in T : i \in 0 .. 10
  BY Zenon
<1>2. \A i \in T : 10 - i \in Nat
  BY <1>1
<1>3. D \subseteq Nat /\ D # {}
  BY <1>2, Zenon
<1>4. PICK x \in D : \A y \in D : x <= y
  BY <1>3, LeastOf, Zenon
<1>5. PICK i \in T : x = 10 - i
  BY Zenon
<1>6. \A j \in T : x <= 10 - j
  BY <1>4, Zenon
<1>7. \A j \in T : i >= j
  BY <1>1, <1>5, <1>6
<1> QED
  BY <1>7, Zenon DEF Max

\* Findings as the reader lets them through
Graded(fs) == \A f \in fs : f.sev \in 1 .. 4 /\ f.conf \in 0 .. 10

\* A position names an engine that reported, and a valid finding of its report.
LEMMA PositionsRead ==
    ASSUME NEW b, ReadOK(b), NEW x \in Positions(b)
    PROVE  /\ x[1] \in Nat /\ x[2] \in Nat /\ x = <<x[1], x[2]>>
           /\ EngineOrder[x[1]] \in Engines
           /\ FindingAt(b, x).sev \in 1 .. 4 /\ FindingAt(b, x).conf \in 0 .. 10
           /\ FindingAt(b, x).llm = (EngineOrder[x[1]] \in LlmEngines)
<1>0. PICK n \in DOMAIN EngineOrder :
         /\ Usable(LoadEngineResult(b, EngineOrder[n]))
         /\ \E i \in DOMAIN b[EngineOrder[n]].findings : x = <<n, i>>
  BY Zenon DEF Positions
<1>1. PICK i \in DOMAIN b[EngineOrder[n]].findings : x = <<n, i>>
  BY <1>0, Zenon
<1> DEFINE e == EngineOrder[n]
           f == b[e].findings[i]
<1>2. x[1] = n /\ x[2] = i
  BY <1>1, Zenon
<1>3. e \in Engines
  BY Zenon DEF Engines, Range
<1>4. b[e] # NoBlob
  <2>1. DOMAIN NoBlob.findings = {}
    BY DEF NoBlob
  <2> QED
    BY <2>1, Zenon
<1>5. b[e] \in Reports[e]
  BY <1>3, <1>4, Zenon DEF ReadOK
<1>6. ParsesAsEngineResult(b[e])
  <2>1. ~Usable(Unavailable(e))
    BY DEF Usable, Unavailable, NoBlob
  <2> QED
    BY <1>0, <2>1, Zenon DEF LoadEngineResult
<1>7. f.conf \in 0 .. 10 /\ f.sev >= LOW
  BY <1>6, Zenon DEF ParsesAsEngineResult, ValidFinding
<1>8. f.sev \in NONE .. CRITICAL /\ f.llm = (e \in LlmEngines)
  <2>1. \A g \in Engines : \A d \in Reports[g] :
           \A k \in DOMAIN d.findings : /\ d.findings[k].sev \in NONE .. CRITICAL
                                        /\ d.findings[k].llm = (g \in LlmEngines)
    BY GateAssumption, Zenon
  <2>2. i \in DOMAIN b[e].findings
    BY <1>1, Zenon
  <2> HIDE DEF e
  <2> QED
    BY <1>3, <1>5, <2>1, <2>2, Zenon
<1>9. FindingAt(b, x) = f
  BY <1>2, Zenon DEF FindingAt
<1>10. n \in Nat
  BY GateAssumption
<1>11. i \in Nat
  <2>1. b[e].findings \in Seq(Range(b[e].findings))
    BY <1>3, <1>5, GateAssumption, Zenon
  <2> QED
    BY <2>1
<1> HIDE DEF f
<1>12. f.sev \in 1 .. 4
  BY <1>7, <1>8 DEF LOW, NONE, CRITICAL
<1> QED
  BY <1>1, <1>2, <1>3, <1>7, <1>8, <1>9, <1>10, <1>11, <1>12, Zenon

\* The place of a finding in the order by severity and confidence
Rank(f) == 54 - (11 * f.sev + f.conf)

\* A finding is stronger if its rank is lower.
LEMMA RankOrders ==
    ASSUME NEW f, NEW g, f.sev \in 1 .. 4, f.conf \in 0 .. 10, g.sev \in 1 .. 4, g.conf \in 0 .. 10
    PROVE  Rank(f) \in Nat /\ (Stronger(f, g) <=> Rank(f) < Rank(g))
<1> DEFINE a == f.sev
           b == f.conf
           c == g.sev
           d == g.conf
<1>1. Rank(f) = 54 - (11 * a + b) /\ Rank(g) = 54 - (11 * c + d)
  BY Zenon DEF Rank
<1>2. Stronger(f, g) <=> a > c \/ (a = c /\ b > d)
  BY Zenon DEF Stronger
<1>3. a \in 1 .. 4 /\ b \in 0 .. 10 /\ c \in 1 .. 4 /\ d \in 0 .. 10
  BY Zenon
<1> HIDE DEF a, b, c, d
<1>4. (a > c \/ (a = c /\ b > d)) <=> 54 - (11 * a + b) < 54 - (11 * c + d)
  BY <1>3
<1>5. 54 - (11 * a + b) \in Nat
  BY <1>3
<1> QED
  BY <1>1, <1>2, <1>4, <1>5, Zenon

\* Among any positions one precedes all others.
LEMMA FirstOf ==
    ASSUME NEW b, ReadOK(b), NEW P, P \subseteq Positions(b), P # {}
    PROVE  \E x \in P : \A y \in P \ {x} : Precedes(b, x, y)
<1> DEFINE R(x) == Rank(FindingAt(b, x))
           A == {R(x) : x \in P}
<1>1. \A x \in P : /\ R(x) \in Nat /\ x[1] \in Nat /\ x[2] \in Nat /\ x = <<x[1], x[2]>>
  BY PositionsRead, RankOrders, Zenon
<1>2. \A x, y \in P : Stronger(FindingAt(b, x), FindingAt(b, y)) <=> R(x) < R(y)
  BY PositionsRead, RankOrders, Zenon
<1> HIDE DEF R
<1>3. PICK u \in P : \A y \in P : R(u) <= R(y)
  <2>1. A \subseteq Nat /\ A # {}
    BY <1>1, Zenon
  <2>2. PICK m \in A : \A n \in A : m <= n
    BY <2>1, LeastOf, Zenon
  <2> QED
    BY <2>2, Zenon
<1> DEFINE B == {x \in P : R(x) = R(u)}
           C == {x[1] : x \in B}
<1>4. PICK v \in B : \A y \in B : v[1] <= y[1]
  <2>1. C \subseteq Nat /\ C # {}
    BY <1>1, Zenon
  <2>2. PICK m \in C : \A n \in C : m <= n
    BY <2>1, LeastOf, Zenon
  <2> QED
    BY <2>2, Zenon
<1> DEFINE D == {x \in B : x[1] = v[1]}
           F == {x[2] : x \in D}
<1>5. PICK w \in D : \A y \in D : w[2] <= y[2]
  <2>1. F \subseteq Nat /\ F # {}
    BY <1>1, Zenon
  <2>2. PICK m \in F : \A n \in F : m <= n
    BY <2>1, LeastOf, Zenon
  <2> QED
    BY <2>2, Zenon
<1>6. w \in P /\ R(w) = R(u) /\ w[1] = v[1]
  BY <1>5, Zenon
<1>7. ASSUME NEW y \in P \ {w}
      PROVE  R(w) < R(y) \/ (~(R(y) < R(w)) /\ (w[1] < y[1] \/ (w[1] = y[1] /\ w[2] < y[2])))
  <2>1. R(w) \in Nat /\ R(y) \in Nat /\ R(w) <= R(y)
    BY <1>1, <1>3, <1>6, Zenon
  <2>2. R(y) = R(w) => w[1] <= y[1]
    BY <1>4, <1>6, Zenon
  <2>3. R(y) = R(w) /\ y[1] = w[1] => w[2] <= y[2]
    BY <1>5, <1>6, Zenon
  <2>4. ~(y[1] = w[1] /\ y[2] = w[2])
    BY <1>1, <1>6, Zenon
  <2>5. w[1] \in Nat /\ w[2] \in Nat /\ y[1] \in Nat /\ y[2] \in Nat
    BY <1>1, <1>6, Zenon
  <2> QED
    BY <2>1, <2>2, <2>3, <2>4, <2>5
<1>8. \A y \in P \ {w} : Precedes(b, w, y)
  BY <1>2, <1>6, <1>7, Zenon DEF Precedes
<1> QED
  BY <1>6, <1>8, Zenon

\* There are finitely many positions.
LEMMA PositionsFinite ==
    ASSUME NEW b, ReadOK(b)
    PROVE  IsFiniteSet(Positions(b))
<1> DEFINE usable == {n \in DOMAIN EngineOrder : Usable(LoadEngineResult(b, EngineOrder[n]))}
           Of(n) == {<<n, i>> : i \in DOMAIN b[EngineOrder[n]].findings}
           fn == [n \in usable |-> Of(n)]
<1>1. IsFiniteSet(usable)
  <2>1. DOMAIN EngineOrder = 1 .. Len(EngineOrder) /\ Len(EngineOrder) \in Nat
    BY GateAssumption
  <2>2. IsFiniteSet(1 .. Len(EngineOrder))
    BY <2>1, FS_Interval
  <2>3. usable \in SUBSET (1 .. Len(EngineOrder))
    BY <2>1, Zenon
  <2> QED
    BY <2>2, <2>3, FS_Subset, Zenon
<1>2. ASSUME NEW n \in usable
      PROVE  IsFiniteSet(Of(n))
  <2> DEFINE fs == b[EngineOrder[n]].findings
             g == [i \in DOMAIN fs |-> <<n, i>>]
  <2>1. fs = <<>> \/ fs \in Seq(Range(fs))
    <3>1. EngineOrder[n] \in Engines
      BY Zenon DEF Engines, Range
    <3>2. NoBlob.findings = <<>>
      BY DEF NoBlob
    <3> QED
      BY <3>1, <3>2, GateAssumption, Zenon DEF ReadOK
  <2>2. DOMAIN fs = 1 .. Len(fs) /\ Len(fs) \in Nat
    BY <2>1
  <2>3. IsFiniteSet(DOMAIN fs)
    BY <2>2, FS_Interval
  <2> HIDE DEF fs
  <2>4. g \in Surjection(DOMAIN fs, {<<n, i>> : i \in DOMAIN fs})
    BY Zenon DEF Surjection
  <2>5. IsFiniteSet({<<n, i>> : i \in DOMAIN fs})
    BY <2>3, <2>4, FS_Surjection, Zenon
  <2> QED
    BY <2>5, Zenon DEF fs
<1>3. fn \in Surjection(usable, {Of(n) : n \in usable})
  <2> HIDE DEF usable, Of
  <2> QED
    BY Zenon DEF Surjection
<1>4. IsFiniteSet({Of(n) : n \in usable})
  <2> HIDE DEF usable, Of, fn
  <2> QED
    BY <1>1, <1>3, FS_Surjection, Zenon
<1>5. IsFiniteSet(UNION {Of(n) : n \in usable})
  <2>1. \A T \in {Of(n) : n \in usable} : IsFiniteSet(T)
    BY <1>2, Zenon
  <2> QED
    BY <1>4, <2>1, FS_UNION, Zenon
<1>6. Positions(b) = UNION {Of(n) : n \in usable}
  BY Zenon DEF Positions
<1> QED
  BY <1>5, <1>6, Zenon

\* Short of the cap nothing is cut off.
LEMMA NothingCut ==
    ASSUME NEW b, ReadOK(b), ~Capped(b)
    PROVE  WithinCap(b) = Positions(b)
<1> DEFINE P == Positions(b)
           before(x) == {q \in P : Precedes(b, q, x)}
<1>1. ASSUME NEW x \in P
      PROVE  Cardinality(before(x)) < MaxFindings
  <2>1. IsFiniteSet(P)
    BY PositionsFinite, Zenon
  <2>2. x \notin before(x)
    <3>1. FindingAt(b, x).sev \in 1 .. 4 /\ FindingAt(b, x).conf \in 0 .. 10 /\ x[1] \in Nat /\ x[2] \in Nat
      BY PositionsRead, Zenon
    <3>2. ~Stronger(FindingAt(b, x), FindingAt(b, x))
      BY <3>1 DEF Stronger
    <3>3. ~(x[1] < x[1]) /\ ~(x[2] < x[2])
      BY <3>1
    <3> QED
      BY <3>2, <3>3, Zenon DEF Precedes
  <2> HIDE DEF before, P
  <2>3. before(x) \in SUBSET (P \ {x})
    BY <2>2, Zenon DEF before
  <2>4. IsFiniteSet(P \ {x}) /\ Cardinality(P \ {x}) = Cardinality(P) - 1
    BY <2>1, FS_RemoveElement, Zenon
  <2>5. IsFiniteSet(before(x)) /\ Cardinality(before(x)) <= Cardinality(P \ {x})
    BY <2>3, <2>4, FS_Subset, Zenon
  <2>6. Cardinality(P) \in Nat /\ Cardinality(before(x)) \in Nat
    BY <2>1, <2>5, FS_CardinalityType, Zenon
  <2>7. ~(Cardinality(P) > MaxFindings) /\ MaxFindings \in Nat
    BY GateAssumption, Zenon DEF Capped, P
  <2> QED
    BY <2>4, <2>5, <2>6, <2>7
<1> QED
  BY <1>1, Zenon DEF WithinCap

\* Other positions with the dedup key of a finding
Same(b, x) == {q \in Positions(b) \ {x} : DedupKey(FindingAt(b, q)) = DedupKey(FindingAt(b, x))}

\* What the dedup keeps and names, short of the cap
LEMMA AggregateIs ==
    ASSUME NEW b, ReadOK(b), ~Capped(b), NEW p
    PROVE  /\ Aggregate(b, p).findings =
                  {FindingAt(b, x) : x \in {y \in Positions(b) : \A q \in Same(b, y) : Precedes(b, y, q)}}
           /\ Aggregate(b, p).collided =
                  {FindingAt(b, x).rule : x \in {y \in Positions(b) : Same(b, y) # {}}}
<1>1. WithinCap(b) = Positions(b)
  BY NothingCut, Zenon
<1>2. /\ Aggregate(b, p).findings = Dedup(b, Positions(b)).kept
      /\ Aggregate(b, p).collided = Dedup(b, Positions(b)).collided
  BY <1>1, Zenon DEF Aggregate
<1>3. Dedup(b, Positions(b)).kept =
          {FindingAt(b, x) : x \in {y \in Positions(b) : \A q \in Same(b, y) : Precedes(b, y, q)}}
  BY Zenon DEF Dedup, Same
<1>4. Dedup(b, Positions(b)).collided = {FindingAt(b, x).rule : x \in {y \in Positions(b) : Same(b, y) # {}}}
  BY Zenon DEF Dedup, Same
<1> QED
  BY <1>2, <1>3, <1>4, Zenon

\* Short of the cap the dedup keeps a finding of every key that is as severe as
\* any, and names the rule of each one it drops.
LEMMA KeptFindings ==
    ASSUME NEW b, ReadOK(b), ~Capped(b), NEW p
    PROVE  LET r == Aggregate(b, p)
           IN  /\ r.findings \subseteq AllFindings(b)
               /\ \A f \in AllFindings(b) :
                     /\ \E g \in r.findings : DedupKey(g) = DedupKey(f) /\ g.sev >= f.sev
                     /\ f \in r.findings \/ f.rule \in r.collided
<1> DEFINE P == Positions(b)
           kept == {FindingAt(b, x) : x \in {y \in P : \A q \in Same(b, y) : Precedes(b, y, q)}}
           collided == {FindingAt(b, x).rule : x \in {y \in P : Same(b, y) # {}}}
           r == Aggregate(b, p)
<1>1. r.findings = kept /\ r.collided = collided
  BY AggregateIs, Zenon
<1>2. AllFindings(b) = {FindingAt(b, x) : x \in P}
  BY Zenon DEF AllFindings
<1>3. ASSUME NEW x \in P
      PROVE  /\ FindingAt(b, x) \in kept \/ FindingAt(b, x).rule \in collided
             /\ \E g \in kept : DedupKey(g) = DedupKey(FindingAt(b, x)) /\ g.sev >= FindingAt(b, x).sev
  <2> DEFINE Q == {q \in P : DedupKey(FindingAt(b, q)) = DedupKey(FindingAt(b, x))}
  <2>1. PICK y \in Q : \A q \in Q \ {y} : Precedes(b, y, q)
    <3>1. Q \subseteq Positions(b) /\ Q # {}
      BY Zenon
    <3> QED
      BY <3>1, FirstOf, Zenon
  <2>2. \A q \in Same(b, y) : q \in Q \ {y}
    BY <2>1, Zenon DEF Same
  <2>3. FindingAt(b, y) \in kept
    BY <2>1, <2>2, Zenon
  <2>4. FindingAt(b, y).sev >= FindingAt(b, x).sev
    <3>1. /\ FindingAt(b, x).sev \in 1 .. 4 /\ FindingAt(b, y).sev \in 1 .. 4
      BY <2>1, PositionsRead, Zenon
    <3>2. CASE x = y
      BY <3>1, <3>2
    <3>3. CASE x # y
      <4>1. Precedes(b, y, x)
        BY <2>1, <3>3, Zenon
      <4>2. \/ Stronger(FindingAt(b, y), FindingAt(b, x))
            \/ ~Stronger(FindingAt(b, x), FindingAt(b, y))
        BY <4>1, Zenon DEF Precedes
      <4>3. FindingAt(b, y).sev > FindingAt(b, x).sev \/ FindingAt(b, y).sev = FindingAt(b, x).sev
            \/ ~(FindingAt(b, x).sev > FindingAt(b, y).sev)
        BY <4>2, Zenon DEF Stronger
      <4> QED
        BY <3>1, <4>3
    <3> QED
      BY <3>2, <3>3, Zenon
  <2>5. FindingAt(b, x) \in kept \/ FindingAt(b, x).rule \in collided
    <3>1. CASE Same(b, x) = {}
      BY <3>1, Zenon
    <3>2. CASE Same(b, x) # {}
      BY <3>2, Zenon
    <3> QED
      BY <3>1, <3>2, Zenon
  <2> QED
    BY <2>1, <2>3, <2>4, <2>5, Zenon
<1>4. kept \subseteq AllFindings(b)
  BY <1>2, Zenon
<1> HIDE DEF kept, collided
<1> QED
  BY <1>1, <1>2, <1>3, <1>4, Zenon

Top(fs) == Max({f.sev : f \in fs} \cup {NONE})

\* What evaluate_findings returns for graded findings
LEMMA EvaluateIs ==
    ASSUME NEW fs, Graded(fs)
    PROVE  /\ Top(fs) \in Severities /\ \A f \in fs : Top(fs) >= f.sev
           /\ Top(fs) = 0 \/ \E f \in fs : f.sev = Top(fs)
           /\ Evaluate(fs).trif = TrifectaIn(fs)
           /\ Evaluate(fs).sev = IF TrifectaIn(fs) THEN 4 ELSE Top(fs)
           /\ Evaluate(fs).conf \in 0 .. 10
           /\ \A f \in fs : f.sev = Top(fs) => Evaluate(fs).conf >= f.conf
           /\ Evaluate(fs).conf = 0 \/ \E f \in fs : f.sev = Top(fs) /\ f.conf = Evaluate(fs).conf
<1> DEFINE T == {f.sev : f \in fs} \cup {NONE}
           C == {f.conf : f \in {x \in fs : x.sev = Top(fs)}} \cup {0}
<1>1. T \subseteq Severities /\ T # {}
  BY DEF Graded, Severities, NONE
<1>2. Max(T) \in T /\ \A j \in T : Max(T) >= j
  BY <1>1, ExtremesOf, Zenon
<1>3. Top(fs) = Max(T)
  BY Zenon DEF Top
<1>4. Top(fs) \in Severities /\ \A f \in fs : Top(fs) >= f.sev
  BY <1>1, <1>2, <1>3, Zenon
<1>5. Top(fs) = 0 \/ \E f \in fs : f.sev = Top(fs)
  BY <1>2, <1>3, Zenon DEF NONE
<1>6. C \subseteq 0 .. 10 /\ C # {}
  <2>1. \A f \in fs : f.conf \in 0 .. 10
    BY Zenon DEF Graded
  <2>2. 0 \in 0 .. 10
    OBVIOUS
  <2> QED
    BY <2>1, <2>2, Zenon
<1>7. Max(C) \in C /\ \A j \in C : Max(C) >= j
  BY <1>6, GreatestOf, Zenon
<1>8. /\ Evaluate(fs).trif = TrifectaIn(fs) /\ Evaluate(fs).conf = Max(C)
      /\ Evaluate(fs).sev = IF TrifectaIn(fs) THEN 4 ELSE Top(fs)
  BY Zenon DEF Evaluate, Top, CRITICAL
<1>9. \A f \in fs : f.sev = Top(fs) => Max(C) >= f.conf
  BY <1>7, Zenon
<1>10. Max(C) = 0 \/ \E f \in fs : f.sev = Top(fs) /\ f.conf = Max(C)
  BY <1>7, Zenon
<1>11. Max(C) \in 0 .. 10
  BY <1>6, <1>7, Zenon
<1> HIDE DEF C
<1> QED
  BY <1>4, <1>5, <1>8, <1>9, <1>10, <1>11, Zenon

\* A part that is as severe as the whole is no surer.
LEMMA PartEvaluates ==
    ASSUME NEW A, Graded(A), NEW E, E \subseteq A, \A f \in A : \E g \in E : g.sev >= f.sev
    PROVE  Top(E) = Top(A) /\ Evaluate(E).conf <= Evaluate(A).conf
<1>1. Graded(E)
  BY Zenon DEF Graded
<1>2. Top(E) \in 0 .. 4 /\ Top(A) \in 0 .. 4
  BY <1>1, EvaluateIs, Zenon DEF Severities
<1>3. Top(A) >= Top(E)
  <2>1. CASE Top(E) = 0
    BY <1>2, <2>1
  <2>2. CASE \E f \in E : f.sev = Top(E)
    BY <2>2, EvaluateIs, Zenon
  <2> QED
    BY <1>1, <2>1, <2>2, EvaluateIs, Zenon
<1>4. Top(E) >= Top(A)
  <2>1. CASE Top(A) = 0
    BY <1>2, <2>1
  <2>2. CASE \E f \in A : f.sev = Top(A)
    <3>1. PICK g \in E : g.sev >= Top(A)
      BY <2>2, Zenon
    <3>2. Top(E) >= g.sev /\ g.sev \in 1 .. 4
      BY <1>1, EvaluateIs, Zenon DEF Graded
    <3> QED
      BY <1>2, <3>1, <3>2
  <2> QED
    BY <2>1, <2>2, EvaluateIs, Zenon
<1>5. Top(E) = Top(A)
  BY <1>2, <1>3, <1>4
<1>6. Evaluate(E).conf \in 0 .. 10 /\ Evaluate(A).conf \in 0 .. 10
  BY <1>1, EvaluateIs, Zenon
<1>7. Evaluate(A).conf >= Evaluate(E).conf
  <2>1. CASE Evaluate(E).conf = 0
    BY <1>6, <2>1
  <2>2. CASE \E f \in E : f.sev = Top(E) /\ f.conf = Evaluate(E).conf
    BY <1>5, <2>2, EvaluateIs, Zenon
  <2> QED
    BY <1>1, <2>1, <2>2, EvaluateIs, Zenon
<1> QED
  BY <1>5, <1>6, <1>7

\* A classification is a verdict.
LEMMA ClassifyGives == \A sev, conf, p, t : Classify(sev, conf, p, t) \in 0 .. 2
<1>1. BLOCK \in 0 .. 2 /\ REVIEW \in 0 .. 2 /\ PASS \in 0 .. 2
  BY DEF BLOCK, REVIEW, PASS
<1> QED
  BY <1>1, Zenon DEF Classify

\* Less confidence never classifies softer.
LEMMA SurerClassifies ==
    ASSUME NEW sev \in Severities, NEW c \in 0 .. 10, NEW d \in 0 .. 10, c <= d,
           NEW p, p.reviewConf \in 0 .. 10, NEW t, BlockThreshold(p, t) \in Severities
    PROVE  Classify(sev, c, p, t) >= Classify(sev, d, p, t)
<1> DEFINE a == BlockThreshold(p, t)
           k == p.reviewConf
           o == p.reviewOn
<1>1. /\ Classify(sev, c, p, t) = IF sev >= a THEN 2 ELSE IF sev >= o THEN 1
                                  ELSE IF sev >= 1 /\ c < k THEN 1 ELSE 0
      /\ Classify(sev, d, p, t) = IF sev >= a THEN 2 ELSE IF sev >= o THEN 1
                                  ELSE IF sev >= 1 /\ d < k THEN 1 ELSE 0
  BY Zenon DEF Classify, BLOCK, REVIEW, PASS, LOW
<1>2. k \in 0 .. 10
  BY Zenon
<1> HIDE DEF a, k, o
<1>3. d < k => c < k
  BY <1>2
<1> QED
  BY <1>1, <1>3

\* A critical scan is blocked.
LEMMA CriticalBlocks ==
    ASSUME NEW c, NEW p, NEW t, BlockThreshold(p, t) \in Severities
    PROVE  Classify(4, c, p, t) = 2
<1>1. 4 >= BlockThreshold(p, t)
  BY DEF Severities
<1> QED
  BY <1>1, Zenon DEF Classify, BLOCK

\* Every finding of a scan is graded.
LEMMA AllGraded ==
    ASSUME NEW b, ReadOK(b)
    PROVE  Graded(AllFindings(b))
  BY PositionsRead, Zenon DEF AllFindings, Graded

\* Every rule that lost a finding to the dedup is waived.
CollisionsWaived(r, p, al) ==
    r.collided # {} /\ \A rule \in r.collided : RuleWaived(rule, p, al)

\* The effective severity is that of the findings that stand, unless a trifecta
\* was lost to the dedup and is given back.
LEMMA EffectiveIs ==
    ASSUME NEW b, ReadOK(b), ~Capped(b), NEW p, NEW al
    PROVE  LET r == Aggregate(b, p)
           IN  EffectiveSeverity(r, p, al) =
                   IF TrifectaIn(AllFindings(b)) /\ ~TrifectaIn(r.findings) /\ ~CollisionsWaived(r, p, al)
                   THEN 4 ELSE Evaluate(Standing(r, p, al)).sev
<1> DEFINE r == Aggregate(b, p)
           raw == Evaluate(r.findings)
           ev == Evaluate(Standing(r, p, al))
<1>1. Graded(r.findings) /\ r.findings \subseteq AllFindings(b)
  BY AllGraded, KeptFindings, Zenon DEF Graded
<1>2. /\ raw.trif = TrifectaIn(r.findings) /\ raw.sev = IF TrifectaIn(r.findings) THEN 4 ELSE Top(r.findings)
      /\ Top(r.findings) \in Severities
  BY <1>1, EvaluateIs, Zenon
<1>3. /\ r.trif <=> TrifectaIn(AllFindings(b))
      /\ r.sev = IF r.trif THEN 4 ELSE raw.sev
  <2>1. r.findings = Dedup(b, WithinCap(b)).kept
    BY Zenon DEF Aggregate
  <2>2. r.trif = (TrifectaIn(AllFindings(b)) \/ raw.trif)
    BY <2>1, Zenon DEF Aggregate
  <2>3. r.sev = IF TrifectaIn(AllFindings(b)) \/ raw.trif THEN 4 ELSE raw.sev
    BY <2>1, Zenon DEF Aggregate, CRITICAL
  <2>4. TrifectaIn(r.findings) => TrifectaIn(AllFindings(b))
    BY <1>1, Zenon DEF TrifectaIn
  <2> QED
    BY <1>2, <2>2, <2>3, <2>4, Zenon
<1>4. ~(4 > 4) /\ ~(raw.sev > raw.sev)
  BY <1>2 DEF Severities
<1>5. r.sev > raw.sev => r.trif /\ ~raw.trif
  BY <1>2, <1>3, <1>4, Zenon
<1>6. Restored(r, p, al) <=> r.trif /\ ~raw.trif /\ ~CollisionsWaived(r, p, al)
  BY <1>5, Zenon DEF Restored, CollisionsWaived
<1>7. Restored(r, p, al) => EffectiveSeverity(r, p, al) = 4
  BY <1>6, Zenon DEF EffectiveSeverity, CRITICAL
<1>8. ~Restored(r, p, al) => EffectiveSeverity(r, p, al) = ev.sev
  BY Zenon DEF EffectiveSeverity, Standing
<1> QED
  BY <1>2, <1>3, <1>6, <1>7, <1>8, Zenon

\* The verdict on findings, by the one on all and the one on the deterministic
Firm(fs) == {f \in fs : ~f.llm}

\* Decide, short of the cap
LEMMA OutcomeIs ==
    ASSUME NEW b, ReadOK(b), ~Capped(b), NEW s
    PROVE  LET r == Aggregate(b, s.policy)
               E == Standing(r, s.policy, s.allowlist)
           IN  Outcome(b, s).verdict =
                   IF MissingOrFailed(b, s.policy) # {} THEN s.policy.failClosed
                   ELSE IF \E f \in AllFindings(b) : f.rule \in s.policy.hard THEN 2
                   ELSE Max({Classify(EffectiveSeverity(r, s.policy, s.allowlist), Evaluate(E).conf,
                                      s.policy, s.tier),
                             Classify(Evaluate(Firm(E)).sev, Evaluate(Firm(E)).conf, s.policy, s.tier)})
<1> DEFINE p == s.policy
           al == s.allowlist
           r == Aggregate(b, p)
           E == Standing(r, p, al)
           v == ClassifyFindings(r, p, al, s.tier)
<1>1. /\ r.missing = MissingOrFailed(b, p) /\ r.capped = Capped(b)
      /\ r.hard = {f.rule : f \in AllFindings(b)} \cap p.hard
  BY Zenon DEF Aggregate
<1>2. r.findings \subseteq AllFindings(b)
  BY KeptFindings, Zenon
<1>3. r.hard \cup ({f.rule : f \in r.findings} \cap p.hard) # {}
         <=> \E f \in AllFindings(b) : f.rule \in p.hard
  BY <1>1, <1>2, Zenon
<1>4. v = Max({Classify(EffectiveSeverity(r, p, al), Evaluate(E).conf, p, s.tier),
               Classify(Evaluate(Firm(E)).sev, Evaluate(Firm(E)).conf, p, s.tier)})
  BY Zenon DEF ClassifyFindings, Standing, Firm
<1> HIDE DEF v
<1>5. Outcome(b, s).verdict =
          IF r.missing # {} THEN p.failClosed
          ELSE IF r.hard \cup ({f.rule : f \in r.findings} \cap p.hard) # {} THEN BLOCK
          ELSE IF r.capped THEN Max({v, REVIEW}) ELSE v
  BY Zenon DEF Outcome, Decide, v
<1> QED
  BY <1>1, <1>3, <1>4, <1>5, Zenon DEF BLOCK

\* The findings that stand before the dedup have the severity of those that stand
\* after it, and are no less sure; so have the deterministic ones.
LEMMA StandingKept ==
    ASSUME NEW b, ReadOK(b), ~Capped(b), NEW p, p.allowMax \in Int, NEW al
    PROVE  LET E == Standing(Aggregate(b, p), p, al)
               A == {f \in AllFindings(b) : ~IsWaived(f, p, al)}
           IN  /\ E \subseteq A /\ Graded(A)
               /\ Top(E) = Top(A) /\ Evaluate(E).conf <= Evaluate(A).conf
               /\ Top(Firm(E)) = Top(Firm(A)) /\ Evaluate(Firm(E)).conf <= Evaluate(Firm(A)).conf
<1> DEFINE r == Aggregate(b, p)
           E == Standing(r, p, al)
           A == {f \in AllFindings(b) : ~IsWaived(f, p, al)}
<1>1. r.findings \subseteq AllFindings(b)
  BY KeptFindings, Zenon
<1>2. Graded(A) /\ Graded(Firm(A))
  BY AllGraded, Zenon DEF Graded, Firm
<1>3. E \subseteq A /\ Firm(E) \subseteq Firm(A)
  BY <1>1, Zenon DEF Standing, Firm
<1>4. ASSUME NEW f \in A
      PROVE  \E g \in E : g.sev >= f.sev /\ g.llm = f.llm
  <2>1. PICK g \in r.findings : DedupKey(g) = DedupKey(f) /\ g.sev >= f.sev
    BY KeptFindings, Zenon
  <2>2. g.rule = f.rule /\ g.llm = f.llm
    BY <2>1 DEF DedupKey
  <2>3. f.sev \in 1 .. 4 /\ g.sev \in 1 .. 4
    BY <1>1, AllGraded, Zenon DEF Graded
  <2>4. g.sev <= p.allowMax => f.sev <= p.allowMax
    BY <2>1, <2>3
  <2>5. ~IsWaived(g, p, al)
    BY <2>2, <2>4, Zenon DEF IsWaived
  <2> QED
    BY <2>1, <2>2, <2>5, Zenon DEF Standing
<1>5. Top(E) = Top(A) /\ Evaluate(E).conf <= Evaluate(A).conf
  <2>1. \A f \in A : \E g \in E : g.sev >= f.sev
    BY <1>4, Zenon
  <2> HIDE DEF A, E
  <2> QED
    BY <1>2, <1>3, <2>1, PartEvaluates, Zenon
<1>6. Top(Firm(E)) = Top(Firm(A)) /\ Evaluate(Firm(E)).conf <= Evaluate(Firm(A)).conf
  <2>1. \A f \in Firm(A) : \E g \in Firm(E) : g.sev >= f.sev
    BY <1>4, Zenon DEF Firm
  <2> HIDE DEF A, E
  <2> QED
    BY <1>2, <1>3, <2>1, PartEvaluates, Zenon
<1> QED
  BY <1>2, <1>3, <1>5, <1>6, Zenon

\* The greater of two verdicts is at least each.
LEMMA MaxCovers ==
    ASSUME NEW a \in 0 .. 2, NEW b \in 0 .. 2
    PROVE  /\ Max({a, b}) \in 0 .. 2 /\ Max({a, b}) \in {a, b} /\ Max({a, b}) >= a /\ Max({a, b}) >= b
           /\ a = 2 => Max({a, b}) = 2
<1>1. {a, b} \subseteq Severities /\ {a, b} # {}
  BY DEF Severities
<1>2. Max({a, b}) \in {a, b} /\ \A j \in {a, b} : Max({a, b}) >= j
  BY <1>1, ExtremesOf, Zenon
<1> QED
  BY <1>2

\* The setting of a scan is typed.
LEMMA SettingTyped ==
    ASSUME GateInv
    PROVE  LET p == setting.policy
           IN  /\ ReadOK(blobs) /\ setting \in Settings /\ p.reviewConf \in 0 .. 10 /\ p.allowMax \in Int
               /\ p.failClosed \in 0 .. 2 /\ BlockThreshold(p, setting.tier) \in Severities
               /\ p.required \cap LlmEngines = {}
<1> DEFINE p == setting.policy
<1>1. ReadOK(blobs) /\ setting \in Settings /\ p.reviewConf \in 0 .. 10
  BY Zenon DEF GateInv, ValidPolicy
<1>2. /\ p.allowMax \in NONE .. CRITICAL /\ p.failClosed \in PASS .. BLOCK
      /\ p.required \cap LlmEngines = {}
  BY <1>1, GateAssumption, Zenon
<1>3. p.allowMax \in Int /\ p.failClosed \in 0 .. 2
  BY <1>2 DEF NONE, CRITICAL, PASS, BLOCK
<1>4. BlockThreshold(p, setting.tier) \in Severities
  BY <1>1, ThresholdRated, Zenon
<1> QED
  BY <1>1, <1>2, <1>3, <1>4, Zenon

\* Short of the cap, and unless a waiver hides it, the verdict is no softer than
\* that of someone who reads every finding.
LEMMA RawIsCovered ==
    ASSUME GateInv, ~Capped(blobs), ~WaiverHides(blobs, setting)
    PROVE  Outcome(blobs, setting).verdict \in 0 .. 2 /\ Outcome(blobs, setting).verdict >= RawVerdict(setting)
<1> DEFINE s == setting
           p == s.policy
           al == s.allowlist
           t == s.tier
           r == Aggregate(blobs, p)
           E == Standing(r, p, al)
           A == {f \in AllFindings(blobs) : ~IsWaived(f, p, al)}
           eff == EffectiveSeverity(r, p, al)
           conf == Evaluate(E).conf
           firmE == Evaluate(Firm(E))
           firmA == Evaluate(Firm(A))
           v == Classify(eff, conf, p, t)
           w == Classify(firmE.sev, firmE.conf, p, t)
           x == Classify(Evaluate(A).sev, Evaluate(A).conf, p, t)
           y == Classify(firmA.sev, firmA.conf, p, t)
<1>1. /\ ReadOK(blobs) /\ s \in Settings /\ p.reviewConf \in 0 .. 10 /\ p.allowMax \in Int
      /\ p.failClosed \in 0 .. 2 /\ BlockThreshold(p, t) \in Severities
  BY SettingTyped, Zenon
<1>2. /\ E \subseteq A /\ Graded(A)
      /\ Top(E) = Top(A) /\ conf <= Evaluate(A).conf
      /\ Top(Firm(E)) = Top(Firm(A)) /\ firmE.conf <= firmA.conf
  BY <1>1, StandingKept, Zenon
<1>3. Graded(E) /\ Graded(Firm(E)) /\ Graded(Firm(A)) /\ Firm(E) \subseteq Firm(A) /\ Firm(A) \subseteq A
  BY <1>2, Zenon DEF Graded, Firm
<1>4. eff = IF TrifectaIn(AllFindings(blobs)) /\ ~TrifectaIn(r.findings) /\ ~CollisionsWaived(r, p, al)
            THEN 4 ELSE Evaluate(E).sev
  BY <1>1, EffectiveIs, Zenon
<1>5. Outcome(blobs, s).verdict =
          IF MissingOrFailed(blobs, p) # {} THEN p.failClosed
          ELSE IF \E f \in AllFindings(blobs) : f.rule \in p.hard THEN 2 ELSE Max({v, w})
  BY <1>1, OutcomeIs, Zenon
<1>6. RawVerdict(s) =
          IF MissingOrFailed(blobs, p) # {} THEN p.failClosed
          ELSE IF \E f \in AllFindings(blobs) : f.rule \in p.hard THEN 2 ELSE Max({x, y})
  BY Zenon DEF RawVerdict, Firm, BLOCK
<1>7. TrifectaIn(A) => eff = 4
  <2> SUFFICES ASSUME TrifectaIn(A) PROVE eff = 4
    BY Zenon
  <2>1. CASE TrifectaIn(E)
    <3>1. Evaluate(E).sev = 4
      BY <1>3, <2>1, EvaluateIs, Zenon
    <3> QED
      BY <1>4, <3>1, Zenon
  <2>2. CASE ~TrifectaIn(E)
    <3>1. TrifectaIn(AllFindings(blobs))
      BY Zenon DEF TrifectaIn
    <3>2. PICK f \in A : f \notin E
      BY <2>2, Zenon DEF TrifectaIn
    <3>3. f.rule \in r.collided
      BY <1>1, <3>2, KeptFindings, Zenon DEF Standing
    <3>4. ~TrifectaIn(r.findings) /\ ~CollisionsWaived(r, p, al)
      BY <2>2, <3>2, <3>3, Zenon DEF WaiverHides, CollisionsWaived, Standing
    <3> QED
      BY <1>4, <3>1, <3>4, Zenon
  <2> QED
    BY <2>1, <2>2, Zenon
<1>8. /\ Evaluate(A).sev \in Severities /\ Evaluate(E).sev \in Severities /\ eff \in Severities
      /\ firmE.sev \in Severities /\ firmA.sev \in Severities /\ conf \in 0 .. 10
      /\ Evaluate(A).conf \in 0 .. 10 /\ firmE.conf \in 0 .. 10 /\ firmA.conf \in 0 .. 10
  <2>1. 4 \in Severities
    BY DEF Severities
  <2> QED
    BY <1>2, <1>3, <1>4, <2>1, EvaluateIs, Zenon
<1>9. v \in 0 .. 2 /\ w \in 0 .. 2 /\ x \in 0 .. 2 /\ y \in 0 .. 2
  BY ClassifyGives, Zenon
<1>10. ASSUME TrifectaIn(A)
       PROVE  v = 2
  BY <1>1, <1>7, <1>10, CriticalBlocks, Zenon
<1>11. ASSUME ~TrifectaIn(A)
       PROVE  (v = 2 \/ v >= x) /\ w >= y
  <2>1. ~TrifectaIn(E) /\ ~TrifectaIn(Firm(E)) /\ ~TrifectaIn(Firm(A))
    BY <1>2, <1>3, <1>11, Zenon DEF TrifectaIn
  <2>2. /\ Evaluate(E).sev = Evaluate(A).sev
        /\ firmE.sev = firmA.sev
    BY <1>2, <1>3, <1>11, <2>1, EvaluateIs, Zenon
  <2>3. w >= y
    BY <1>1, <1>2, <1>8, <2>2, SurerClassifies, Zenon
  <2>4. eff = 4 \/ eff = Evaluate(A).sev
    BY <1>4, <2>2, Zenon
  <2>5. eff = 4 => v = 2
    BY <1>1, CriticalBlocks, Zenon
  <2>6. eff = Evaluate(A).sev => v >= x
    BY <1>1, <1>2, <1>8, SurerClassifies, Zenon
  <2> QED
    BY <2>3, <2>4, <2>5, <2>6, Zenon
<1> HIDE DEF v, w, x, y
<1>12. Max({v, w}) \in 0 .. 2 /\ Max({x, y}) \in 0 .. 2 /\ Max({v, w}) >= Max({x, y})
  <2>1. Max({v, w}) \in 0 .. 2 /\ (v = 2 => Max({v, w}) = 2) /\ Max({x, y}) \in 0 .. 2
    BY <1>9, MaxCovers, Zenon
  <2>2. CASE v = 2
    BY <2>1, <2>2
  <2>3. CASE v >= x /\ w >= y
    BY <1>9, <2>1, <2>3, MaxGrows, Zenon
  <2> QED
    BY <1>10, <1>11, <2>2, <2>3, Zenon
<1>13. p.failClosed >= p.failClosed /\ 2 >= 2 /\ 2 \in 0 .. 2
  BY <1>1
<1> QED
  BY <1>1, <1>5, <1>6, <1>12, <1>13, Zenon

\* A capped scan comes out as REVIEW, or no softer than its raw findings.
LEMMA CappedIsReviewed ==
    ASSUME GateInv, Capped(blobs)
    PROVE  \/ Outcome(blobs, setting).verdict = REVIEW
           \/ Outcome(blobs, setting).verdict >= RawVerdict(setting)
<1> DEFINE s == setting
           p == s.policy
           r == Aggregate(blobs, p)
           v == ClassifyFindings(r, p, s.allowlist, s.tier)
<1>1. /\ r.missing = MissingOrFailed(blobs, p) /\ r.capped = Capped(blobs)
      /\ r.hard = {f.rule : f \in AllFindings(blobs)} \cap p.hard
  BY Zenon DEF Aggregate
<1>2. r.findings \subseteq AllFindings(blobs)
  BY Zenon DEF Aggregate, Dedup, WithinCap, AllFindings
<1>3. r.hard \cup ({f.rule : f \in r.findings} \cap p.hard) # {}
         <=> \E f \in AllFindings(blobs) : f.rule \in p.hard
  BY <1>1, <1>2, Zenon
<1>4. Outcome(blobs, s).verdict =
          IF r.missing # {} THEN p.failClosed
          ELSE IF r.hard \cup ({f.rule : f \in r.findings} \cap p.hard) # {} THEN 2 ELSE Max({v, 1})
  BY <1>1, Zenon DEF Outcome, Decide, BLOCK, REVIEW
<1>5. v \in 0 .. 2
  BY ClassifyGives, MaxCovers, Zenon DEF ClassifyFindings
<1>6. PICK a \in 0 .. 2, b \in 0 .. 2 :
         RawVerdict(s) = IF MissingOrFailed(blobs, p) # {} THEN p.failClosed
                         ELSE IF \E f \in AllFindings(blobs) : f.rule \in p.hard THEN 2 ELSE Max({a, b})
  BY ClassifyGives, Zenon DEF RawVerdict, BLOCK
<1>7. Max({a, b}) \in 0 .. 2
  BY MaxCovers, Zenon
<1> HIDE DEF v
<1>8. Max({v, 1}) = 1 \/ Max({v, 1}) = 2
  <2>1. Max({v, 1}) \in 0 .. 2 /\ Max({v, 1}) >= 1
    BY <1>5, MaxCovers
  <2> QED
    BY <2>1
<1>9. p.failClosed >= p.failClosed /\ 2 >= 2 /\ 2 >= Max({a, b})
  <2>1. p.failClosed \in 0 .. 2
    BY GateAssumption, Zenon DEF GateInv, PASS, BLOCK
  <2> QED
    BY <1>7, <2>1
<1> QED
  BY <1>1, <1>3, <1>4, <1>6, <1>8, <1>9, Zenon DEF REVIEW

\* What a position is
LEMMA PositionIs ==
    ASSUME NEW d, NEW x
    PROVE  x \in Positions(d) <=>
              \E n \in DOMAIN EngineOrder :
                  /\ Usable(LoadEngineResult(d, EngineOrder[n]))
                  /\ \E i \in DOMAIN d[EngineOrder[n]].findings : x = <<n, i>>
<1> DEFINE usable == {n \in DOMAIN EngineOrder : Usable(LoadEngineResult(d, EngineOrder[n]))}
           Of(n) == {<<n, i>> : i \in DOMAIN d[EngineOrder[n]].findings}
<1>1. Positions(d) = UNION {Of(n) : n \in usable}
  BY Zenon DEF Positions
<1>2. x \in Positions(d) <=> \E n \in usable : x \in Of(n)
  <2> HIDE DEF usable, Of
  <2> QED
    BY <1>1, Zenon
<1> QED
  BY <1>2, Zenon

\* Without the LLM-sourced engines the positions of the others are left, with
\* their findings.
LEMMA PositionsWithout ==
    ASSUME NEW b, ReadOK(b)
    PROVE  LET c == WithoutLlm(b)
           IN  /\ ReadOK(c)
               /\ \A x : x \in Positions(c) <=> x \in Positions(b) /\ ~FindingAt(b, x).llm
               /\ \A x \in Positions(c) : FindingAt(c, x) = FindingAt(b, x)
<1> DEFINE c == WithoutLlm(b)
<1>1. /\ \A e \in Engines \ LlmEngines : c[e] = b[e]
      /\ \A e \in Engines \cap LlmEngines : c[e] = NoBlob
      /\ c \in [Engines -> Blobs]
  BY Zenon DEF WithoutLlm, ReadOK, Blobs
<1>2. ReadOK(c)
  BY <1>1, Zenon DEF ReadOK
<1>3. \A x \in Positions(c) : EngineOrder[x[1]] \in Engines \ LlmEngines
  <2> SUFFICES ASSUME NEW x \in Positions(c) PROVE EngineOrder[x[1]] \in Engines \ LlmEngines
    BY Zenon
  <2>1. PICK n \in DOMAIN EngineOrder : \E i \in DOMAIN c[EngineOrder[n]].findings : x = <<n, i>>
    BY Zenon DEF Positions
  <2>2. x[1] = n /\ c[EngineOrder[n]] # NoBlob
    <3>1. DOMAIN NoBlob.findings = {}
      BY DEF NoBlob
    <3>2. PICK i \in DOMAIN c[EngineOrder[n]].findings : x = <<n, i>>
      BY <2>1, Zenon
    <3> QED
      BY <3>1, <3>2, Zenon
  <2>3. EngineOrder[n] \in Engines
    BY Zenon DEF Engines, Range
  <2> QED
    BY <1>1, <2>2, <2>3, Zenon
<1>4. ASSUME NEW x, EngineOrder[x[1]] \in Engines \ LlmEngines
      PROVE  /\ x \in Positions(c) <=> x \in Positions(b)
             /\ FindingAt(c, x) = FindingAt(b, x)
  <2> DEFINE e == EngineOrder[x[1]]
  <2>1. c[e] = b[e]
    BY <1>1, <1>4, Zenon
  <2>2. FindingAt(c, x) = FindingAt(b, x)
    BY <2>1, Zenon DEF FindingAt
  <2>3. LoadEngineResult(c, e) = LoadEngineResult(b, e)
    BY <2>1, Zenon DEF LoadEngineResult
  <2>4. ASSUME NEW d
        PROVE  x \in Positions(d) <=>
                  \E n \in DOMAIN EngineOrder :
                      /\ Usable(LoadEngineResult(d, EngineOrder[n]))
                      /\ \E i \in DOMAIN d[EngineOrder[n]].findings : x = <<n, i>>
    BY PositionIs
  <2>5. \A n, i : x = <<n, i>> => x[1] = n
    OBVIOUS
  <2>6. x \in Positions(c) <=> x \in Positions(b)
    BY <2>1, <2>3, <2>4, <2>5, Zenon
  <2> QED
    BY <2>2, <2>6, Zenon
<1>5. \A x \in Positions(b) : FindingAt(b, x).llm = (EngineOrder[x[1]] \in LlmEngines) /\ EngineOrder[x[1]] \in Engines
  BY PositionsRead, Zenon
<1> QED
  BY <1>2, <1>3, <1>4, <1>5, Zenon

\* Short of the cap, leaving out the LLM-sourced engines leaves the deterministic
\* findings, kept and dropped as before.
LEMMA WithoutLlmReads ==
    ASSUME NEW b, ReadOK(b), ~Capped(b), NEW p
    PROVE  LET c == WithoutLlm(b)
           IN  /\ ReadOK(c) /\ ~Capped(c) /\ AllFindings(c) \subseteq AllFindings(b)
               /\ Aggregate(c, p).findings = Firm(Aggregate(b, p).findings)
               /\ Aggregate(c, p).collided \subseteq Aggregate(b, p).collided
<1> DEFINE c == WithoutLlm(b)
           P == Positions(b)
           Q == Positions(c)
<1>1. /\ ReadOK(c)
      /\ \A x : x \in Q <=> x \in P /\ ~FindingAt(b, x).llm
      /\ \A x \in Q : FindingAt(c, x) = FindingAt(b, x)
  BY PositionsWithout, Zenon
<1>2. ~Capped(c)
  <2>1. IsFiniteSet(P) /\ Q \in SUBSET P
    BY <1>1, PositionsFinite, Zenon
  <2>2. Cardinality(Q) <= Cardinality(P) /\ IsFiniteSet(Q)
    BY <2>1, FS_Subset, Zenon
  <2>3. Cardinality(P) \in Nat /\ Cardinality(Q) \in Nat
    BY <2>1, <2>2, FS_CardinalityType, Zenon
  <2>4. ~(Cardinality(P) > MaxFindings) /\ MaxFindings \in Nat
    BY GateAssumption, Zenon DEF Capped
  <2>5. ~(Cardinality(Q) > MaxFindings)
    BY <2>2, <2>3, <2>4
  <2> QED
    BY <2>5, Zenon DEF Capped
<1>3. AllFindings(c) \subseteq AllFindings(b)
  BY <1>1, Zenon DEF AllFindings
<1>4. /\ Aggregate(b, p).findings = {FindingAt(b, x) : x \in {y \in P : \A q \in Same(b, y) : Precedes(b, y, q)}}
      /\ Aggregate(b, p).collided = {FindingAt(b, x).rule : x \in {y \in P : Same(b, y) # {}}}
  BY AggregateIs, Zenon
<1>5. /\ Aggregate(c, p).findings = {FindingAt(c, x) : x \in {y \in Q : \A q \in Same(c, y) : Precedes(c, y, q)}}
      /\ Aggregate(c, p).collided = {FindingAt(c, x).rule : x \in {y \in Q : Same(c, y) # {}}}
  BY <1>1, <1>2, AggregateIs, Zenon
<1>6. \A x, y \in P : DedupKey(FindingAt(b, x)) = DedupKey(FindingAt(b, y)) => FindingAt(b, x).llm = FindingAt(b, y).llm
  BY DEF DedupKey
<1>7. ASSUME NEW x \in Q
      PROVE  Same(c, x) = Same(b, x) /\ Same(c, x) \subseteq Q
  <2>1. x \in P /\ ~FindingAt(b, x).llm /\ FindingAt(c, x) = FindingAt(b, x)
    BY <1>1, Zenon
  <2>2. ASSUME NEW q \in Same(b, x)
        PROVE  q \in Q /\ q \in Same(c, x)
    <3>1. q \in P /\ q # x /\ DedupKey(FindingAt(b, q)) = DedupKey(FindingAt(b, x))
      BY Zenon DEF Same
    <3>2. ~FindingAt(b, q).llm
      BY <1>6, <2>1, <3>1, Zenon
    <3>3. q \in Q /\ FindingAt(c, q) = FindingAt(b, q)
      BY <1>1, <3>1, <3>2, Zenon
    <3> QED
      BY <2>1, <3>1, <3>3, Zenon DEF Same
  <2>3. ASSUME NEW q \in Same(c, x)
        PROVE  q \in Q /\ q \in Same(b, x)
    <3>1. q \in Q /\ q # x /\ DedupKey(FindingAt(c, q)) = DedupKey(FindingAt(c, x))
      BY Zenon DEF Same
    <3>2. q \in P /\ FindingAt(c, q) = FindingAt(b, q)
      BY <1>1, <3>1, Zenon
    <3> QED
      BY <2>1, <3>1, <3>2, Zenon DEF Same
  <2> QED
    BY <2>2, <2>3, Zenon
<1>8. \A x, y \in Q : Precedes(c, x, y) <=> Precedes(b, x, y)
  BY <1>1, Zenon DEF Precedes
<1>10. \A x \in Q : (\A q \in Same(c, x) : Precedes(c, x, q)) <=> (\A q \in Same(b, x) : Precedes(b, x, q))
  BY <1>7, <1>8, Zenon
<1> HIDE DEF P, Q
<1>11. Aggregate(c, p).findings = Firm(Aggregate(b, p).findings)
  <2>1. \A f \in Aggregate(c, p).findings : f \in Firm(Aggregate(b, p).findings)
    BY <1>1, <1>4, <1>5, <1>10, Zenon DEF Firm
  <2>2. \A f \in Firm(Aggregate(b, p).findings) : f \in Aggregate(c, p).findings
    BY <1>1, <1>4, <1>5, <1>10, Zenon DEF Firm
  <2> QED
    BY <2>1, <2>2, Zenon DEF Firm
<1>12. Aggregate(c, p).collided \subseteq Aggregate(b, p).collided
  BY <1>1, <1>4, <1>5, <1>7, Zenon
<1> QED
  BY <1>1, <1>2, <1>3, <1>11, <1>12, Zenon

\* ... and no less strict a verdict, unless a waiver hides what was lost.
LEMMA LlmIsCovered ==
    ASSUME GateInv, ~Capped(blobs), ~WaiverHides(blobs, setting)
    PROVE  Outcome(blobs, setting).verdict >= Outcome(WithoutLlm(blobs), setting).verdict
<1> DEFINE c == WithoutLlm(blobs)
           s == setting
           p == s.policy
           al == s.allowlist
           t == s.tier
           r == Aggregate(blobs, p)
           o == Aggregate(c, p)
           E == Standing(r, p, al)
           F == Standing(o, p, al)
           firm == Evaluate(Firm(E))
           v == Classify(EffectiveSeverity(r, p, al), Evaluate(E).conf, p, t)
           w == Classify(firm.sev, firm.conf, p, t)
           x == Classify(EffectiveSeverity(o, p, al), Evaluate(F).conf, p, t)
<1>1. /\ ReadOK(blobs) /\ s \in Settings /\ p.reviewConf \in 0 .. 10 /\ p.allowMax \in Int
      /\ p.failClosed \in 0 .. 2 /\ BlockThreshold(p, t) \in Severities /\ p.required \cap LlmEngines = {}
  BY SettingTyped, Zenon
<1>2. /\ ReadOK(c) /\ ~Capped(c) /\ AllFindings(c) \subseteq AllFindings(blobs)
      /\ o.findings = Firm(r.findings) /\ o.collided \subseteq r.collided
  BY <1>1, WithoutLlmReads, Zenon
<1>3. F = Firm(E) /\ Firm(F) = F
  BY <1>2, Zenon DEF Standing, Firm
<1>4. MissingOrFailed(c, p) = MissingOrFailed(blobs, p)
  <2>1. \A e \in p.required : e \in Engines => c[e] = blobs[e]
    BY <1>1, Zenon DEF WithoutLlm
  <2>2. \A e \in p.required : e \in Engines => LoadEngineResult(c, e) = LoadEngineResult(blobs, e)
    BY <2>1, Zenon DEF LoadEngineResult
  <2> QED
    BY <2>2, Zenon DEF MissingOrFailed
<1>5. Outcome(blobs, s).verdict =
          IF MissingOrFailed(blobs, p) # {} THEN p.failClosed
          ELSE IF \E f \in AllFindings(blobs) : f.rule \in p.hard THEN 2 ELSE Max({v, w})
  BY <1>1, OutcomeIs, Zenon
<1>6. Outcome(c, s).verdict =
          IF MissingOrFailed(blobs, p) # {} THEN p.failClosed
          ELSE IF \E f \in AllFindings(c) : f.rule \in p.hard THEN 2 ELSE Max({x, w})
  <2>1. Outcome(c, s).verdict =
            IF MissingOrFailed(c, p) # {} THEN p.failClosed
            ELSE IF \E f \in AllFindings(c) : f.rule \in p.hard THEN 2
            ELSE Max({x, Classify(Evaluate(Firm(F)).sev, Evaluate(Firm(F)).conf, p, t)})
    BY <1>2, OutcomeIs, Zenon
  <2>2. Firm(F) = Firm(E)
    BY <1>3, Zenon
  <2> QED
    BY <1>4, <2>1, <2>2, Zenon
<1>7. Graded(E) /\ Graded(F)
  <2>1. r.findings \subseteq AllFindings(blobs)
    BY <1>1, KeptFindings, Zenon
  <2> QED
    BY <1>1, <1>3, <2>1, AllGraded, Zenon DEF Graded, Standing, Firm
<1>8. EffectiveSeverity(r, p, al) =
          IF TrifectaIn(AllFindings(blobs)) /\ ~TrifectaIn(r.findings) /\ ~CollisionsWaived(r, p, al)
          THEN 4 ELSE Evaluate(E).sev
  BY <1>1, EffectiveIs, Zenon
<1>9. EffectiveSeverity(o, p, al) =
          IF TrifectaIn(AllFindings(c)) /\ ~TrifectaIn(o.findings) /\ ~CollisionsWaived(o, p, al)
          THEN 4 ELSE Evaluate(F).sev
  BY <1>2, EffectiveIs, Zenon
<1>10. v = 2 \/ x = w
  <2>1. CASE EffectiveSeverity(o, p, al) = Evaluate(F).sev
    BY <1>3, <2>1, Zenon
  <2>2. CASE TrifectaIn(AllFindings(c)) /\ ~TrifectaIn(o.findings) /\ ~CollisionsWaived(o, p, al)
    <3>1. TrifectaIn(AllFindings(blobs))
      BY <1>2, <2>2, Zenon DEF TrifectaIn
    <3>2. PICK f \in AllFindings(c) : f \notin o.findings
      BY <2>2, Zenon DEF TrifectaIn
    <3>3. o.collided # {}
      BY <1>2, <3>2, KeptFindings, Zenon
    <3>4. r.collided # {} /\ ~CollisionsWaived(r, p, al)
      BY <1>2, <2>2, <3>3, Zenon DEF CollisionsWaived
    <3>5. TrifectaIn(r.findings) => TrifectaIn(E)
      BY <3>4, Zenon DEF WaiverHides, Standing
    <3>6. TrifectaIn(E) => Evaluate(E).sev = 4
      BY <1>7, EvaluateIs, Zenon
    <3>7. EffectiveSeverity(r, p, al) = 4
      BY <1>8, <3>1, <3>4, <3>5, <3>6, Zenon
    <3> QED
      BY <1>1, <3>7, CriticalBlocks, Zenon
  <2> QED
    BY <1>9, <2>1, <2>2, Zenon
<1>11. v \in 0 .. 2 /\ w \in 0 .. 2 /\ x \in 0 .. 2
  BY ClassifyGives, Zenon
<1> HIDE DEF v, w, x
<1>12. /\ Max({v, w}) \in 0 .. 2 /\ Max({v, w}) >= w /\ (v = 2 => Max({v, w}) = 2)
       /\ Max({x, w}) \in 0 .. 2 /\ Max({w, w}) \in {w, w}
  BY <1>11, MaxCovers, Zenon
<1>13. Max({v, w}) >= Max({x, w})
  <2>1. CASE v = 2
    BY <1>12, <2>1
  <2>2. CASE x = w
    <3>1. Max({w, w}) = w
      BY <1>12, Zenon
    <3> QED
      BY <1>12, <2>2, <3>1, Zenon
  <2> QED
    BY <1>10, <2>1, <2>2, Zenon
<1>14. p.failClosed >= p.failClosed /\ 2 >= 2 /\ 2 >= Max({x, w})
  BY <1>1, <1>12
<1> QED
  BY <1>2, <1>5, <1>6, <1>13, <1>14, Zenon

\* Unless a waiver hides it, nothing that the cap or the dedup drops, and no
\* report of an LLM-sourced engine, makes a verdict softer, whatever the engines
\* report and whatever the policy says.
THEOREM SignalsSurvive == GateSpec => []NoSignalIsLost
<1>1. GateInv => NoSignalIsLost
  <2> SUFFICES ASSUME GateInv, ~WaiverHides(blobs, setting)
               PROVE  LET out == Outcome(blobs, setting)
                      IN  \/ Capped(blobs) /\ out.verdict = REVIEW
                          \/ /\ out.verdict >= RawVerdict(setting)
                             /\ Capped(blobs) \/ out.verdict >= Outcome(WithoutLlm(blobs), setting).verdict
    BY Zenon DEF NoSignalIsLost
  <2>1. CASE ~Capped(blobs)
    BY <2>1, RawIsCovered, LlmIsCovered, Zenon
  <2>2. CASE Capped(blobs)
    BY <2>2, CappedIsReviewed, Zenon
  <2> QED
    BY <2>1, <2>2, Zenon
<1> QED
  BY <1>1, GateAlways, PTL

-----------------------------------------------------------------------------
(* EngineBudget: turns against the deadline *)

\* Environments the runner starts in
Started(v) == v \in RunnerEnvs /\ ~TimeoutConfigError(v)

\* Without a configuration error every engine has a positive timeout.
LEMMA TimeoutsPositive ==
    ASSUME NEW v, Started(v), NEW e
    PROVE  TimeoutFor(v, e) \in Nat \ {0}
<1>1. \A n \in Int : Max({n}) = n
  BY DEF Max
<1>2. CASE e = Aig /\ v.legacy # {}
  <2>1. PICK n \in Int : v.legacy = {n}
    <3>1. v.legacy \subseteq Int /\ \A m, k \in v.legacy : m = k
      BY BudgetAssumption, Zenon DEF Started
    <3> QED
      BY <1>2, <3>1, Zenon
  <2>2. n > 0
    BY <2>1, Zenon DEF Started, TimeoutConfigError, CheckedSeconds
  <2>3. TimeoutFor(v, e) = n
    BY <1>1, <1>2, <2>1, Zenon DEF TimeoutFor
  <2> QED
    BY <2>2, <2>3
<1>3. CASE ~(e = Aig /\ v.legacy # {}) /\ e \in DOMAIN v.overrides
  <2>1. v.overrides[e] \in Int
    BY <1>3, BudgetAssumption, Zenon DEF Started
  <2>2. v.overrides[e] > 0
    BY <1>3, Zenon DEF Started, TimeoutConfigError, BadOverrides, CheckedSeconds
  <2>3. TimeoutFor(v, e) = v.overrides[e]
    BY <1>3, Zenon DEF TimeoutFor
  <2> QED
    BY <2>1, <2>2, <2>3
<1>4. CASE ~(e = Aig /\ v.legacy # {}) /\ e \notin DOMAIN v.overrides
  <2>1. DefaultTimeout \in Nat \ {0} /\ AigTimeout \in Nat \ {0}
    BY BudgetAssumption, Zenon
  <2>2. CASE e = Aig
    BY <1>4, <2>1, <2>2, Zenon DEF TimeoutFor
  <2>3. CASE e # Aig /\ v.default = {}
    <3>1. TimeoutFor(v, e) = Max({DefaultTimeout})
      BY <1>4, <2>3, Zenon DEF TimeoutFor
    <3>2. DefaultTimeout \in Int
      BY <2>1
    <3> QED
      BY <1>1, <2>1, <3>1, <3>2, Zenon
  <2>4. CASE e # Aig /\ v.default # {}
    <3>1. PICK n \in Int : v.default = {n}
      <4>1. v.default \subseteq Int /\ \A m, k \in v.default : m = k
        BY BudgetAssumption, Zenon DEF Started
      <4> QED
        BY <2>4, <4>1, Zenon
    <3>2. n > 0
      BY <3>1, Zenon DEF Started, TimeoutConfigError, CheckedSeconds
    <3>3. TimeoutFor(v, e) = n
      BY <1>1, <1>4, <2>4, <3>1, Zenon DEF TimeoutFor
    <3> QED
      BY <3>2, <3>3
  <2> QED
    BY <2>2, <2>3, <2>4, Zenon
<1> QED
  BY <1>2, <1>3, <1>4, Zenon

\* What the engines before turn n may take together
Before(v, n) ==
    LET t(m, e) == IF n > m THEN TimeoutFor(v, e) ELSE 0
    IN  t(1, "bandit") + t(2, "osv-scanner") + t(3, "yara") + t(4, "skillspector") + t(5, Aig)

\* A turn adds its engine's timeout, and the turns add up to the total.
LEMMA TurnsAddUp ==
    ASSUME NEW v, Started(v), NEW n \in DOMAIN BuiltEngines(v)
    PROVE  /\ n \in 1 .. 5 /\ Before(v, n) \in Nat
           /\ Before(v, n + 1) = Before(v, n) + TimeoutFor(v, BuiltEngines(v)[n])
           /\ Before(v, n + 1) <= TotalBudget(v) /\ TotalBudget(v) \in Nat
<1> DEFINE a == TimeoutFor(v, "bandit")
           b == TimeoutFor(v, "osv-scanner")
           c == TimeoutFor(v, "yara")
           d == TimeoutFor(v, "skillspector")
           g == TimeoutFor(v, Aig)
<1>1. a \in Nat /\ b \in Nat /\ c \in Nat /\ d \in Nat /\ g \in Nat
  BY TimeoutsPositive, Zenon
<1>2. /\ n \in 1 .. 5 /\ (n = 5 => v.llm)
      /\ (n = 1 => BuiltEngines(v)[n] = "bandit") /\ (n = 2 => BuiltEngines(v)[n] = "osv-scanner")
      /\ (n = 3 => BuiltEngines(v)[n] = "yara") /\ (n = 4 => BuiltEngines(v)[n] = "skillspector")
      /\ (n = 5 => BuiltEngines(v)[n] = Aig)
  BY DEF BuiltEngines, SandboxEngineNames
<1>3. TotalBudget(v) = a + b + c + d + (IF v.llm THEN g ELSE 0)
  BY Zenon DEF TotalBudget
<1>4. \A m \in 1 .. 6 :
          Before(v, m) = (IF m > 1 THEN a ELSE 0) + (IF m > 2 THEN b ELSE 0) + (IF m > 3 THEN c ELSE 0)
                         + (IF m > 4 THEN d ELSE 0) + (IF m > 5 THEN g ELSE 0)
  BY Zenon DEF Before
<1>5. TimeoutFor(v, BuiltEngines(v)[n]) =
          IF n = 1 THEN a ELSE IF n = 2 THEN b ELSE IF n = 3 THEN c ELSE IF n = 4 THEN d ELSE g
  <2>1. n = 1 \/ n = 2 \/ n = 3 \/ n = 4 \/ n = 5
    BY <1>2
  <2> QED
    BY <1>2, <2>1, Zenon
<1> DEFINE e == TimeoutFor(v, BuiltEngines(v)[n])
<1> HIDE DEF a, b, c, d, g, e
<1>6. /\ Before(v, n) \in Nat /\ Before(v, n + 1) = Before(v, n) + e
      /\ Before(v, n + 1) <= TotalBudget(v) /\ TotalBudget(v) \in Nat
  <2>1. e = IF n = 1 THEN a ELSE IF n = 2 THEN b ELSE IF n = 3 THEN c ELSE IF n = 4 THEN d ELSE g
    BY <1>5, Zenon DEF e
  <2>2. n \in 1 .. 6 /\ n + 1 \in 1 .. 6
    BY <1>2
  <2> QED
    BY <1>1, <1>2, <1>3, <1>4, <2>1, <2>2
<1> QED
  BY <1>2, <1>6, Zenon DEF e

\* A subprocess takes no longer than it was granted, and it is granted its
\* timeout or what is left until the deadline.
LEMMA AnalyzeBounds ==
    ASSUME NEW v, Started(v), NEW e, NEW c \in Conducts, NEW now \in Nat
    PROVE  LET a == Analyze(e, c, v, now)
           IN  /\ a.engine = e /\ a.ran \in Nat /\ a.ran <= TimeoutFor(v, e) /\ a.granted \in Int
               /\ a.granted >= TimeoutFor(v, e) \/ a.granted >= v.deadline - now
<1> DEFINE a == Analyze(e, c, v, now)
           T == TimeoutFor(v, e)
           left == v.deadline - now
<1>1. T \in Nat /\ v.deadline \in Int /\ left \in Int /\ c.runs \in Nat
  BY TimeoutsPositive, BudgetAssumption DEF Started
<1>2. CASE now >= v.deadline
  <2>1. a = Unusable(e, "timeout", 0, 0)
    BY <1>2, Zenon DEF Analyze
  <2> HIDE DEF a, T
  <2>2. a.engine = e /\ a.ran = 0 /\ a.granted = 0
    BY <2>1, Zenon DEF Unusable
  <2>3. 0 >= left
    BY <1>1, <1>2
  <2> QED
    BY <1>1, <2>2, <2>3 DEF a, T
<1>3. CASE ~(now >= v.deadline)
  <2> DEFINE g == Min({T, left})
  <2>1. g \in {T, left} /\ g <= T /\ g <= left
    <3>1. \E x \in {T, left} : \A y \in {T, left} : x =< y
      BY <1>1
    <3> QED
      BY <3>1 DEF Min
  <2>2. g \in Nat
    BY <1>1, <1>3, <2>1
  <2>3. a = RunProcess(e, c, g)
    BY <1>3, Zenon DEF Analyze
  <2> HIDE DEF g, a, T
  <2>4. a.engine = e /\ a.granted = g
    BY <2>3, Zenon DEF RunProcess, Unusable
  <2>5. a.ran = 0 \/ a.ran = g \/ (a.ran = c.runs /\ ~(c.runs > g))
    BY <2>3, Zenon DEF RunProcess, Unusable
  <2> QED
    BY <1>1, <2>1, <2>2, <2>4, <2>5 DEF a, T
<1> QED
  BY <1>2, <1>3, Zenon

\* The clock is behind the job's wait and the timeouts of the turns taken.
BudgetInv ==
    /\ Started(env) /\ waited \in Nat /\ clock \in Nat /\ turn \in Nat
    /\ turn = 0 => last = NoResult
    /\ turn # 0 => clock <= waited + Before(env, turn)
    /\ SilentBudgetSuffices

\* The bound on the clock gives the property for the engine whose turn it is.
LEMMA TurnIsGranted ==
    ASSUME NEW v, Started(v), NEW n \in DOMAIN BuiltEngines(v), NEW w \in Nat, NEW now \in Nat,
           now <= w + Before(v, n), NEW c \in Conducts
    PROVE  LET e == BuiltEngines(v)[n]
               a == Analyze(e, c, v, now)
           IN  /\ now + a.ran \in Nat /\ now + a.ran <= w + Before(v, n + 1)
               /\ a.engine = e
               /\ Shortfall(v) = 0 => a.granted >= TimeoutFor(v, e) - w
<1> DEFINE e == BuiltEngines(v)[n]
           a == Analyze(e, c, v, now)
           T == TimeoutFor(v, e)
           B == Before(v, n)
<1>1. /\ a.engine = e /\ a.ran \in Nat /\ a.ran <= T /\ a.granted \in Int
      /\ a.granted >= T \/ a.granted >= v.deadline - now
  BY AnalyzeBounds, Zenon
<1>2. /\ B \in Nat /\ Before(v, n + 1) = B + T
      /\ Before(v, n + 1) <= TotalBudget(v) /\ TotalBudget(v) \in Nat
  BY TurnsAddUp, Zenon
<1>3. T \in Nat
  BY TimeoutsPositive
<1>4. v.deadline \in Int
  BY BudgetAssumption, Zenon DEF Started
<1>5. Shortfall(v) = 0 => TotalBudget(v) <= v.deadline
  <2> DEFINE x == TotalBudget(v) - v.deadline
  <2>1. x \in Int
    BY <1>2, <1>4
  <2>2. Max({0, x}) = 0 => x <= 0
    <3> HIDE DEF x
    <3>1. \E y \in {0, x} : \A z \in {0, x} : y >= z
      BY <2>1
    <3> QED
      BY <2>1, <3>1 DEF Max
  <2>3. Shortfall(v) = 0 => x <= 0
    BY <2>2, Zenon DEF Shortfall
  <2> QED
    BY <1>2, <1>4, <2>3
<1> HIDE DEF a, T, B
<1>6. now <= w + B
  BY Zenon DEF B
<1>7. now + a.ran \in Nat /\ now + a.ran <= w + Before(v, n + 1)
  BY <1>1, <1>2, <1>3, <1>6
<1>8. Shortfall(v) = 0 => a.granted >= T - w
  BY <1>1, <1>2, <1>3, <1>4, <1>5, <1>6
<1> QED
  BY <1>1, <1>7, <1>8, Zenon DEF a, T

\* The clock is never past the wait and the limits of the engines before.
LEMMA BudgetAlways == BudgetSpec => []BudgetInv
<1>1. BudgetInit => BudgetInv
  <2> SUFFICES ASSUME BudgetInit PROVE BudgetInv
    BY Zenon
  <2>1. Started(env) /\ waited = 0 /\ clock = 0 /\ turn = 0 /\ last = NoResult
    BY Zenon DEF BudgetInit, Started
  <2>2. SilentBudgetSuffices
    BY <2>1, Zenon DEF SilentBudgetSuffices
  <2>3. waited \in Nat /\ clock \in Nat /\ turn \in Nat
    BY <2>1, Zenon
  <2> QED
    BY <2>1, <2>2, <2>3, Zenon DEF BudgetInv
<1>2. BudgetInv /\ [BudgetNext]_budgetVars => BudgetInv'
  <2> SUFFICES ASSUME BudgetInv, [BudgetNext]_budgetVars PROVE BudgetInv'
    OBVIOUS
  <2>1. CASE TakeJob
    <3>1. env' = env /\ turn = 0 /\ turn' = 1 /\ last' = NoResult /\ last = NoResult
      BY <2>1, Zenon DEF TakeJob, BudgetInv
    <3>2. waited' \in Nat /\ clock' = waited'
      <4>1. waited' \in 0 .. MaxWait /\ clock' = waited'
        BY <2>1, Zenon DEF TakeJob
      <4> QED
        BY <4>1, BudgetAssumption
    <3>3. Before(env, 1) = 0
      BY DEF Before
    <3>4. clock' <= waited' + Before(env', turn')
      <4>1. Before(env', turn') = 0
        BY <3>1, <3>3, Zenon
      <4>2. \A x \in Nat : x <= x + 0
        OBVIOUS
      <4> QED
        BY <3>2, <4>1, <4>2, Zenon
    <3>5. SilentBudgetSuffices'
      BY <3>1, Zenon DEF SilentBudgetSuffices
    <3>6. turn' \in Nat /\ turn' # 0
      BY <3>1
    <3>7. Started(env')
      BY <3>1, Zenon DEF BudgetInv
    <3> QED
      BY <3>2, <3>4, <3>5, <3>6, <3>7, Zenon DEF BudgetInv
  <2>2. CASE RunEngine
    <3> DEFINE e == BuiltEngines(env)[turn]
    <3>1. /\ Started(env) /\ env' = env /\ waited' = waited /\ turn' = turn + 1
          /\ clock' = clock + last'.ran /\ turn \in DOMAIN BuiltEngines(env)
          /\ waited \in Nat /\ clock \in Nat
      BY <2>2, Zenon DEF RunEngine, BudgetInv
    <3>2. /\ turn \in 1 .. 5 /\ Before(env, turn) \in Nat
          /\ Before(env, turn + 1) = Before(env, turn) + TimeoutFor(env, e)
      BY <3>1, TurnsAddUp, Zenon
    <3>3. turn # 0 /\ turn' # 0 /\ turn' \in Nat
      BY <3>1, <3>2
    <3>4. clock <= waited + Before(env, turn)
      BY <3>3, Zenon DEF BudgetInv
    <3>5. /\ clock' \in Nat /\ clock' <= waited + Before(env, turn + 1)
          /\ last' # NoResult /\ Shortfall(env) = 0 =>
                last'.granted >= TimeoutFor(env, last'.engine) - waited
      <4>1. CASE last' = NoResult
        <5>1. last'.ran = 0
          BY <4>1, Zenon DEF NoResult
        <5>2. TimeoutFor(env, e) \in Nat
          BY <3>1, TimeoutsPositive
        <5> HIDE DEF e
        <5>3. clock' \in Nat /\ clock' <= waited + Before(env, turn + 1)
          BY <3>1, <3>2, <3>4, <5>1, <5>2
        <5> QED
          BY <4>1, <5>3, Zenon
      <4>2. CASE \E c \in Conducts : last' = Analyze(e, c, env, clock)
        <5>1. PICK c \in Conducts : last' = Analyze(e, c, env, clock)
          BY <4>2, Zenon
        <5> QED
          BY <3>1, <3>4, <5>1, TurnIsGranted, Zenon
      <4> QED
        BY <2>2, <4>1, <4>2, Zenon DEF RunEngine
    <3>6. SilentBudgetSuffices'
      BY <3>1, <3>5, Zenon DEF SilentBudgetSuffices
    <3> QED
      BY <3>1, <3>3, <3>5, <3>6, Zenon DEF BudgetInv
  <2>3. CASE UNCHANGED budgetVars
    BY <2>3, Zenon DEF budgetVars, BudgetInv, SilentBudgetSuffices
  <2> QED
    BY <2>1, <2>2, <2>3, Zenon DEF BudgetNext
<1> QED
  BY <1>1, <1>2, PTL DEF BudgetSpec

\* A silent start-up check means what it says (_warn_if_timeouts_exceed_scan_budget):
\* whatever the timeouts, the deadline and the conduct of the subprocesses,
\* an engine loses time only to the job's wait in the stream.
THEOREM SilenceIsEnough == BudgetSpec => []SilentBudgetSuffices
<1>1. BudgetInv => SilentBudgetSuffices
  BY Zenon DEF BudgetInv
<1> QED
  BY <1>1, BudgetAlways, PTL

-----------------------------------------------------------------------------
(* EngineCoverage: what the answers say of the rows *)

\* A scan has rows of known engines, and only once it was run.
CoverageInv ==
    /\ scoredOrder \in Seq(CovScans) /\ DOMAIN dispatch = CovScans /\ DOMAIN healthRow = CovScans
    /\ \A s \in CovScans :
          /\ dispatch[s] = NotRun \/ dispatch[s] \subseteq KnownEngines
          /\ DOMAIN healthRow[s] # {} => dispatch[s] \subseteq KnownEngines
          /\ DOMAIN healthRow[s] \subseteq KnownEngines
          /\ \A e \in DOMAIN healthRow[s] : healthRow[s][e] \in ReportStates

\* A scan with rows was dispatched, and its rows are of known engines.
LEMMA CoverageAlways == CoverageSpec => []CoverageInv
<1>1. CoverageInit => CoverageInv
  <2> SUFFICES ASSUME CoverageInit PROVE CoverageInv
    OBVIOUS
  <2>1. scoredOrder \in Seq(CovScans) /\ DOMAIN dispatch = CovScans /\ DOMAIN healthRow = CovScans
    BY DEF CoverageInit
  <2>2. \A s \in CovScans : dispatch[s] = NotRun
    BY Zenon DEF CoverageInit
  <2>3. \A s \in CovScans : DOMAIN healthRow[s] = {}
    BY DEF CoverageInit
  <2> QED
    BY <2>1, <2>2, <2>3, Zenon DEF CoverageInv
<1>2. CoverageInv /\ [CoverageNext]_coverageVars => CoverageInv'
  <2> SUFFICES ASSUME CoverageInv, [CoverageNext]_coverageVars PROVE CoverageInv'
    OBVIOUS
  <2>1. ASSUME NEW e \in KnownEngines, NEW on \in BOOLEAN, SetEngineEnabled(e, on) PROVE CoverageInv'
    BY <2>1, Zenon DEF SetEngineEnabled, CoverageInv
  <2>2. ASSUME NEW s \in CovScans, DispatchScan(s) PROVE CoverageInv'
    <3> DEFINE run == {e \in KnownEngines : e \notin switchedOff /\ (e \in LlmGated => runnerLlm)}
    <3>1. dispatch' = [dispatch EXCEPT ![s] = run] /\ healthRow' = healthRow /\ scoredOrder' = scoredOrder
      BY <2>2, Zenon DEF DispatchScan
    <3>2. run \subseteq KnownEngines
      BY Zenon
    <3> HIDE DEF run
    <3> QED
      BY <3>1, <3>2, Zenon DEF CoverageInv
  <2>3. ASSUME NEW s \in CovScans, ScoreScan(s) PROVE CoverageInv'
    <3>1. PICK row \in [KnownEngines -> UNION {Ends[e] : e \in KnownEngines}] :
              healthRow' = [healthRow EXCEPT ![s] = row]
      BY <2>3, Zenon DEF ScoreScan
    <3>2. DOMAIN row = KnownEngines /\ \A e \in KnownEngines : row[e] \in ReportStates
      <4>1. \A e \in KnownEngines : Ends[e] \subseteq ReportStates
        BY CoverageAssumption, Zenon DEF KnownEngines, ReportStates
      <4> QED
        BY <4>1
    <3>3. dispatch' = dispatch /\ scoredOrder' = Append(scoredOrder, s) /\ dispatch[s] # NotRun
      BY <2>3, Zenon DEF ScoreScan
    <3>4. dispatch[s] \subseteq KnownEngines
      BY <3>3, Zenon DEF CoverageInv
    <3>5. scoredOrder' \in Seq(CovScans)
      BY <3>3 DEF CoverageInv
    <3> QED
      BY <3>1, <3>2, <3>3, <3>4, <3>5 DEF CoverageInv
  <2>4. ASSUME NEW s \in CovScans, NEW e \in KnownEngines, SweepRow(s, e) PROVE CoverageInv'
    <3> DEFINE row == [x \in DOMAIN healthRow[s] \ {e} |-> healthRow[s][x]]
    <3>1. healthRow' = [healthRow EXCEPT ![s] = row] /\ dispatch' = dispatch /\ scoredOrder' = scoredOrder
      BY <2>4, Zenon DEF SweepRow
    <3>2. /\ DOMAIN row \subseteq DOMAIN healthRow[s]
          /\ \A x \in DOMAIN row : row[x] = healthRow[s][x]
      BY Zenon
    <3> HIDE DEF row
    <3> QED
      BY <3>1, <3>2, Zenon DEF CoverageInv
  <2>5. CASE UNCHANGED coverageVars
    BY <2>5, Zenon DEF coverageVars, CoverageInv
  <2> QED
    BY <2>1, <2>2, <2>3, <2>4, <2>5, Zenon DEF CoverageNext
<1> QED
  BY <1>1, <1>2, PTL DEF CoverageSpec

\* A finite set nothing was counted in is empty.
LEMMA NothingCounted ==
    ASSUME NEW S, NEW T, IsFiniteSet(S), T \subseteq S
    PROVE  IsFiniteSet(T) /\ Cardinality(T) \in Nat /\ (Cardinality(T) = 0 => T = {})
<1>1. IsFiniteSet(T)
  BY FS_Subset, Zenon
<1> QED
  BY <1>1, FS_CardinalityType, FS_EmptySet, Zenon

\* Evidence outranks the configuration of the day (classify_engine_coverage,
\* not_reported_attribution), for every set of engines, every way their runs
\* end, every window and any sweeping of rows.
THEOREM EvidenceDecides == CoverageSpec => []EvidenceOutranksInference
<1>1. CoverageInv => EvidenceOutranksInference
  <2> SUFFICES ASSUME CoverageInv PROVE EvidenceOutranksInference
    BY Zenon
  <2>1. ASSUME NEW s \in CovScans, DOMAIN healthRow[s] = KnownEngines,
               NEW off \in SUBSET (KnownEngines \ Required), NEW llm \in BOOLEAN,
               CoverageAnswer(s, off, llm).complete = "true", NEW e \in Unheard(s)
        PROVE  healthRow[s][e] = "not_reported" /\ CoverageAnswer(s, off, llm).reason[e] # "none"
    <3> DEFINE absent == StructurallyAbsent(off, llm)
               class(k) == {x \in DOMAIN healthRow[s] : CoverageClass(x, healthRow[s][x], absent) = k}
               c == ScanCoverage(s, absent)
    <3>1. /\ c.expected = Cardinality(class("reported")) + Cardinality(class("missing"))
          /\ c.reported = Cardinality(class("reported"))
          /\ c.entries = DOMAIN healthRow[s] \ class("reported")
          /\ c.observed = (DOMAIN healthRow[s] # {})
      BY Zenon DEF ScanCoverage
    <3>2. /\ CoverageAnswer(s, off, llm).complete = Complete(c)
          /\ CoverageAnswer(s, off, llm).reason =
                [x \in c.entries |-> IF healthRow[s][x] # "not_reported" THEN "none"
                                     ELSE NotReportedAttribution(x, off, llm, 0)]
      BY Zenon DEF CoverageAnswer
    <3> HIDE DEF c, absent
    <3>3. c.observed /\ c.reported = c.expected
      <4>1. Complete(c) = "true"
        BY <2>1, <3>2, Zenon
      <4> QED
        BY <4>1, Zenon DEF Complete
    <3>4. /\ Cardinality(class("reported")) \in Nat /\ Cardinality(class("missing")) \in Nat
          /\ Cardinality(class("missing")) = 0 => class("missing") = {}
      <4>1. IsFiniteSet(KnownEngines)
        BY CoverageAssumption, Zenon DEF KnownEngines
      <4>2. class("reported") \subseteq KnownEngines /\ class("missing") \subseteq KnownEngines
        BY <2>1, Zenon
      <4> HIDE DEF class
      <4> QED
        BY <4>1, <4>2, NothingCounted, Zenon
    <3>5. class("missing") = {}
      <4> HIDE DEF class
      <4>1. Cardinality(class("missing")) = 0
        BY <3>1, <3>3, <3>4
      <4> QED
        BY <3>4, <4>1, Zenon
    <3>6. e \in DOMAIN healthRow[s] /\ healthRow[s][e] \notin {"ok", "partial"}
      <4>1. dispatch[s] \subseteq KnownEngines
        BY <3>1, <3>3, Zenon DEF CoverageInv
      <4> QED
        BY <2>1, <4>1, Zenon DEF Unheard
    <3>7. CoverageClass(e, healthRow[s][e], absent) # "missing"
      BY <3>5, <3>6, Zenon
    <3>8. healthRow[s][e] = "not_reported" /\ e \in absent
      BY <3>6, <3>7, Zenon DEF CoverageClass
    <3>9. e \in c.entries
      <4>1. CoverageClass(e, healthRow[s][e], absent) # "reported"
        BY <3>6, <3>8 DEF CoverageClass
      <4> QED
        BY <3>1, <3>6, <4>1, Zenon
    <3>10. NotReportedAttribution(e, off, llm, 0) # "none"
      BY <3>8, Zenon DEF NotReportedAttribution, absent, StructurallyAbsent
    <3> QED
      BY <3>2, <3>8, <3>9, <3>10, Zenon
  <2>2. ASSUME NEW n \in DOMAIN scoredOrder, NEW e \in KnownEngines,
               NEW off \in SUBSET (KnownEngines \ Required), NEW llm \in BOOLEAN,
               HealthAnswer(e, n, off, llm).attribution = "llm_endpoint_unconfigured",
               NEW i \in HealthWindow(n), e \in DOMAIN healthRow[scoredOrder[i]]
        PROVE  healthRow[scoredOrder[i]][e] \in {"not_reported", "unreadable"}
    <3> DEFINE window == HealthWindow(n)
               mine == {j \in window : e \in DOMAIN healthRow[scoredOrder[j]]}
               told(v) == {j \in mine : healthRow[scoredOrder[j]][e] = v}
               h == HealthSummary(e, window)
               sum == h.counts["ok"] + h.counts["partial"] + h.counts["error"]
    <3>1. sum = 0
      <4>1. HealthAnswer(e, n, off, llm).attribution =
              IF h.latest = "not_reported" THEN NotReportedAttribution(e, off, llm, sum) ELSE "none"
        BY Zenon DEF HealthAnswer
      <4> HIDE DEF h, sum
      <4> QED
        BY <2>2, <4>1, Zenon DEF NotReportedAttribution
    <3>2. h.counts = [v \in ReportStates |-> Cardinality(told(v))]
      BY Zenon DEF HealthSummary
    <3>3. /\ h.counts["ok"] = Cardinality(told("ok")) /\ h.counts["partial"] = Cardinality(told("partial"))
          /\ h.counts["error"] = Cardinality(told("error"))
      <4> HIDE DEF h, told
      <4> QED
        BY <3>2 DEF ReportStates
    <3>4. window \subseteq DOMAIN scoredOrder /\ IsFiniteSet(DOMAIN scoredOrder)
      <4>1. window \subseteq DOMAIN scoredOrder
        BY Zenon DEF HealthWindow
      <4>2. DOMAIN scoredOrder = 1 .. Len(scoredOrder) /\ Len(scoredOrder) \in Int
        BY DEF CoverageInv
      <4>3. 1 \in Int
        OBVIOUS
      <4> QED
        BY <4>1, <4>2, <4>3, FS_Interval, Zenon
    <3>5. \A v : told(v) \subseteq DOMAIN scoredOrder
      BY <3>4, Zenon
    <3>6. \A v : Cardinality(told(v)) \in Nat /\ (Cardinality(told(v)) = 0 => told(v) = {})
      <4> HIDE DEF told
      <4> QED
        BY <3>4, <3>5, NothingCounted, Zenon
    <3>7. told("ok") = {} /\ told("partial") = {} /\ told("error") = {}
      <4> DEFINE a == Cardinality(told("ok"))
                 b == Cardinality(told("partial"))
                 d == Cardinality(told("error"))
      <4>1. a \in Nat /\ b \in Nat /\ d \in Nat /\ a + b + d = 0
        BY <3>1, <3>3, <3>6, Zenon
      <4>2. a = 0 /\ b = 0 /\ d = 0
        <5> HIDE DEF a, b, d
        <5> QED
          BY <4>1
      <4> QED
        BY <3>6, <4>2, Zenon
    <3>8. healthRow[scoredOrder[i]][e] \in ReportStates
      <4>1. scoredOrder[i] \in CovScans
        <5>1. i \in DOMAIN scoredOrder
          BY <3>4, Zenon
        <5> QED
          BY <5>1 DEF CoverageInv
      <4> QED
        BY <2>2, <4>1, Zenon DEF CoverageInv
    <3>9. \A v : i \in told(v) <=> healthRow[scoredOrder[i]][e] = v
      BY <2>2, Zenon
    <3> HIDE DEF told
    <3> QED
      BY <3>7, <3>8, <3>9, Zenon DEF ReportStates
  <2> QED
    BY <2>1, <2>2, Zenon DEF EvidenceOutranksInference
<1> QED
  BY <1>1, CoverageAlways, PTL
=============================================================================
