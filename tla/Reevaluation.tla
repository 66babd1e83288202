---------------------------- MODULE Reevaluation ----------------------------
(***************************************************************************)
(* Re-evaluation of published skills (reeval): which versions are stale    *)
(* under the current toolchain digest, the rescans an operator queues, the *)
(* sweep that advances a version's digest once its rescan is decided       *)
(* (worker.py), and the comparison of what the marketplace says is         *)
(* published with the ledger of verdicts.                                  *)
(***************************************************************************)
EXTENDS Naturals, FiniteSets, Sequences, SequencesExt

CONSTANTS Versions,        \* {[skill, tier, hash, made]}, tier 0 = public
          Digests, FirstDigest,
          Sites,           \* processes, each with its own idea of the digest
          DrainLimit, AdvanceBatch,
          PushEnabled,     \* push_auto_quarantine_enabled
          MaxTargets, MaxFailures   \* bounds

ASSUME AdvanceAssumption == AdvanceBatch >= Cardinality(Versions)

VARIABLES target,          \* the digest of the newest policy and engine switches
          digestAt,        \* site -> current_toolchain_digest
          targets,         \* bound
          recorded,        \* hash -> skill_version.toolchain_digest
          rescan,          \* scan_job rows in the order they were created
          advancing,       \* site -> what a sweep read, [digest, hashes]
          ledger,          \* verdict rows, [hash, verdict, at]
          failures,        \* rescans that were dead-lettered
          quarantined      \* skills the marketplace was told to quarantine

reevalVars == <<target, digestAt, targets, recorded, rescan, advancing, ledger,
                failures, quarantined>>
rescanVars == <<target, digestAt, targets, recorded, rescan, advancing, failures>>

VersionHashes == {v.hash : v \in Versions}
NoSweep == [digest |-> FirstDigest, hashes |-> {}]

\* Every version was scanned, and passed, when it was submitted.
Scanned == SetToSortSeq(Versions, LAMBDA v, w : v.made < w.made)

\* build_rescan_job
RescanJob(v, d) == [hash |-> v.hash, digest |-> d, state |-> "queued"]

ReevalInit ==
    /\ target = FirstDigest /\ digestAt = [s \in Sites |-> FirstDigest] /\ targets = 0
    /\ recorded = [h \in VersionHashes |-> FirstDigest]
    /\ rescan = [i \in DOMAIN Scanned |-> [RescanJob(Scanned[i], FirstDigest) EXCEPT !.state = "decided"]]
    /\ advancing = [s \in Sites |-> NoSweep]
    /\ ledger = [i \in DOMAIN Scanned |-> [hash |-> Scanned[i].hash, verdict |-> "PASS", at |-> 0]]
    /\ failures = 0 /\ quarantined = {}

-----------------------------------------------------------------------------
\* A policy or an engine switch changes, and reaches one process at a time.
TargetMoves ==
    /\ targets < MaxTargets /\ targets' = targets + 1
    /\ target' \in Digests \ {target}
    /\ UNCHANGED <<digestAt, recorded, rescan, advancing, ledger, failures, quarantined>>

Adopt(s) ==
    /\ digestAt[s] # target
    /\ digestAt' = [digestAt EXCEPT ![s] = target]
    /\ UNCHANGED <<target, targets, recorded, rescan, advancing, ledger, failures, quarantined>>

\* list_published_toolchain_statuses: the newest version of each skill
Published ==
    {v \in Versions : \A w \in Versions : w.skill = v.skill => w.made <= v.made}

\* is_stale
IsStale(v, d) == recorded[v.hash] # d

\* batch_rescan_targets: the most exposed tier first, newer versions first in it
Stale(d) == {v \in Published : IsStale(v, d)}
DrainsBefore(v, w) == v.tier < w.tier \/ (v.tier = w.tier /\ v.made > w.made)
Selected(d) == {v \in Stale(d) : Cardinality({w \in Stale(d) : DrainsBefore(w, v)}) < DrainLimit}

\* trigger_rescans: a duplicate of the cache key is skipped.
Queue(chosen, d) ==
    LET fresh == {v \in chosen : \A i \in DOMAIN rescan :
                      rescan[i].hash # v.hash \/ rescan[i].digest # d}
        order == SetToSortSeq(fresh, DrainsBefore)
    IN  rescan' = rescan \o [i \in DOMAIN order |-> RescanJob(order[i], d)]

\* drain_stale_reeval
DrainStale(s) ==
    /\ Queue(Selected(digestAt[s]), digestAt[s])
    /\ UNCHANGED <<target, digestAt, targets, recorded, advancing, ledger, failures, quarantined>>

\* trigger_reeval, of one skill, stale or not
TriggerOne(s) ==
    /\ \E v \in Published : Queue({v}, digestAt[s])
    /\ UNCHANGED <<target, digestAt, targets, recorded, advancing, ledger, failures, quarantined>>

\* The pipeline decides a rescan, or dead-letters it; either issues a verdict.
\* Two verdicts may be issued at the same instant.
RescanEnds(i) ==
    /\ rescan[i].state = "queued"
    /\ \E end \in {"decided", "failed"}, v \in {"PASS", "BLOCK"}, later \in {0, 1} :
           /\ end = "failed" => v = "BLOCK" /\ failures < MaxFailures
           /\ failures' = IF end = "failed" THEN failures + 1 ELSE failures
           /\ rescan' = [rescan EXCEPT ![i].state = end]
           /\ ledger' = Append(ledger, [hash |-> rescan[i].hash, verdict |-> v,
                            at |-> later + ledger[Len(ledger)].at])
    /\ UNCHANGED <<target, digestAt, targets, recorded, advancing, quarantined>>

\* The oldest of the decided jobs, a batch of one.
AdvanceWindowFirst(d) ==
    {i \in DOMAIN rescan : rescan[i].digest = d /\ rescan[i].state = "decided"
        /\ \A j \in 1 .. i - 1 : rescan[j].digest # d \/ rescan[j].state # "decided"}

\* advance_scanned_toolchain_digests: the newest decided jobs of the digest
AdvanceWindow(d) ==
    LET decided == {i \in DOMAIN rescan : rescan[i].digest = d /\ rescan[i].state = "decided"}
    IN  {i \in decided : Cardinality({j \in decided : j > i}) < AdvanceBatch}

\* ... its reads, which confirm the verdict of every job of the window
AdvanceReads(s) ==
    LET d == digestAt[s]
        hashes == {rescan[i].hash : i \in AdvanceWindow(d)}
    IN  /\ advancing[s] = NoSweep
        /\ \E h \in hashes : recorded[h] # d
        /\ advancing' = [advancing EXCEPT ![s] = [digest |-> d, hashes |-> hashes]]
        /\ UNCHANGED <<target, digestAt, targets, recorded, rescan, ledger, failures, quarantined>>

\* ... and its update
AdvanceWrites(s) ==
    /\ advancing[s] # NoSweep
    /\ recorded' = [h \in VersionHashes |-> IF h \in advancing[s].hashes THEN advancing[s].digest
                                     ELSE recorded[h]]
    /\ advancing' = [advancing EXCEPT ![s] = NoSweep]
    /\ UNCHANGED <<target, digestAt, targets, rescan, ledger, failures, quarantined>>

-----------------------------------------------------------------------------
\* The later of two verdicts, without a rule for verdicts of one instant.
CurrencyByTime(a, b) == a.at > b.at

\* _currency(a) > _currency(b)
Currency(a, b) == a.at > b.at \/ (a.at = b.at /\ a.verdict # "PASS" /\ b.verdict = "PASS")

\* list_issued_verdicts: newest first; the database orders rows of one instant
\* as it likes, here both ways.
ListIssuedVerdicts(up) ==
    LET Before(i, j) == \/ ledger[i].at > ledger[j].at
                        \/ ledger[i].at = ledger[j].at /\ (IF up THEN i < j ELSE i > j)
        Place(i) == Cardinality({j \in DOMAIN ledger : Before(j, i)}) + 1
    IN  [k \in DOMAIN ledger |-> ledger[CHOOSE i \in DOMAIN ledger : Place(i) = k]]

\* reconcile, for one entry
Reconcile(h, issuedVerdicts) ==
    LET Incumbent(best, issued) ==
            IF issued.hash = h /\ (best = <<>> \/ Currency(issued, best[1])) THEN <<issued>>
            ELSE best
        current == FoldLeft(Incumbent, <<>>, issuedVerdicts)
    IN  IF current = <<>> THEN "ORPHAN"
        ELSE IF current[1].verdict # "PASS" THEN "MISMATCH" ELSE "MATCH"

\* decide_quarantine_action, for source PUSH
ShouldQuarantine(result) == result \in {"ORPHAN", "MISMATCH"} /\ PushEnabled

\* apply_push_event and _persist_and_act: a quarantine call that fails is logged
\* and left to the next event.
ApplyPush(v) ==
    /\ \E up \in BOOLEAN : ShouldQuarantine(Reconcile(v.hash, ListIssuedVerdicts(up)))
    /\ quarantined' = quarantined \cup {v.skill}
    /\ UNCHANGED <<rescanVars, ledger>>

\* marketplace_push_webhook: an event without a valid signature, outside the
\* replay window or without its fields is refused and changes nothing.
PushWebhook ==
    \E v \in Versions, authentic, inWindow, wellFormed, delivered \in BOOLEAN :
        authentic /\ inWindow /\ wellFormed /\ delivered /\ ApplyPush(v)

SiteStep(s) ==
    Adopt(s) \/ DrainStale(s) \/ TriggerOne(s) \/ AdvanceReads(s) \/ AdvanceWrites(s)

ReevalNext ==
    \/ TargetMoves \/ PushWebhook
    \/ \E i \in DOMAIN rescan : RescanEnds(i)
    \/ \E s \in Sites : SiteStep(s)

\* Processes reload, the worker sweeps and the pipeline ends each scan; the
\* operator keeps draining.
ReevalFairness ==
    /\ WF_reevalVars(\E i \in DOMAIN rescan : RescanEnds(i))
    /\ \A s \in Sites : /\ WF_reevalVars(Adopt(s))
                        /\ WF_reevalVars(DrainStale(s))
                        /\ WF_reevalVars(AdvanceReads(s))
                        /\ WF_reevalVars(AdvanceWrites(s))

ReevalSpec == ReevalInit /\ [][ReevalNext]_reevalVars /\ ReevalFairness

\* Repeated drains converge: once the toolchain is stable, every published
\* version is eventually current, unless a rescan was dead-lettered.
DrainConverges ==
    <>[](failures > 0 \/ \A v \in Published : recorded[v.hash] = target)

\* What reconcile answers does not depend on the order in which verdicts of
\* one instant are read: MATCH exactly when some verdict exists and no verdict
\* that nothing is later than is other than PASS.
MatchMeansPassed ==
    \A up \in BOOLEAN :
        LET rows == ListIssuedVerdicts(up)
            Own(h) == {i \in DOMAIN ledger : ledger[i].hash = h}
            Latest(h) == {i \in Own(h) : \A j \in Own(h) : ledger[j].at <= ledger[i].at}
            Expected(h) == IF Own(h) = {} THEN "ORPHAN"
                           ELSE IF \E i \in Latest(h) : ledger[i].verdict # "PASS" THEN "MISMATCH"
                           ELSE "MATCH"
        IN  \A h \in VersionHashes : Reconcile(h, rows) = Expected(h)
=============================================================================
