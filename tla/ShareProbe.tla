----------------------------- MODULE ShareProbe -----------------------------
(***************************************************************************)
(* The self-check by which the monolith and the engine runner find out     *)
(* that they are not using the same blob store (libs/common/blobstore.py): *)
(* each process writes a probe file and looks for a fresh one of the other *)
(* role.  Time is counted in ticks and saturates where the code stops      *)
(* telling values apart.                                                   *)
(***************************************************************************)
EXTENDS Naturals, FiniteSets

CONSTANTS Monoliths, Runners,
          Volumes,         \* volumes a process may have mounted
          ProbeTtl, ProbeGrace, ProbeInterval,
          MaxProbeFails    \* bound: rounds that raise

ASSUME ProbeAssumption == /\ {ProbeTtl, ProbeGrace, MaxProbeFails} \subseteq Nat
                          /\ ProbeInterval \in Nat \ {0}

VARIABLES volume,          \* the volume each process has mounted
          uptime,          \* ticks since the start, Down before it and after the end
          since,           \* ticks since the loop's last round
          files,           \* processes whose file _probe/<identity> is there
          silence,         \* ticks since a process wrote its file: the file's age
          ready,           \* ShareStatus.ready
          probeFails

probeVars == <<volume, uptime, since, files, silence, ready, probeFails>>

Probers == Monoliths \cup Runners
Down == 0
Rounds == (1 + MaxProbeFails) * ProbeInterval
LongUp == ProbeGrace + Rounds + 1
LongSilence == ProbeTtl + Rounds + 1

Peers(p) == IF p \in Monoliths THEN Runners ELSE Monoliths

Older(n, limit) == IF n < limit THEN n + 1 ELSE n

ProbeInit ==
    /\ volume \in [Probers -> Volumes]
    /\ uptime = [p \in Probers |-> Down]
    /\ since = [p \in Probers |-> ProbeInterval]
    /\ files = {} /\ silence = [p \in Probers |-> LongSilence]
    /\ ready = [p \in Probers |-> TRUE]
    /\ probeFails = 0

\* The first round comes at once.  Pod names are unique per restart.
StartProber(p) ==
    /\ uptime[p] = Down /\ p \notin files /\ silence[p] = LongSilence
    /\ uptime' = [uptime EXCEPT ![p] = 1]
    /\ since' = [since EXCEPT ![p] = ProbeInterval]
    /\ ready' = [ready EXCEPT ![p] = TRUE]
    /\ UNCHANGED <<volume, files, silence, probeFails>>

StopProber(p) ==
    /\ uptime[p] # Down /\ p \in files
    /\ uptime' = [uptime EXCEPT ![p] = Down]
    /\ UNCHANGED <<volume, since, files, silence, ready, probeFails>>

\* A process without an interval to spare has to come first.
PassTime ==
    /\ \A p \in Probers : uptime[p] # Down => since[p] < ProbeInterval
    /\ \E p \in Probers : uptime[p] # Down
    /\ uptime' = [p \in Probers |-> IF uptime[p] = Down THEN Down ELSE Older(uptime[p], LongUp)]
    /\ since' = [p \in Probers |-> IF uptime[p] = Down THEN 0 ELSE since[p] + 1]
    /\ silence' = [p \in Probers |-> Older(silence[p], LongSilence)]
    /\ UNCHANGED <<volume, files, ready, probeFails>>

Fresh(q) == q \in files /\ silence[q] <= ProbeTtl

\* Variant: any peer will do.
SeenAnyRole(p) == {q \in Probers \ {p} : volume[q] = volume[p] /\ Fresh(q)}

\* share_probe: the fresh files of the other role
Seen(p) == {q \in Peers(p) : volume[q] = volume[p] /\ Fresh(q)}

\* ShareProbeMonitor.check: writes the own file, deletes what has expired.
CheckShare(p) ==
    /\ uptime[p] # Down
    /\ ready' = [ready EXCEPT ![p] = Seen(p) # {} \/ uptime[p] <= ProbeGrace]
    /\ files' = {q \in files : volume[q] = volume[p] => Fresh(q)} \cup {p}
    /\ silence' = [silence EXCEPT ![p] = 0]
    /\ since' = [since EXCEPT ![p] = 0]
    /\ UNCHANGED <<volume, uptime, probeFails>>

\* _run_share_probe_loop logs the exception and keeps the status.
CheckShareFails(p) ==
    /\ uptime[p] # Down /\ p \in files /\ probeFails < MaxProbeFails
    /\ probeFails' = probeFails + 1
    /\ since' = [since EXCEPT ![p] = 0]
    /\ UNCHANGED <<volume, uptime, files, silence, ready>>

ProbeNext == \/ \E p \in Probers : \/ StartProber(p) \/ StopProber(p)
                                   \/ CheckShare(p) \/ CheckShareFails(p)
             \/ PassTime

ProbeSpec == ProbeInit /\ [][ProbeNext]_probeVars

-----------------------------------------------------------------------------

\* A process on a volume that no process of the other role uses does not stay
\* ready: when the grace and a round are over, ready means that such a process
\* wrote its file within the files' lifetime (ShareProbeMonitor.check).
ReadyMeansShared ==
    \A p \in Probers :
        ready[p] /\ uptime[p] > ProbeGrace + Rounds =>
            \E q \in Peers(p) : volume[q] = volume[p] /\ silence[q] <= ProbeTtl + Rounds
=============================================================================
