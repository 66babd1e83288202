--------------------------- MODULE VerdictProofs ---------------------------
(***************************************************************************)
(* What the verdict rows of ScanPipeline come to: they say of the sandbox  *)
(* engines they went without what happened, the wait that ran out and the  *)
(* engines that are named; and they move as ScanLedger allows.             *)
(***************************************************************************)
EXTENDS ScanPipelineProofs

(***************************************************************************)
(* Verdicts and the sandbox                                                *)
(***************************************************************************)

\* The engine is not switched on.
Off(x) == toggle[x] # "on"

\* What a collector knows of the scan in hand: a sweep has picked it for a wait
\* that is over, an engine it does not wait for was switched off, and the result
\* row it wrote lacks the engines it names and no other that was on.
WaitOK(c) ==
    /\ pc[c] \in AtScan \/ cur[c] = NoScan
    /\ mode[c] = "force" => \A s \in todo[c] : wait[s] = "expired"
    /\ mode[c] = "force" /\ pc[c] \in AtScan => wait[cur[c]] = "expired"
    /\ pc[c] # "idle" => \A x \in Sandbox : x \in waited[c] \/ Off(x)
    /\ timeout[c] # {} =>
           /\ pc[c] \in {"gateScore", "decide"} /\ wait[cur[c]] = "expired"
           /\ \E r \in result : r.scan = cur[c] /\ timeout[c] \subseteq r.missing
    /\ pc[c] = "gateScore" =>
           \A r \in result : r.scan = cur[c] =>
               \A x \in r.missing : x \in timeout[c] \/ (x \in Sandbox /\ Off(x))

\* ... and what the verdicts say of the engines.
Explained ==
    \A v \in verdict, r \in result : v.scan = r.scan /\ v.src = "score" =>
        \A x \in r.missing : x \in v.timeout \/ (x \in Sandbox /\ Off(x))

\* Both, and what the engines named as timed out were waited for
WaitInv ==
    /\ \A c \in Collectors : WaitOK(c)
    /\ TimeoutOnlyAfterWait /\ Explained

\* Nobody is at work, and there are no rows.
LEMMA InitWait == Init => WaitInv
BY DEF Init, WaitInv, WaitOK, TimeoutOnlyAfterWait, Explained, AtScan

\* A wait that is over stays so, rows are never withdrawn, and an engine that
\* was off at some time is known as such.
Lasting ==
    /\ \A s \in Scans : wait[s] = "expired" => wait'[s] = "expired"
    /\ \A r \in result : r \in result'
    /\ \A x \in Sandbox : Off(x) => Off(x)'

\* The others neither move nor do they learn of new rows for their scan.
OthersStill(c) ==
    \A d \in Collectors \ {c} :
        /\ pc'[d] = pc[d] /\ cur'[d] = cur[d] /\ mode'[d] = mode[d] /\ todo'[d] = todo[d]
        /\ waited'[d] = waited[d] /\ timeout'[d] = timeout[d]
        /\ pc[d] = "gateScore" => \A r \in result' : r.scan = cur[d] => r \in result

\* What the others know remains true.
LEMMA OthersKeep ==
    ASSUME WaitInv, ColOK, Lasting, NEW c \in Collectors, OthersStill(c),
           NEW d \in Collectors, d # c
    PROVE  WaitOK(d)'
<1>1. WaitOK(d) /\ todo[d] \subseteq Scans /\ (pc[d] \in AtScan => cur[d] \in Scans)
  BY Zenon DEF WaitInv, ColOK
<1>2. /\ pc'[d] = pc[d] /\ cur'[d] = cur[d] /\ mode'[d] = mode[d] /\ todo'[d] = todo[d]
      /\ waited'[d] = waited[d] /\ timeout'[d] = timeout[d]
  BY Zenon DEF OthersStill
<1>3. mode[d] = "force" => \A s \in todo[d] : wait'[s] = "expired"
  BY <1>1, Zenon DEF WaitOK, Lasting
<1>4. mode[d] = "force" /\ pc[d] \in AtScan => wait'[cur[d]] = "expired"
  BY <1>1, Zenon DEF WaitOK, Lasting
<1>5. pc[d] # "idle" => \A x \in Sandbox : x \in waited[d] \/ Off(x)'
  BY <1>1, Zenon DEF WaitOK, Lasting
<1>6. timeout[d] # {} =>
          /\ pc[d] \in {"gateScore", "decide"} /\ wait'[cur[d]] = "expired"
          /\ \E r \in result' : r.scan = cur[d] /\ timeout[d] \subseteq r.missing
  <2> HAVE timeout[d] # {}
  <2>1. pc[d] \in {"gateScore", "decide"} /\ wait[cur[d]] = "expired" /\ cur[d] \in Scans
    BY <1>1, Zenon DEF WaitOK, AtScan
  <2>2. PICK r \in result : r.scan = cur[d] /\ timeout[d] \subseteq r.missing
    BY <1>1, Zenon DEF WaitOK
  <2>3. QED
    BY <2>1, <2>2, Zenon DEF Lasting
<1>7. ASSUME pc[d] = "gateScore", NEW r \in result', r.scan = cur[d], NEW x \in r.missing
      PROVE  x \in timeout[d] \/ (x \in Sandbox /\ Off(x)')
  <2>1. r \in result
    BY <1>7, Zenon DEF OthersStill
  <2>2. x \in timeout[d] \/ (x \in Sandbox /\ Off(x))
    BY <1>1, <1>7, <2>1, Zenon DEF WaitOK
  <2>3. QED
    BY <2>2, Zenon DEF Lasting, Off
<1>8. pc[d] \in AtScan \/ cur[d] = NoScan
  BY <1>1, Zenon DEF WaitOK
<1>9. QED
  BY <1>2, <1>3, <1>4, <1>5, <1>6, <1>7, <1>8, Zenon DEF WaitOK

\* Verdicts that are there stay right while no result row is added.
LEMMA VerdictsKeep ==
    ASSUME WaitInv, DbOK, Lasting, UNCHANGED <<result, verdict>>
    PROVE  TimeoutOnlyAfterWait' /\ Explained'
<1>1. TimeoutOnlyAfterWait'
  <2> SUFFICES ASSUME NEW v \in verdict, v.timeout # {}
               PROVE  /\ wait'[v.scan] = "expired"
                      /\ \E r \in result : r.scan = v.scan /\ v.timeout \subseteq r.missing
    BY Zenon DEF TimeoutOnlyAfterWait
  <2>1. v.scan \in Scans
    BY Zenon DEF DbOK, VerdictRow
  <2>2. QED
    BY <2>1, Zenon DEF WaitInv, TimeoutOnlyAfterWait, Lasting
<1>2. Explained'
  <2> SUFFICES ASSUME NEW v \in verdict, NEW r \in result, v.scan = r.scan, v.src = "score",
                      NEW x \in r.missing
               PROVE  x \in v.timeout \/ (x \in Sandbox /\ Off(x)')
    BY Zenon DEF Explained
  <2>1. x \in v.timeout \/ (x \in Sandbox /\ Off(x))
    BY Zenon DEF WaitInv, Explained
  <2>2. QED
    BY <2>1, Zenon DEF Lasting, Off
<1>3. QED
  BY <1>1, <1>2, Zenon

\* A step of one collector that adds no row.
LEMMA OneMoves ==
    ASSUME WaitInv, DbOK, ColOK, Lasting, UNCHANGED <<result, verdict>>,
           NEW c \in Collectors, OthersStill(c), WaitOK(c)'
    PROVE  WaitInv'
BY OthersKeep, VerdictsKeep, Zenon DEF WaitInv

\* Submissions, administrators, time and workers.
LEMMA StandsStill ==
    ASSUME WaitInv, DbOK, ColOK, Lasting, UNCHANGED <<result, verdict, colVars>>
    PROVE  WaitInv'
<1>1. ASSUME NEW c \in Collectors PROVE WaitOK(c)'
  <2>1. OthersStill(c) /\ UNCHANGED <<pc, cur, mode, todo, waited, timeout>>
    BY Zenon DEF OthersStill, colVars
  <2>2. WaitOK(c) /\ todo[c] \subseteq Scans /\ (pc[c] \in AtScan => cur[c] \in Scans)
    BY Zenon DEF WaitInv, ColOK
  <2>3. /\ mode[c] = "force" => \A s \in todo[c] : wait'[s] = "expired"
        /\ mode[c] = "force" /\ pc[c] \in AtScan => wait'[cur[c]] = "expired"
        /\ pc[c] # "idle" => \A x \in Sandbox : x \in waited[c] \/ Off(x)'
    BY <2>2, Zenon DEF WaitOK, Lasting
  <2>4. timeout[c] # {} => pc[c] \in {"gateScore", "decide"} /\ wait'[cur[c]] = "expired"
    BY <2>2, Zenon DEF WaitOK, Lasting, AtScan
  <2>5. ASSUME pc[c] = "gateScore", NEW r \in result, r.scan = cur[c], NEW x \in r.missing
        PROVE  x \in timeout[c] \/ (x \in Sandbox /\ Off(x)')
    <3>1. x \in timeout[c] \/ (x \in Sandbox /\ Off(x))
      BY <2>2, <2>5, Zenon DEF WaitOK
    <3>2. QED
      BY <3>1, Zenon DEF Lasting, Off
  <2>6. pc[c] \in AtScan \/ cur[c] = NoScan
    BY <2>2, Zenon DEF WaitOK
  <2>7. timeout[c] # {} => \E r \in result : r.scan = cur[c] /\ timeout[c] \subseteq r.missing
    BY <2>2, Zenon DEF WaitOK
  <2>8. QED
    BY <2>1, <2>3, <2>4, <2>5, <2>6, <2>7, Zenon DEF WaitOK
<1>2. QED
  BY <1>1, VerdictsKeep, Zenon DEF WaitInv

\* A collector that leaves its scan or its batch knows nothing of a scan.
LEMMA Leaves ==
    ASSUME WaitInv, DbOK, ColOK, Lasting, UNCHANGED <<result, verdict, mode, todo, waited>>,
           NEW c \in Collectors, pc[c] # "idle", NextScan(c)
    PROVE  WaitInv'
<1>1. OthersStill(c)
  BY Zenon DEF OthersStill, NextScan, ColOK
<1>2. timeout'[c] = {} /\ cur'[c] = NoScan /\ pc'[c] \in {"pick", "ack"}
  BY Zenon DEF NextScan, ColOK
<1>3. WaitOK(c) /\ todo[c] \subseteq Scans
  BY Zenon DEF WaitInv, ColOK
<1>4. WaitOK(c)'
  BY <1>2, <1>3, Zenon DEF WaitOK, Lasting, AtScan
<1>5. QED
  BY <1>1, <1>4, OneMoves, Zenon

\* Rows and switches that nobody touches last.
LEMMA StillLasting == UNCHANGED <<wait, result, toggle>> => Lasting
BY Zenon DEF Lasting, Off

\* A tick or a sweep starts: a sweep takes scans whose wait is over, and both
\* wait for every engine that is not switched off.
LEMMA StartsWait ==
    ASSUME WaitInv, DbOK, ColOK, EnvOK, NEW c \in Collectors, Tick(c) \/ Sweep(c)
    PROVE  WaitInv'
<1>1. UNCHANGED <<wait, result, verdict, toggle, cur, timeout>>
  BY Zenon DEF Tick, Sweep, dbVars, envVars
<1>2. Lasting
  BY <1>1, StillLasting, Zenon
<1>3. /\ pc[c] = "idle" /\ pc' = [pc EXCEPT ![c] = "pick"]
      /\ waited' = [waited EXCEPT ![c] = Sandbox \ Disabled]
      /\ mode'[c] = "force" => todo'[c] = Overdue
      /\ \A d \in Collectors \ {c} : mode'[d] = mode[d] /\ todo'[d] = todo[d]
  <2>1. CASE Sweep(c)
    BY <2>1, Zenon DEF Sweep, View, ColOK
  <2>2. CASE Tick(c)
    BY <2>2, ZenonT(30) DEF Tick, View, ColOK
  <2>3. QED
    BY <2>1, <2>2, Zenon
<1>4. OthersStill(c)
  BY <1>1, <1>3, Zenon DEF OthersStill, ColOK
<1>5. WaitOK(c)'
  <2>1. pc'[c] = "pick" /\ waited'[c] = Sandbox \ Disabled /\ timeout'[c] = timeout[c]
    BY <1>1, <1>3, Zenon DEF ColOK
  <2>2. mode'[c] = "force" => todo'[c] = Overdue
    BY <1>3, Zenon
  <2>3. timeout[c] = {} /\ cur'[c] = NoScan
    BY <1>1, <1>3, Zenon DEF WaitInv, WaitOK, AtScan
  <2>4. \A x \in Sandbox : x \in waited'[c] \/ Off(x)'
    BY <1>1, <2>1, Zenon DEF Disabled, Off
  <2>5. \A s \in Overdue : wait'[s] = "expired"
    BY <1>1, Zenon DEF Overdue
  <2>6. QED
    BY <2>1, <2>2, <2>3, <2>4, <2>5, Zenon DEF WaitOK, AtScan
<1>6. QED
  BY <1>1, <1>2, <1>4, <1>5, OneMoves, Zenon

\* A scan is picked, or becomes running, or its dead letter is due.
LEMMA MovesOn ==
    ASSUME WaitInv, DbOK, ColOK, NEW c \in Collectors,
           \/ Pick(c) \/ MarkRunning(c) \/ AckResult(c)
           \/ DeadCheck(c) /\ job[cur[c]] \in Unscored
    PROVE  WaitInv'
<1>1. UNCHANGED <<wait, result, verdict, toggle, mode, waited, timeout>>
  BY Zenon DEF Pick, MarkRunning, AckResult, DeadCheck, dbVars, envVars
<1>2. Lasting
  BY <1>1, StillLasting, Zenon
<1>3. WaitOK(c) /\ todo[c] \subseteq Scans /\ (pc[c] \in AtScan => cur[c] \in Scans)
  BY Zenon DEF WaitInv, ColOK
<1>4. CASE Pick(c)
  <2>1. PICK s \in todo[c], p \in {"score", "deadCheck", "mark"} :
            /\ cur' = [cur EXCEPT ![c] = s] /\ pc' = [pc EXCEPT ![c] = p]
            /\ todo' = [todo EXCEPT ![c] = @ \ {s}]
    BY <1>4, ZenonT(30) DEF Pick
  <2>2. pc[c] = "pick" /\ timeout[c] = {}
    BY <1>3, <1>4, Zenon DEF Pick, WaitOK
  <2>3. cur'[c] = s /\ pc'[c] = p /\ todo'[c] = todo[c] \ {s}
    BY <2>1, ZenonT(30) DEF ColOK
  <2>4. OthersStill(c)
    BY <1>1, <2>1, Zenon DEF OthersStill, ColOK
  <2>5. WaitOK(c)'
    BY <1>1, <1>3, <2>1, <2>2, <2>3, ZenonT(30) DEF WaitOK, Off, AtScan
  <2>6. QED
    BY <1>1, <1>2, <2>4, <2>5, OneMoves, ZenonT(30)
<1>5. CASE ~Pick(c)
  <2>1. UNCHANGED <<cur, todo>>
    BY <1>5, Zenon DEF MarkRunning, AckResult, DeadCheck
  <2>2. \/ pc' = pc /\ pc[c] = "ack"
        \/ pc[c] = "mark" /\ pc' = [pc EXCEPT ![c] = "score"]
        \/ pc[c] = "deadCheck" /\ pc' = [pc EXCEPT ![c] = "gateDead"]
    BY <1>5, ZenonT(30) DEF MarkRunning, AckResult, DeadCheck
  <2>3. /\ timeout[c] = {} /\ pc[c] # "idle" /\ pc'[c] # "gateScore"
        /\ pc'[c] \in AtScan <=> pc[c] \in AtScan
    BY <1>3, <2>2, ZenonT(30) DEF WaitOK, ColOK, AtScan
  <2>4. OthersStill(c)
    BY <1>1, <2>1, <2>2, Zenon DEF OthersStill, ColOK
  <2>5. WaitOK(c)'
    BY <1>1, <1>3, <2>1, <2>3, ZenonT(30) DEF WaitOK, Off
  <2>6. QED
    BY <1>1, <1>2, <2>4, <2>5, OneMoves, Zenon
<1>6. QED
  BY <1>4, <1>5, ZenonT(30)

\* The collector is done with its scan, or forgets its batch.
LEMMA LeavesScan ==
    ASSUME WaitInv, DbOK, ColOK, NEW c \in Collectors,
           \/ Score(c) /\ ~WriteResult(c)
           \/ (GateScore(c) \/ GateDead(c)) /\ HasVerdict(cur[c])
           \/ MarkDecided(c) \/ MarkFailed(c) \/ ScanFails(c)
           \/ DeadCheck(c) /\ job[cur[c]] \notin Unscored
           \/ EndTick(c) \/ CollectorDies(c)
    PROVE  WaitInv'
<1>1. CASE EndTick(c) \/ CollectorDies(c)
  <2>1. Forget(c)
    BY <1>1, Zenon DEF EndTick, CollectorDies
  <2>2. UNCHANGED <<wait, result, verdict, toggle>>
    BY <2>1, ZenonT(30) DEF Forget, dbVars, envVars
  <2>3. Lasting
    BY <2>2, StillLasting, ZenonT(30)
  <2>4. OthersStill(c)
    BY <2>1, <2>2, ZenonT(30) DEF Forget, OthersStill, ColOK
  <2>5. pc'[c] = "idle" /\ timeout'[c] = {} /\ mode'[c] = "tick" /\ cur'[c] = NoScan
    BY <2>1, Zenon DEF Forget, ColOK
  <2>6. WaitOK(c)'
    BY <2>5, ZenonT(30) DEF WaitOK
  <2>7. QED
    BY <2>2, <2>3, <2>4, <2>6, OneMoves, ZenonT(30)
<1>2. CASE Score(c) /\ ~WriteResult(c)
  <2>1. NextScan(c) /\ pc[c] = "score" /\ UNCHANGED <<result, verdict, mode, todo, waited, toggle>>
    BY <1>2, Zenon DEF Score, GiveUp, StartWait, envVars
  <2>2. \A s \in Scans : wait[s] = "expired" => wait'[s] = "expired"
    <3>1. CASE GiveUp(c)
      BY <3>1, ZenonT(30) DEF GiveUp
    <3>2. CASE StartWait(c)
      BY <3>2, ZenonT(30) DEF StartWait, DbOK
    <3>3. QED
      BY <1>2, <3>1, <3>2, ZenonT(30) DEF Score
  <2>3. Lasting
    BY <2>1, <2>2, ZenonT(30) DEF Lasting, Off
  <2>4. QED
    BY <2>1, <2>3, Leaves, ZenonT(30)
<1>3. CASE \/ (GateScore(c) \/ GateDead(c)) /\ HasVerdict(cur[c])
           \/ MarkDecided(c) \/ MarkFailed(c) \/ ScanFails(c)
           \/ DeadCheck(c) /\ job[cur[c]] \notin Unscored
  <2>1. UNCHANGED <<wait, result, verdict, toggle, mode, todo, waited>>
    BY <1>3, ZenonT(30) DEF GateScore, GateDead, Gate, MarkDecided, MarkFailed, ScanFails, DeadCheck,
                dbVars, envVars
  <2>2. NextScan(c)
    BY <1>3, Zenon DEF GateScore, GateDead, Gate, Raise, MarkDecided, MarkFailed, ScanFails, DeadCheck
  <2>3. pc[c] # "idle"
    <3>1. CASE ScanFails(c)
      BY <3>1, ZenonT(30) DEF ScanFails, WaitInv, WaitOK, AtScan
    <3>2. CASE ~ScanFails(c)
      BY <1>3, <3>2, Zenon DEF GateScore, GateDead, MarkDecided, MarkFailed, DeadCheck
    <3>3. QED
      BY <3>1, <3>2, ZenonT(30)
  <2>4. QED
    BY <2>1, <2>2, <2>3, StillLasting, Leaves, ZenonT(30)
<1>4. QED
  BY <1>1, <1>2, <1>3, ZenonT(30)

\* The result row: the engines that are missing are those a forced decision
\* names, or they are switched off.
LEMMA ResultWait ==
    ASSUME WaitInv, RowsInv, DbOK, ColOK, NEW c \in Collectors, Score(c), WriteResult(c)
    PROVE  WaitInv'
<1>1. PICK s \in Scans : s = cur[c] /\ job[s] \in Unscored /\ pc[c] = "score"
  BY ZenonT(30) DEF Score, WriteResult, ColOK, AtScan
<1>2. PICK n : /\ n = [scan |-> s, missing |-> (req[c] \cup Sandbox) \ Reported(s)]
               /\ result' = result \cup {n}
  BY <1>1, Zenon DEF WriteResult
<1>3. n.scan = s /\ n.missing = Sandbox \ Reported(s)
  <2>1. req[c] \subseteq Reported(s)
    BY <1>1, Zenon DEF WriteResult
  <2>2. QED
    BY <1>2, <2>1, Zenon
<1>4. UNCHANGED <<wait, cur, verdict, toggle, mode, todo, waited>>
  BY Zenon DEF Score, WriteResult, envVars
<1>5. /\ pc' = [pc EXCEPT ![c] = "gateScore"] /\ pc'[c] = "gateScore"
      /\ timeout' = [timeout EXCEPT ![c] = waited[c] \ Reported(s)]
      /\ timeout'[c] = waited[c] \ Reported(s)
  BY <1>1, ZenonT(30) DEF WriteResult, ColOK
<1>6. Lasting
  BY <1>2, <1>4, ZenonT(30) DEF Lasting, Off
<1>7. \A r \in result : r.scan # s
  BY <1>1, Zenon DEF RowsInv, RowsOK, HasResult, Unscored
<1>8. OthersStill(c)
  <2>1. ASSUME NEW d \in Collectors, pc[d] = "gateScore" PROVE cur[d] # s
    BY <1>1, <2>1, ZenonT(30) DEF RowsInv, StageOK, Unscored
  <2>2. \A r \in result' : r.scan # s => r \in result
    BY <1>2, <1>3, Zenon
  <2>3. QED
    BY <1>4, <1>5, <2>1, <2>2, ZenonT(30) DEF OthersStill, ColOK
<1>9. WaitOK(c)
  BY ZenonT(30) DEF WaitInv
<1>10. timeout'[c] # {} => wait[s] = "expired"
  <2>1. timeout'[c] # {} => mode[c] = "force"
    BY <1>1, <1>5, ZenonT(30) DEF WriteResult
  <2>2. QED
    BY <1>1, <1>9, <2>1, Zenon DEF WaitOK, AtScan
<1>11. timeout'[c] \subseteq n.missing
  BY <1>3, <1>5, ZenonT(30) DEF ColOK
<1>12. \A x \in n.missing : x \in timeout'[c] \/ (x \in Sandbox /\ Off(x)')
  BY <1>1, <1>3, <1>4, <1>5, <1>9, ZenonT(30) DEF WaitOK, Off
<1>13. WaitOK(c)'
  <2>1. /\ mode'[c] = "force" => \A q \in todo'[c] : wait'[q] = "expired"
        /\ mode'[c] = "force" => wait'[cur'[c]] = "expired"
        /\ \A x \in Sandbox : x \in waited'[c] \/ Off(x)'
    BY <1>1, <1>4, <1>9, ZenonT(30) DEF WaitOK, AtScan, Off
  <2>2. \A r \in result' : r.scan = s => r = n
    BY <1>2, <1>7, ZenonT(30)
  <2>3. QED
    BY <1>1, <1>2, <1>3, <1>4, <1>5, <1>10, <1>11, <1>12, <2>1, <2>2, ZenonT(30) DEF WaitOK, AtScan
<1>14. TimeoutOnlyAfterWait'
  BY <1>2, <1>4, Zenon DEF WaitInv, TimeoutOnlyAfterWait
<1>15. Explained'
  <2>1. \A v \in verdict : v.src = "score" => v.scan # s
    BY <1>1, Zenon DEF RowsInv, RowsOK, Scored, Unscored
  <2>2. QED
    BY <1>2, <1>3, <1>4, <2>1, ZenonT(60) DEF WaitInv, Explained, Off
<1>16. QED
  BY <1>6, <1>8, <1>13, <1>14, <1>15, OthersKeep, ZenonT(30) DEF WaitInv

\* The verdict is recorded, with the engines that the result row goes without.
LEMMA VerdictWait ==
    ASSUME WaitInv, DbOK, ColOK, NEW c \in Collectors, GateScore(c) \/ GateDead(c),
           ~HasVerdict(cur[c])
    PROVE  WaitInv'
<1>1. PICK source, next :
          /\ Gate(c, source, next)
          /\ \/ pc[c] = "gateScore" /\ source = "score" /\ next = "decide"
             \/ pc[c] = "gateDead" /\ source = "deadletter" /\ next = "markFailed"
  BY Zenon DEF GateScore, GateDead
<1>2. PICK n : /\ n = [scan |-> cur[c], src |-> source, timeout |-> timeout[c]]
               /\ verdict' = verdict \cup {n}
  BY <1>1, ZenonT(30) DEF Gate
<1>3. n.scan = cur[c] /\ n.src = source /\ n.timeout = timeout[c]
  BY <1>2, Zenon
<1>4. UNCHANGED <<wait, result, toggle, mode, todo, waited, cur, timeout>>
      /\ pc' = [pc EXCEPT ![c] = next]
  BY <1>1, Zenon DEF Gate, GateScore, GateDead, envVars
<1>5. WaitOK(c)
  BY Zenon DEF WaitInv
<1>6. Lasting /\ OthersStill(c)
  BY <1>4, StillLasting, ZenonT(30) DEF OthersStill, ColOK
<1>7. WaitOK(c)'
  <2>1. pc'[c] = next /\ next \in AtScan /\ pc[c] \in AtScan /\ pc[c] # "idle"
    BY <1>1, <1>4, ZenonT(30) DEF ColOK, AtScan
  <2>2. next # "gateScore" /\ (timeout[c] # {} => next = "decide")
    BY <1>1, <1>5, ZenonT(30) DEF WaitOK
  <2>3. QED
    BY <1>4, <1>5, <2>1, <2>2, Zenon DEF WaitOK, Off
<1>8. TimeoutOnlyAfterWait'
  <2> SUFFICES ASSUME NEW v \in verdict', v.timeout # {}
               PROVE  /\ wait[v.scan] = "expired"
                      /\ \E r \in result : r.scan = v.scan /\ v.timeout \subseteq r.missing
    BY <1>4, ZenonT(30) DEF TimeoutOnlyAfterWait
  <2>1. CASE v \in verdict
    BY <2>1, ZenonT(30) DEF WaitInv, TimeoutOnlyAfterWait
  <2>2. CASE v = n
    BY <1>3, <1>5, <2>2, ZenonT(30) DEF WaitOK
  <2>3. QED
    BY <1>2, <2>1, <2>2, ZenonT(30)
<1>9. Explained'
  <2> SUFFICES ASSUME NEW v \in verdict', NEW r \in result, v.scan = r.scan, v.src = "score",
                      NEW x \in r.missing
               PROVE  x \in v.timeout \/ (x \in Sandbox /\ Off(x))
    BY <1>4, Zenon DEF Explained, Off
  <2>1. CASE v \in verdict
    BY <2>1, ZenonT(30) DEF WaitInv, Explained
  <2>2. CASE v = n
    <3>1. pc[c] = "gateScore"
      BY <1>1, <1>3, <2>2, ZenonT(30)
    <3>2. QED
      BY <1>3, <1>5, <2>2, <3>1, ZenonT(30) DEF WaitOK
  <2>3. QED
    BY <1>2, <2>1, <2>2, ZenonT(30)
<1>10. QED
  BY <1>6, <1>7, <1>8, <1>9, OthersKeep, ZenonT(30) DEF WaitInv

\* Every step of a collector
LEMMA CollectorWait ==
    ASSUME WaitInv, RowsInv, Typed, NEW c \in Collectors,
           Tick(c) \/ Sweep(c) \/ CollectorStep(c) \/ ScanFails(c) \/ CollectorDies(c)
    PROVE  WaitInv'
<1> USE TypedParts
<1>1. CASE Tick(c) \/ Sweep(c)
  BY <1>1, StartsWait, Zenon
<1>2. CASE Pick(c) \/ MarkRunning(c) \/ AckResult(c)
  BY <1>2, MovesOn, ZenonT(30)
<1>3. CASE DeadCheck(c)
  BY <1>3, MovesOn, LeavesScan, ZenonT(30)
<1>4. CASE Score(c)
  BY <1>4, LeavesScan, ResultWait, Zenon
<1>5. CASE GateScore(c) \/ GateDead(c)
  BY <1>5, LeavesScan, VerdictWait, ZenonT(30)
<1>6. CASE MarkDecided(c) \/ MarkFailed(c) \/ ScanFails(c) \/ EndTick(c) \/ CollectorDies(c)
  BY <1>6, LeavesScan, Zenon
<1>7. QED
  BY <1>1, <1>2, <1>3, <1>4, <1>5, <1>6, Zenon DEF CollectorStep

\* The steps of everybody else: time lets a wait expire, an administrator
\* switches an engine off, and neither is undone.
LEMMA OtherWait ==
    ASSUME WaitInv, Typed,
           \/ \E s \in Scans : \/ Submit(s) \/ Commit(s) \/ Rollback(s) \/ Rescan(s)
                               \/ SweepQueued(s) \/ WaitExpires(s)
           \/ ApplyPolicy
           \/ \E x \in Switchable : ToggleEngine(x)
           \/ \E g \in Groups, m \in ScanMsgs : ScanMsgGoesIdle(g, m)
           \/ \E m \in ResMsgs : ResMsgGoesIdle(m)
           \/ \E w \in Workers : WorkerStep(w) \/ JobFails(w) \/ WorkerDies(w)
           \/ UNCHANGED vars
    PROVE  WaitInv'
<1> USE TypedParts
<1>1. CASE \E s \in Scans : WaitExpires(s)
  <2>1. PICK s \in Scans : WaitExpires(s)
    BY <1>1, Zenon
  <2>2. UNCHANGED <<result, verdict, toggle, colVars>>
    BY <2>1, Zenon DEF WaitExpires, envVars
  <2>3. \A q \in Scans : wait[q] = "expired" => wait'[q] = "expired"
    BY <2>1, Zenon DEF WaitExpires, DbOK
  <2>4. QED
    BY <2>2, <2>3, StandsStill, Zenon DEF Lasting, Off
<1>2. CASE \E x \in Switchable : ToggleEngine(x)
  <2>1. PICK x \in Switchable : ToggleEngine(x)
    BY <1>2, Zenon
  <2>2. UNCHANGED <<wait, result, verdict, colVars>>
    BY <2>1, Zenon DEF ToggleEngine, dbVars
  <2>3. \A y \in Sandbox : Off(y) => Off(y)'
    BY <2>1, Zenon DEF ToggleEngine, EnvOK, Off
  <2>4. QED
    BY <2>2, <2>3, StandsStill, Zenon DEF Lasting
<1>3. CASE \E s \in Scans : Submit(s) \/ Commit(s) \/ Rollback(s) \/ Rescan(s) \/ SweepQueued(s)
  <2>1. UNCHANGED <<wait, result, verdict, toggle, colVars>>
    BY <1>3, ZenonT(30) DEF Submit, Commit, Rollback, Rescan, SweepQueued, dbVars, envVars
  <2>2. QED
    BY <2>1, StandsStill, StillLasting, Zenon
<1>4. CASE \/ ApplyPolicy
           \/ \E g \in Groups, m \in ScanMsgs : ScanMsgGoesIdle(g, m)
           \/ \E m \in ResMsgs : ResMsgGoesIdle(m)
           \/ \E w \in Workers : WorkerStep(w) \/ JobFails(w) \/ WorkerDies(w)
           \/ UNCHANGED vars
  <2>1. UNCHANGED <<wait, result, verdict, toggle, colVars>>
    BY <1>4, ZenonT(30) DEF ApplyPolicy, ScanMsgGoesIdle, ResMsgGoesIdle, WorkerStep, Claim,
           FloorTake, SandTake, PutBlob, SendResult, AckJob, JobFails, WorkerDies, vars,
           dbVars, envVars
  <2>2. QED
    BY <2>1, StandsStill, StillLasting
<1>5. QED
  BY <1>1, <1>2, <1>3, <1>4, ZenonT(30)

\* The invariant holds throughout.
LEMMA WaitAlways == Spec => [](Typed /\ WaitInv)
<1>1. ASSUME WaitInv, RowsInv, Typed, [Next]_vars PROVE WaitInv'
  <2>1. CASE Rest
    BY <1>1, <2>1, OtherWait, Zenon DEF Rest
  <2>2. QED
    BY <1>1, <2>1, OtherWait, CollectorWait, Zenon DEF Next
<1>2. QED
  BY <1>1, InitWait, RowsAlways, PTL DEF Spec

\* A verdict of _try_score_and_decide names a sandbox_wait_timeout only after
\* the recorded wait of its scan ran out, and only for engines that the health
\* rows have as not reported, whatever ticks and sweeps of other replicas do.
THEOREM TimeoutsAreTrue == Spec => []TimeoutOnlyAfterWait
<1>1. WaitInv => TimeoutOnlyAfterWait
  BY ZenonT(30) DEF WaitInv
<1>2. QED
  BY <1>1, WaitAlways, PTL

\* An engine whose findings a scored verdict lacks is named in its reasons, or
\* an administrator had switched it off: the reason that _try_score_and_decide
\* adds leaves no downgrade unexplained.
THEOREM DowngradesAreNamed == Spec => []NoSilentDowngrade
<1>1. WaitInv => NoSilentDowngrade
  BY Zenon DEF WaitInv, Explained, NoSilentDowngrade, Off
<1>2. QED
  BY <1>1, WaitAlways, PTL

(***************************************************************************)
(* ScanPipeline implements ScanLedger.                                     *)
(***************************************************************************)

\* One scan makes a step of the ledger, the others stand still.
LEMMA LedgerMove ==
    ASSUME NEW s \in Scans,
           \A t \in Scans \ {s} : StateOf(t)' = StateOf(t) /\ IssuedFor(t)' = IssuedFor(t),
           \/ StateOf(s)' = StateOf(s) /\ IssuedFor(s)' = IssuedFor(s)
           \/ /\ IssuedFor(s)' = IssuedFor(s)
              /\ \/ StateOf(s) = "none" /\ StateOf(s)' = "open"
                 \/ StateOf(s) = "open" /\ StateOf(s)' = "scored"
                 \/ StateOf(s) = "scored" /\ IssuedFor(s) = "score" /\ StateOf(s)' = "decided"
                 \/ StateOf(s) = "open" /\ IssuedFor(s) = "deadletter" /\ StateOf(s)' = "failed"
           \/ /\ StateOf(s)' = StateOf(s) /\ IssuedFor(s) = "none"
              /\ \/ StateOf(s) = "scored" /\ IssuedFor(s)' = "score"
                 \/ StateOf(s) \in {"open", "scored"} /\ IssuedFor(s)' = "deadletter"
    PROVE  [Ledger!LedgerNext]_(Ledger!lvars)
  <1> DEFINE st == [t \in Scans |-> StateOf(t)]
  <1> DEFINE is == [t \in Scans |-> IssuedFor(t)]
  <1>1. CASE StateOf(s)' = StateOf(s) /\ IssuedFor(s)' = IssuedFor(s)
    <2>1. st' = st /\ is' = is
      BY <1>1, Zenon
    <2> QED
      BY <2>1, Zenon DEF Ledger!lvars
  <1>2. CASE IssuedFor(s)' = IssuedFor(s) /\ StateOf(s)' # StateOf(s)
    <2>1. is' = is /\ st' = [st EXCEPT ![s] = StateOf(s)']
      BY <1>2, Zenon
    <2>2. \/ Ledger!Open(s) \/ Ledger!RecordResult(s)
          \/ Ledger!CloseDecided(s) \/ Ledger!CloseFailed(s)
      BY <1>2, <2>1, Zenon DEF Ledger!Open, Ledger!RecordResult, Ledger!CloseDecided,
                        Ledger!CloseFailed
    <2> QED
      BY <2>2, Zenon DEF Ledger!LedgerNext
  <1>3. CASE StateOf(s)' = StateOf(s) /\ IssuedFor(s)' # IssuedFor(s)
    <2>1. st' = st /\ is' = [is EXCEPT ![s] = IssuedFor(s)']
      BY <1>3, Zenon
    <2>2. Ledger!IssueScored(s) \/ Ledger!IssueDeadLetter(s)
      BY <1>3, <2>1, Zenon DEF Ledger!IssueScored, Ledger!IssueDeadLetter
    <2> QED
      BY <2>2, Zenon DEF Ledger!LedgerNext
  <1> QED
    BY <1>1, <1>2, <1>3, Zenon

\* A step that writes neither scan_job.state nor verdict is a stutter.
LEMMA LedgerStill ==
    ASSUME UNCHANGED <<job, verdict>>
    PROVE  [Ledger!LedgerNext]_(Ledger!lvars)
  <1>1. \A s \in Scans : StateOf(s)' = StateOf(s) /\ IssuedFor(s)' = IssuedFor(s)
    BY Zenon DEF StateOf, IssuedFor, HasVerdict
  <1>2. /\ [s \in Scans |-> StateOf(s)]' = [s \in Scans |-> StateOf(s)]
        /\ [s \in Scans |-> IssuedFor(s)]' = [s \in Scans |-> IssuedFor(s)]
    BY <1>1, Zenon
  <1> QED
    BY <1>2, Zenon DEF Ledger!lvars

\* A step that writes the state of one scan.
LEMMA LedgerState ==
    ASSUME DbOK, NEW s \in Scans, NEW x \in JobStates,
           job' = [job EXCEPT ![s] = x], UNCHANGED verdict,
           \/ x = job[s]
           \/ ~ HasRow(s) /\ x \in {"uncommitted", "rolledback", "queued"}
           \/ job[s] \in Unscored /\ x \in {"running", "scored"}
           \/ job[s] = "scored" /\ x = "decided" /\ IssuedFor(s) = "score"
           \/ job[s] \in Unscored /\ x = "failed" /\ IssuedFor(s) = "deadletter"
    PROVE  [Ledger!LedgerNext]_(Ledger!lvars)
  <1>1. \A t \in Scans : IssuedFor(t)' = IssuedFor(t)
    BY Zenon DEF IssuedFor, HasVerdict
  <1>2. \A t \in Scans \ {s} : StateOf(t)' = StateOf(t)
    BY Zenon DEF StateOf, DbOK
  <1>3. job'[s] = x /\ job[s] \in JobStates
    BY Zenon DEF DbOK
  <1>4. \/ StateOf(s)' = StateOf(s)
        \/ StateOf(s) = "none" /\ StateOf(s)' = "open"
        \/ StateOf(s) = "open" /\ StateOf(s)' = "scored"
        \/ StateOf(s) = "scored" /\ IssuedFor(s) = "score" /\ StateOf(s)' = "decided"
        \/ StateOf(s) = "open" /\ IssuedFor(s) = "deadletter" /\ StateOf(s)' = "failed"
    BY <1>3, Zenon DEF StateOf, Unscored, HasRow, JobStates
  <1> QED
    BY <1>1, <1>2, <1>4, LedgerMove, Zenon

\* A step of the gate: the verdict of one scan is issued.
LEMMA LedgerVerdict ==
    ASSUME RowsInv, DbOK, ColOK, NEW c \in Collectors, ~ HasVerdict(cur[c]),
           NEW source, NEW next, Gate(c, source, next),
           \/ pc[c] = "gateScore" /\ source = "score"
           \/ pc[c] = "gateDead" /\ source = "deadletter",
           UNCHANGED job
    PROVE  [Ledger!LedgerNext]_(Ledger!lvars)
  <1>0. PICK s \in Scans : s = cur[c]
    BY Zenon DEF ColOK, AtScan
  <1> DEFINE row == [scan |-> cur[c], src |-> source, timeout |-> timeout[c]]
  <1>1. verdict' = verdict \cup {row} /\ row.scan = s /\ row.src = source
    BY <1>0, Zenon DEF Gate
  <1> HIDE DEF row
  <1>2. \A t \in Scans : StateOf(t)' = StateOf(t)
    BY Zenon DEF StateOf
  <1>3. \A t \in Scans \ {s} : IssuedFor(t)' = IssuedFor(t)
    BY <1>1, Zenon DEF IssuedFor, HasVerdict
  <1>4. ~ HasVerdict(s) /\ IssuedFor(s) = "none" /\ IssuedFor(s)' = source
    BY <1>0, <1>1, Zenon DEF IssuedFor, HasVerdict
  <1>5. RowsOK(s) /\ StageOK(c)
    BY Zenon DEF RowsInv
  <1>6. job[s] # "decided" /\ job[s] # "failed"
    BY <1>4, <1>5, Zenon DEF RowsOK, HasVerdict, Scored, DeadLettered
  <1>7. /\ source = "score" => StateOf(s) = "scored"
        /\ source = "deadletter" => StateOf(s) \in {"open", "scored"}
    BY <1>0, <1>5, <1>6, Zenon DEF StageOK, StateOf, HasRow, Unscored
  <1> QED
    BY <1>2, <1>3, <1>4, <1>7, LedgerMove, Zenon

\* The path recorded in the verdict of a scan is the one the ledger shows.
LEMMA IssuedPath ==
    ASSUME RowsInv, DbOK, NEW s \in Scans
    PROVE  /\ Scored(s) => IssuedFor(s) = "score"
           /\ DeadLettered(s) => IssuedFor(s) = "deadletter"
  BY Zenon DEF RowsInv, OneVerdictPerScan, IssuedFor, HasVerdict, Scored, DeadLettered, DbOK

\* Every step of the pipeline is a step of the ledger or a stutter.
LEMMA NextLedger ==
    ASSUME Typed, RowsInv, [Next]_vars
    PROVE  [Ledger!LedgerNext]_(Ledger!lvars)
  <1> USE TypedParts
  <1>1. CASE UNCHANGED <<job, verdict>>
    BY <1>1, LedgerStill, Zenon
  <1>2. ASSUME NEW s \in Scans, Submit(s) \/ Commit(s) \/ Rollback(s) \/ Rescan(s)
        PROVE  [Ledger!LedgerNext]_(Ledger!lvars)
    <2>1. PICK x \in {"uncommitted", "queued", "rolledback"} :
            job' = [job EXCEPT ![s] = x]
      BY <1>2, Zenon DEF Submit, Commit, Rollback, Rescan
    <2>2. ~ HasRow(s) /\ UNCHANGED verdict
      BY <1>2, Zenon DEF Submit, Commit, Rollback, Rescan, HasRow
    <2> QED
      BY <2>1, <2>2, LedgerState, Zenon DEF JobStates
  <1>3. ASSUME NEW c \in Collectors,
               \/ MarkRunning(c) \/ MarkDecided(c) \/ MarkFailed(c)
               \/ pc[c] = "score" /\ WriteResult(c) /\ UNCHANGED verdict
        PROVE  [Ledger!LedgerNext]_(Ledger!lvars)
    <2>1. PICK s \in Scans : s = cur[c]
      BY <1>3, Zenon DEF MarkRunning, MarkDecided, MarkFailed, ColOK, AtScan
    <2>2. job[s] \in JobStates /\ UNCHANGED verdict
      BY <1>3, Zenon DEF MarkRunning, MarkDecided, MarkFailed, DbOK
    <2>3. CASE MarkRunning(c)
      <3>1. job' = [job EXCEPT ![s] = IF job[s] = "queued" THEN "running" ELSE job[s]]
        BY <2>1, <2>3, Zenon DEF MarkRunning, DbOK
      <3> QED
        BY <2>2, <3>1, LedgerState, Zenon DEF JobStates, Unscored
    <2>4. CASE MarkDecided(c)
      <3>1. job' = [job EXCEPT ![s] = IF job[s] = "scored" THEN "decided" ELSE job[s]]
        BY <2>1, <2>4, Zenon DEF MarkDecided, DbOK
      <3>2. IssuedFor(s) = "score"
        BY <2>1, <2>4, IssuedPath, Zenon DEF MarkDecided, RowsInv, StageOK
      <3> QED
        BY <2>2, <3>1, <3>2, LedgerState, Zenon DEF JobStates
    <2>5. CASE MarkFailed(c)
      <3>1. job' = [job EXCEPT ![s] = IF job[s] \in Unscored THEN "failed" ELSE job[s]]
        BY <2>1, <2>5, Zenon DEF MarkFailed, DbOK
      <3>2. IssuedFor(s) = "deadletter"
        BY <2>1, <2>5, IssuedPath, Zenon DEF MarkFailed, RowsInv, StageOK
      <3> QED
        BY <2>2, <3>1, <3>2, LedgerState, ZenonT(30) DEF JobStates
    <2>6. CASE WriteResult(c)
      BY <2>1, <2>2, <2>6, LedgerState, Zenon DEF WriteResult, JobStates
    <2> QED
      BY <1>3, <2>3, <2>4, <2>5, <2>6, Zenon
  <1>4. ASSUME NEW c \in Collectors, GateScore(c) \/ GateDead(c)
        PROVE  [Ledger!LedgerNext]_(Ledger!lvars)
    <2>1. PICK source, next :
            /\ Gate(c, source, next)
            /\ \/ pc[c] = "gateScore" /\ source = "score"
               \/ pc[c] = "gateDead" /\ source = "deadletter"
      BY <1>4, Zenon DEF GateScore, GateDead
    <2>2. UNCHANGED job
      BY <1>4, Zenon DEF GateScore, GateDead
    <2>3. CASE HasVerdict(cur[c])
      BY <1>1, <2>1, <2>2, <2>3, Zenon DEF Gate
    <2>4. CASE ~ HasVerdict(cur[c])
      BY <2>1, <2>2, <2>4, LedgerVerdict, Zenon
    <2> QED
      BY <2>3, <2>4, Zenon
  <1>5. ASSUME NEW c \in Collectors,
               \/ Tick(c) \/ Sweep(c) \/ Pick(c) \/ DeadCheck(c) \/ AckResult(c) \/ EndTick(c)
               \/ ScanFails(c) \/ CollectorDies(c)
               \/ Score(c) /\ (GiveUp(c) \/ StartWait(c))
        PROVE  [Ledger!LedgerNext]_(Ledger!lvars)
    BY <1>1, <1>5, Zenon DEF Tick, Sweep, Pick, DeadCheck, AckResult, EndTick, ScanFails,
                      CollectorDies, Forget, Score, GiveUp, StartWait, dbVars
  <1>6. ASSUME \/ ApplyPolicy \/ Rest \/ UNCHANGED vars
               \/ \E s \in Scans : SweepQueued(s) \/ WaitExpires(s)
               \/ \E x \in Switchable : ToggleEngine(x)
               \/ \E g \in Groups, m \in ScanMsgs : ScanMsgGoesIdle(g, m)
               \/ \E m \in ResMsgs : ResMsgGoesIdle(m)
               \/ \E w \in Workers : WorkerStep(w) \/ JobFails(w) \/ WorkerDies(w)
        PROVE  [Ledger!LedgerNext]_(Ledger!lvars)
    <2>1. UNCHANGED <<job, verdict>>
      BY <1>6, ZenonT(30) DEF ApplyPolicy, Rest, SweepQueued, WaitExpires, ToggleEngine, ScanMsgGoesIdle,
             ResMsgGoesIdle, WorkerStep, Claim, FloorTake, SandTake, PutBlob, SendResult,
             AckJob, JobFails, WorkerDies, vars, dbVars
    <2> QED
      BY <1>1, <2>1, Zenon
  <1>7. \A c \in Collectors : Score(c) =>
          \/ GiveUp(c) \/ StartWait(c)
          \/ pc[c] = "score" /\ WriteResult(c) /\ UNCHANGED verdict
    BY Zenon DEF Score
  <1> QED
    BY <1>2, <1>3, <1>4, <1>5, <1>6, <1>7, Zenon DEF Next, CollectorStep

\* The detailed pipeline implements the ledger: for any number of replicas and
\* faults, the rows that submit_scan, the collector tick, the wait sweep and the
\* dead-letter path leave behind move only as ScanLedger allows.
THEOREM PipelineImplementsLedger == Spec => ImplementsLedger
  <1>1. Init => Ledger!LedgerInit
    BY DEF Init, Ledger!LedgerInit, StateOf, IssuedFor, HasVerdict, Unscored
  <1>2. Typed /\ RowsInv /\ [Next]_vars => [Ledger!LedgerNext]_(Ledger!lvars)
    BY NextLedger, Zenon
  <1>3. Spec => Init /\ [][Next]_vars
    BY Zenon DEF Spec
  <1> QED
    BY <1>1, <1>2, <1>3, RowsAlways, PTL DEF ImplementsLedger, Ledger!LedgerSpec
============================================================================
