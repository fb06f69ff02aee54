-------------------------- MODULE WaveRunnerProofs --------------------------
(***************************************************************************)
(* What a replay wave credits was proved, and what it started is gone, for *)
(* any number of replays and workers and any number of faults.             *)
(***************************************************************************)
EXTENDS WaveRunner, FiniteSetTheorems, TLAPS

USE WaveAssumption
-----------------------------------------------------------------------------
(* The inductive invariant *)

\* The types of the variables, first the control of the coordinator.
Coordinator ==
  [step: {"preflight", "open", "pool", "seal", "reverse", "exited"},
   failure: BOOLEAN, interrupted: BOOLEAN,
   term: {"none", "term", "kill", "audit", "done", "failed"}, credit: BOOLEAN,
   exit: {"failed", "signal", "pass"} \cup {None}]
\* What the coordinator knows of a replay.
Leaf == {"queued", "running", "js", "python", "stopping", "failed", "completed"}
\* An exit code, once there is one.
Code == Nat \cup {None}
\* A launcher: its step, whether it was told to stop, what it will exit with.
Launcher ==
  [step: {"absent", "verify", "prepare", "record", "identify", "wait", "cleanup", "after",
          "ended"},
   cancelled: BOOLEAN, failed: BOOLEAN, exit: Code]
\* The session of a replay.
Session == Live \cup {"none", "gone"}
\* The evidence of a replay against that of its proof.
Evidence == {"none", "exact", "other", "rewritten"}
\* An output root.
Root ==
  [exists: BOOLEAN, pid: BOOLEAN, before: SUBSET Input, seen: SUBSET Input,
   proofExit: Code, exit: Code, evidence: Evidence, js: Evidence \cup {None},
   python: Evidence \cup {None}]

\* The type invariant.
TypeOK ==
  /\ wave \in {"s1", "row"} /\ drift \subseteq Input /\ faults \in Nat
  /\ coord \in Coordinator
  /\ leaf \in [Replay -> Leaf] /\ runner \in [Replay -> Launcher]
  /\ session \in [Replay -> Session] /\ root \in [Replay -> Root]

\* What holds of one replay: before it is taken there is nothing; a launcher
\* looks at the outcome when the session is gone, and once it has written its own
\* exit code nothing of the replay moves any more.
Job(l, r, s, o, d) ==
  /\ l = "queued" => r.step = "absent" /\ s = "none"
  /\ r.step = "after" => s = "gone"
  /\ o.seen \subseteq d \ {"s1"}
  /\ o.exit \in {0, 1} => r.step = "ended" /\ s = "gone" /\ o.seen \subseteq o.before
  /\ l = "completed" => o.exit \in {0, 1}

\* That holds of all of them.
JobsOK == \A j \in Replay : Job(leaf[j], runner[j], session[j], root[j], drift)

\* Before the pool opens nothing is taken and after it all is completed; what is
\* taken and not completed never exceeds the workers, because none of them takes
\* another replay when one has failed.
PoolOK ==
  /\ coord.step \in {"preflight", "open"} => \A j \in Replay : leaf[j] = "queued"
  /\ coord.step \in {"seal", "reverse"} => \A j \in Replay : leaf[j] = "completed"
  /\ (\E j \in Replay : leaf[j] \in {"failed", "stopping"}) => coord.failure
  /\ Cardinality(pending) <= MaxHeavy

\* The launchers of the full row are down when they were killed, and the sessions
\* that can be found when the audit is over.
TerminationOK ==
  /\ coord.term # "none" => Closed
  /\ wave = "row" /\ coord.term \in {"kill", "audit", "done"} => \A j \in Replay : ~ Up(j)
  /\ wave = "row" /\ coord.term = "done" =>
       \A j \in Replay : session[j] \in Live => ~ root[j].pid

\* What is left when the coordinator has ended.
EndOK ==
  /\ wave = "row" /\ coord.exit # None /\ coord.term # "failed" =>
       \A j \in Replay : ~ Up(j) /\ (session[j] \in Live => ~ root[j].pid)
  /\ coord.credit => coord.exit # None
  /\ CreditSound

\* The inductive invariant of the waves.
WaveInv == TypeOK /\ JobsOK /\ PoolOK /\ TerminationOK /\ EndOK
-----------------------------------------------------------------------------
(* Launchers and sessions *)

\* Replays are finitely many, and each side calls for exit 0 or 1.
LEMMA Replays ==
  /\ IsFiniteSet(Replay)
  /\ \A j \in Replay : ExpectedExit[j] \in {0, 1} /\ j \in Nat
<1>1. Len(ExpectedExit) \in Nat /\ Replay = 1 .. Len(ExpectedExit)
  BY DEF Replay
<1>2. IsFiniteSet(1 .. Len(ExpectedExit))
  BY <1>1, FS_Interval
<1> QED
  BY <1>1, <1>2

\* A process moves only while the coordinator runs.
LEMMA NextRuns == ASSUME Next PROVE Running
BY DEF Next, Coordinate, Preflight, OpenRoot, PoolEnds, Seal, Credit, Terminate, Escalate,
       auditOwnedProofSessions, AuditEnds, ExitOnSignal, Surroundings, Edit, LauncherKilled,
       Interrupt, Fault, Work, Execute, WorkerStops, LauncherEnded, AnalyzeJs,
       AnalyzePython, Launch, LauncherVerify, LauncherPrepare, LauncherRecord,
       LauncherIdentify, LauncherWait, clearOwnedProcesses, LauncherAfter, LauncherOnly,
       ProofSession, ProofExits, Rewrite, Dies

\* As long as it runs there is nothing to say about its end.
LEMMA EndStays ==
  ASSUME EndOK, Running, coord'.exit = coord.exit, coord'.credit = coord.credit
  PROVE  EndOK'
BY DEF EndOK, Running, CreditSound

\* A launcher or a session moves on.
LEMMA LauncherMoves ==
  ASSUME WaveInv, Running, NEW j \in Replay, NEW r \in Launcher, NEW s \in Session,
         NEW o \in Root, runner' = [runner EXCEPT ![j] = r],
         session' = [session EXCEPT ![j] = s], root' = [root EXCEPT ![j] = o],
         UNCHANGED <<wave, drift, faults, coord, leaf>>,
         Job(leaf[j], r, s, o, drift),
         \/ Up(j)
         \/ /\ r = runner[j] /\ o.pid = root[j].pid
            /\ s \in Live => session[j] \in Live
  PROVE  WaveInv'
<1>1. TypeOK'
  BY DEF WaveInv, TypeOK
<1>2. /\ runner'[j] = r /\ session'[j] = s /\ root'[j] = o
      /\ \A k \in Replay \ {j} : /\ runner'[k] = runner[k] /\ session'[k] = session[k]
                                 /\ root'[k] = root[k]
  BY DEF WaveInv, TypeOK
<1>3. JobsOK'
  <2>1. ASSUME NEW k \in Replay
        PROVE  Job(leaf[k], runner'[k], session'[k], root'[k], drift)
    BY <1>2 DEF WaveInv, JobsOK
  <2> QED
    BY <2>1 DEF JobsOK, Job
<1>4. PoolOK'
  BY DEF WaveInv, PoolOK, pending
<1>5. TerminationOK'
  BY <1>2 DEF WaveInv, TerminationOK, Up, Closed
<1>6. EndOK'
  BY EndStays DEF WaveInv
<1> QED
  BY <1>1, <1>3, <1>4, <1>5, <1>6 DEF WaveInv

\* What is known of one replay.
LEMMA ReplayIs ==
  ASSUME WaveInv, NEW j \in Replay
  PROVE  /\ runner[j] \in Launcher /\ session[j] \in Session /\ root[j] \in Root
         /\ leaf[j] \in Leaf /\ Job(leaf[j], runner[j], session[j], root[j], drift)
         /\ drift \subseteq Input
BY DEF WaveInv, TypeOK, JobsOK

\* Nothing but the launcher moves.
LEMMA OnlyLauncher ==
  ASSUME WaveInv, NEW j \in Replay, NEW r \in Launcher, Up(j), LauncherOnly,
         runner' = [runner EXCEPT ![j] = r], UNCHANGED <<session, root>>,
         Job(leaf[j], r, session[j], root[j], drift)
  PROVE  WaveInv'
<1>1. session' = [session EXCEPT ![j] = session[j]] /\ root' = [root EXCEPT ![j] = root[j]]
  BY DEF WaveInv, TypeOK
<1>2. PICK s \in Session, o \in Root : s = session[j] /\ o = root[j]
  BY ReplayIs
<1>3. Running /\ UNCHANGED <<wave, drift, faults, coord, leaf>>
  BY DEF LauncherOnly
<1>4. session' = [session EXCEPT ![j] = s] /\ root' = [root EXCEPT ![j] = o]
  BY <1>1, <1>2
<1>5. Job(leaf[j], r, s, o, drift)
  BY <1>2
<1> QED
  BY <1>3, <1>4, <1>5, LauncherMoves

\* A launcher that is up has neither an untaken replay nor a final exit code.
LEMMA UpIs ==
  ASSUME NEW l, NEW r, NEW s, NEW o, NEW d, Job(l, r, s, o, d),
         r.step \notin {"absent", "ended"}
  PROVE  l # "queued" /\ o.exit \notin {0, 1} /\ l # "completed"
BY DEF Job

\* A launcher at a step.
LEMMA StepIs ==
  ASSUME NEW r \in Launcher,
         NEW step \in {"prepare", "record", "identify", "wait", "cleanup", "after", "ended"}
  PROVE  /\ [r EXCEPT !.step = step] \in Launcher
         /\ [r EXCEPT !.step = step].step = step
BY DEF Launcher

\* A launcher at its end, with its exit code.
LEMMA EndIs ==
  ASSUME NEW r \in Launcher, NEW code \in Code
  PROVE  /\ [r EXCEPT !.step = "ended", !.exit = code] \in Launcher
         /\ [r EXCEPT !.step = "ended", !.exit = code].step = "ended"
<1>1. PICK k : k = [r EXCEPT !.step = "ended"]
  OBVIOUS
<1>2. k \in Launcher /\ k.step = "ended"
  BY <1>1, StepIs
<1>3. PICK m : m = [k EXCEPT !.exit = code]
  OBVIOUS
<1>4. m \in Launcher /\ m.step = "ended"
  BY <1>2, <1>3 DEF Launcher
<1> QED
  BY <1>1, <1>3, <1>4

\* A launcher ends without having looked at the outcome.
LEMMA EndsKeeps ==
  ASSUME WaveInv, NEW j \in Replay, Up(j), NEW code \in Code, LauncherEnds(j, code),
         LauncherOnly, UNCHANGED <<session, root>>
  PROVE  WaveInv'
<1>1. PICK r : r = runner[j]
  OBVIOUS
<1>2. PICK e : e = [r EXCEPT !.step = "ended", !.exit = code]
  OBVIOUS
<1>3. e \in Launcher /\ e.step = "ended"
  BY <1>1, <1>2, ReplayIs, EndIs
<1>4. runner' = [runner EXCEPT ![j] = e]
  BY <1>1, <1>2 DEF LauncherEnds
<1>5. Job(leaf[j], e, session[j], root[j], drift)
  BY <1>3, ReplayIs DEF Job, Up
<1> QED
  BY <1>3, <1>4, <1>5, OnlyLauncher

\* A launcher goes on to such a step, for one after the session when that is gone.
LEMMA GoesKeeps ==
  ASSUME WaveInv, NEW j \in Replay, Up(j),
         NEW step \in {"prepare", "cleanup", "wait", "after"},
         runner' = [runner EXCEPT ![j].step = step],
         step = "after" => session[j] = "gone",
         LauncherOnly, UNCHANGED <<session, root>>
  PROVE  WaveInv'
<1>1. PICK r : r = runner[j]
  OBVIOUS
<1>2. PICK e : e = [r EXCEPT !.step = step]
  OBVIOUS
<1>3. /\ r \in Launcher
      /\ step \in {"prepare", "record", "identify", "wait", "cleanup", "after", "ended"}
  BY <1>1, ReplayIs
<1>4. e \in Launcher /\ e.step = step
  BY <1>2, <1>3, StepIs
<1>5. runner' = [runner EXCEPT ![j] = e]
  BY <1>1, <1>2
<1>6. Job(leaf[j], e, session[j], root[j], drift)
  BY <1>4, ReplayIs DEF Job, Up
<1> QED
  BY <1>4, <1>5, <1>6, OnlyLauncher
-----------------------------------------------------------------------------
(* The launcher *)

\* The launcher's first look at the pinned closure.
LEMMA VerifyKeeps == ASSUME WaveInv, NEW j \in Replay, LauncherVerify(j) PROVE WaveInv'
<1>1. Up(j) /\ LauncherOnly /\ UNCHANGED <<session, root>> /\ 1 \in Code
  BY DEF LauncherVerify, Up, Code
<1>2. \/ runner' = [runner EXCEPT ![j].step = "prepare"]
      \/ LauncherEnds(j, 1)
  BY DEF LauncherVerify
<1>3. CASE LauncherEnds(j, 1)
  BY <1>1, <1>3, EndsKeeps
<1>4. CASE runner' = [runner EXCEPT ![j].step = "prepare"]
  BY <1>1, <1>4, GoesKeeps
<1> QED
  BY <1>2, <1>3, <1>4

\* It makes the output root, notes the live inputs and starts the proof.
LEMMA PrepareKeeps == ASSUME WaveInv, NEW j \in Replay, LauncherPrepare(j) PROVE WaveInv'
<1>1. Up(j) /\ LauncherOnly /\ 1 \in Code
  BY DEF LauncherPrepare, Up, Code
<1>2. CASE root[j].exists
  BY <1>1, <1>2, EndsKeeps DEF LauncherPrepare
<1>3. CASE ~ root[j].exists
  <2>1. PICK r, o, b : r = runner[j] /\ o = root[j] /\ b = drift \ {"s1"}
    OBVIOUS
  <2>2. PICK e : e = [r EXCEPT !.step = "record"]
    OBVIOUS
  <2>3. r \in Launcher
    BY <2>1, ReplayIs
  <2>4. e \in Launcher /\ e.step = "record"
    BY <2>2, <2>3 DEF Launcher
  <2>5. PICK n : n = [o EXCEPT !.exists = TRUE]
    OBVIOUS
  <2>6. n \in Root /\ n.seen = o.seen /\ n.exit = o.exit /\ n.pid = o.pid
    BY <2>1, <2>5, ReplayIs DEF Root
  <2>7. PICK m : m = [n EXCEPT !.before = b]
    OBVIOUS
  <2>8. b \subseteq Input
    BY <2>1, ReplayIs
  <2>9. m \in Root /\ m.seen = o.seen /\ m.exit = o.exit /\ m.pid = o.pid
    BY <2>6, <2>7, <2>8 DEF Root
  <2>10. /\ runner' = [runner EXCEPT ![j] = e] /\ session' = [session EXCEPT ![j] = "proof"]
        /\ root' = [root EXCEPT ![j] = m]
    BY <1>3, <2>1, <2>2, <2>5, <2>7 DEF LauncherPrepare
  <2>11. Job(leaf[j], e, "proof", m, drift)
    <3>1. Job(leaf[j], r, session[j], o, drift) /\ r.step \notin {"absent", "ended"}
      BY <1>1, <2>1, ReplayIs DEF Up
    <3> QED
      BY <2>4, <2>9, <3>1 DEF Job
  <2>12. "proof" \in Session
    BY DEF Session, Live
  <2>13. Running /\ UNCHANGED <<wave, drift, faults, coord, leaf>>
    BY <1>1 DEF LauncherOnly
  <2> QED
    BY <1>1, <2>4, <2>9, <2>10, <2>11, <2>12, <2>13, LauncherMoves
<1> QED
  BY <1>2, <1>3

\* It writes the process id of the session down.
LEMMA RecordKeeps == ASSUME WaveInv, NEW j \in Replay, LauncherRecord(j) PROVE WaveInv'
<1>1. Up(j) /\ LauncherOnly
  BY DEF LauncherRecord, Up
<1>2. PICK r, o, s : r = runner[j] /\ o = root[j] /\ s = session[j]
  OBVIOUS
<1>3. PICK e : e = [r EXCEPT !.step = "identify"]
  OBVIOUS
<1>4. r \in Launcher
  BY <1>2, ReplayIs
<1>5. e \in Launcher /\ e.step = "identify"
  BY <1>3, <1>4 DEF Launcher
<1>6. PICK n : n = [o EXCEPT !.pid = TRUE]
  OBVIOUS
<1>7. n \in Root /\ n.seen = o.seen /\ n.exit = o.exit
  BY <1>2, <1>6, ReplayIs DEF Root
<1>8. /\ runner' = [runner EXCEPT ![j] = e] /\ session' = [session EXCEPT ![j] = s]
      /\ root' = [root EXCEPT ![j] = n]
  BY <1>2, <1>3, <1>6 DEF LauncherRecord, WaveInv, TypeOK
<1>9. Job(leaf[j], e, s, n, drift)
  <2>1. Job(leaf[j], r, s, o, drift) /\ r.step \notin {"absent", "ended"}
    BY <1>1, <1>2, ReplayIs DEF Up
  <2> QED
    BY <1>5, <1>7, <2>1 DEF Job
<1>10. s \in Session /\ Running /\ UNCHANGED <<wave, drift, faults, coord, leaf>>
  BY <1>1, <1>2, ReplayIs DEF LauncherOnly
<1> QED
  BY <1>1, <1>5, <1>7, <1>8, <1>9, <1>10, LauncherMoves

\* It sees the child alive in a session of its own, or gives up.
LEMMA IdentifyKeeps == ASSUME WaveInv, NEW j \in Replay, LauncherIdentify(j) PROVE WaveInv'
<1>1. Up(j) /\ LauncherOnly /\ UNCHANGED <<session, root>>
  BY DEF LauncherIdentify, Up
<1>2. \/ runner' = [runner EXCEPT ![j].step = "wait"]
      \/ runner' = [runner EXCEPT ![j].step = "cleanup", ![j].failed = TRUE]
  BY DEF LauncherIdentify
<1>3. CASE runner' = [runner EXCEPT ![j].step = "wait"]
  BY <1>1, <1>3, GoesKeeps
<1>4. CASE runner' = [runner EXCEPT ![j].step = "cleanup", ![j].failed = TRUE]
  <2>1. PICK r : r = runner[j]
    OBVIOUS
  <2>2. PICK k : k = [r EXCEPT !.step = "cleanup"]
    OBVIOUS
  <2>3. r \in Launcher
    BY <2>1, ReplayIs
  <2>4. k \in Launcher /\ k.step = "cleanup"
    BY <2>2, <2>3 DEF Launcher
  <2>5. PICK e : e = [k EXCEPT !.failed = TRUE]
    OBVIOUS
  <2>6. e \in Launcher /\ e.step = "cleanup"
    BY <2>4, <2>5 DEF Launcher
  <2>7. runner' = [runner EXCEPT ![j] = e]
    BY <1>4, <2>1, <2>2, <2>5
  <2>8. Job(leaf[j], e, session[j], root[j], drift)
    BY <1>1, <2>6, ReplayIs DEF Job, Up
  <2> QED
    BY <1>1, <2>6, <2>7, <2>8, OnlyLauncher
<1> QED
  BY <1>2, <1>3, <1>4

\* It stops waiting, and goes to clear the session away.
LEMMA WaitKeeps == ASSUME WaveInv, NEW j \in Replay, LauncherWait(j) PROVE WaveInv'
<1>1. Up(j) /\ LauncherOnly /\ UNCHANGED <<session, root>>
  BY DEF LauncherWait, Up
<1>2. runner' = [runner EXCEPT ![j].step = "cleanup"]
  BY DEF LauncherWait
<1> QED
  BY <1>1, <1>2, GoesKeeps

\* The session dies as its launcher waits.
LEMMA SessionMoves ==
  ASSUME WaveInv, NEW j \in Replay, NEW s \in Session, Up(j), runner[j].step # "after",
         LauncherOnly, UNCHANGED <<runner, root>>, session' = [session EXCEPT ![j] = s]
  PROVE  WaveInv'
<1>1. PICK r \in Launcher, o \in Root : r = runner[j] /\ o = root[j]
  BY ReplayIs
<1>2. runner' = [runner EXCEPT ![j] = r] /\ root' = [root EXCEPT ![j] = o]
  BY <1>1 DEF WaveInv, TypeOK
<1>3. Job(leaf[j], r, s, o, drift)
  <2>1. Job(leaf[j], r, session[j], o, drift)
    BY <1>1, ReplayIs
  <2> QED
    BY <1>1, <2>1 DEF Job, Up
<1>4. Running /\ UNCHANGED <<wave, drift, faults, coord, leaf>>
  BY DEF LauncherOnly
<1> QED
  BY <1>2, <1>3, <1>4, LauncherMoves

\* It clears the session away.
LEMMA ClearKeeps ==
  ASSUME WaveInv, NEW j \in Replay, clearOwnedProcesses(j)
  PROVE  WaveInv'
<1>1. Up(j) /\ LauncherOnly /\ UNCHANGED root /\ runner[j].step = "cleanup"
  BY DEF clearOwnedProcesses, Up
<1>2. 1 \in Code /\ 143 \in Code /\ "dying" \in Session
  BY DEF Code, Session, Live
<1>3. CASE session' = [session EXCEPT ![j] = "dying"] /\ UNCHANGED runner
  BY <1>1, <1>2, <1>3, SessionMoves
<1>4. CASE UNCHANGED session /\ LauncherEnds(j, 1)
  BY <1>1, <1>2, <1>4, EndsKeeps
<1>5. CASE UNCHANGED session /\ LauncherEnds(j, 143)
  BY <1>1, <1>2, <1>5, EndsKeeps
<1>6. CASE /\ session[j] = "gone" /\ UNCHANGED session
           /\ runner' = [runner EXCEPT ![j].step = "after"]
  BY <1>1, <1>6, GoesKeeps
<1> QED
  BY <1>3, <1>4, <1>5, <1>6 DEF clearOwnedProcesses

\* The exit code of a launcher that came to its end is 0 or 1 only when its proof
\* ended as it should, its session is gone, and no input it wrote down moved.
LEMMA FinalExits ==
  ASSUME WaveInv, NEW j \in Replay
  PROVE  /\ FinalExit(j) \in Code
         /\ FinalExit(j) \in {0, 1} =>
              session[j] \notin Live /\ root[j].before = drift \ {"s1"}
<1>1. ExpectedExit[j] \in {0, 1}
  BY Replays
<1>2. CASE session[j] \in Live
  <2>1. FinalExit(j) = 75
    BY <1>2 DEF FinalExit
  <2> QED
    BY <2>1 DEF Code
<1>3. CASE session[j] \notin Live /\ root[j].before # drift \ {"s1"}
  <2>1. FinalExit(j) = 74
    BY <1>3 DEF FinalExit
  <2> QED
    BY <2>1 DEF Code
<1>4. CASE /\ session[j] \notin Live /\ root[j].before = drift \ {"s1"}
           /\ root[j].proofExit # ExpectedExit[j]
  <2>1. FinalExit(j) = 76
    BY <1>4 DEF FinalExit
  <2> QED
    BY <1>4, <2>1 DEF Code
<1>5. CASE /\ session[j] \notin Live /\ root[j].before = drift \ {"s1"}
           /\ root[j].proofExit = ExpectedExit[j]
  <2>1. FinalExit(j) = ExpectedExit[j]
    BY <1>5 DEF FinalExit
  <2> QED
    BY <1>1, <1>5, <2>1 DEF Code
<1> QED
  BY <1>2, <1>3, <1>4, <1>5

\* It looks at the outcome and writes its exit code.
LEMMA AfterKeeps == ASSUME WaveInv, NEW j \in Replay, LauncherAfter(j) PROVE WaveInv'
<1>1. Up(j) /\ LauncherOnly /\ UNCHANGED session /\ runner[j].step = "after" /\ 1 \in Code
  BY DEF LauncherAfter, Up, Code
<1>2. CASE LauncherEnds(j, 1) /\ UNCHANGED root
  BY <1>1, <1>2, EndsKeeps
<1>3. CASE /\ root' = [root EXCEPT ![j].exit = FinalExit(j)]
           /\ LauncherEnds(j, FinalExit(j))
  <2>1. PICK r, o, s, code : /\ r = runner[j] /\ o = root[j] /\ s = session[j]
                             /\ code = FinalExit(j)
    OBVIOUS
  <2>2. r \in Launcher /\ o \in Root /\ s \in Session /\ Job(leaf[j], r, s, o, drift)
    BY <2>1, ReplayIs
  <2>3. code \in Code /\ (code \in {0, 1} => o.before = drift \ {"s1"})
    BY <2>1, FinalExits
  <2>4. PICK e : e = [r EXCEPT !.step = "ended", !.exit = code]
    OBVIOUS
  <2>5. e \in Launcher /\ e.step = "ended"
    BY <2>2, <2>3, <2>4, EndIs
  <2>6. PICK n : n = [o EXCEPT !.exit = code]
    OBVIOUS
  <2>7. n \in Root /\ n.exit = code /\ n.seen = o.seen /\ n.before = o.before
    BY <2>2, <2>3, <2>6 DEF Root
  <2>8. /\ runner' = [runner EXCEPT ![j] = e] /\ session' = [session EXCEPT ![j] = s]
        /\ root' = [root EXCEPT ![j] = n]
    BY <1>1, <1>3, <2>1, <2>4, <2>6 DEF LauncherEnds, WaveInv, TypeOK
  <2>9. Job(leaf[j], e, s, n, drift)
    <3>1. r.step = "after"
      BY <1>1, <2>1
    <3> QED
      BY <2>2, <2>3, <2>5, <2>7, <3>1 DEF Job
  <2>10. Running /\ UNCHANGED <<wave, drift, faults, coord, leaf>>
    BY <1>1 DEF LauncherOnly
  <2> QED
    BY <1>1, <2>2, <2>5, <2>7, <2>8, <2>9, <2>10, LauncherMoves
<1> QED
  BY <1>2, <1>3 DEF LauncherAfter

\* Any step of a launcher.
LEMMA LaunchKeeps == ASSUME WaveInv, NEW j \in Replay, Launch(j) PROVE WaveInv'
BY VerifyKeeps, PrepareKeeps, RecordKeeps, IdentifyKeeps, WaitKeeps, ClearKeeps, AfterKeeps
   DEF Launch
-----------------------------------------------------------------------------
(* The proof session *)

\* The proof moves, and its launcher does not.
LEMMA ProofMoves ==
  ASSUME WaveInv, Running, NEW j \in Replay, NEW s \in Session, NEW o \in Root,
         session' = [session EXCEPT ![j] = s], root' = [root EXCEPT ![j] = o],
         UNCHANGED <<wave, drift, faults, coord, leaf, runner>>,
         session[j] \in Live, o.exit = root[j].exit, o.pid = root[j].pid,
         o.seen \subseteq drift \ {"s1"}
  PROVE  WaveInv'
<1>1. PICK r \in Launcher : r = runner[j]
  BY ReplayIs
<1>2. runner' = [runner EXCEPT ![j] = r]
  BY <1>1 DEF WaveInv, TypeOK
<1>3. Job(leaf[j], r, s, o, drift)
  <2>1. Job(leaf[j], r, session[j], root[j], drift)
    BY <1>1, ReplayIs
  <2> QED
    BY <2>1 DEF Job, Live
<1> QED
  BY <1>1, <1>2, <1>3, LauncherMoves

\* The proof ends, having read the inputs as they are.
LEMMA ProofExitsKeeps == ASSUME WaveInv, NEW j \in Replay, ProofExits(j) PROVE WaveInv'
<1>1. PICK code \in {0, 1}, left \in {"gone", "lingering"}, written \in {"exact", "other"} :
        /\ session' = [session EXCEPT ![j] = left]
        /\ root' = [root EXCEPT ![j].proofExit = code,
                                ![j].seen = drift \ {"closure", "s1"},
                                ![j].evidence = written]
  BY DEF ProofExits
<1>2. PICK o, d : o = root[j] /\ d = drift \ {"closure", "s1"}
  OBVIOUS
<1>3. o \in Root /\ d \subseteq Input /\ d \subseteq drift \ {"s1"}
  BY <1>2, ReplayIs
<1>4. code \in Code /\ written \in Evidence /\ left \in Session
  BY <1>1 DEF Code, Evidence, Session, Live
<1>5. PICK k : k = [o EXCEPT !.proofExit = code]
  OBVIOUS
<1>6. k \in Root /\ k.exit = o.exit /\ k.pid = o.pid
  BY <1>3, <1>4, <1>5 DEF Root
<1>7. PICK m : m = [k EXCEPT !.seen = d]
  OBVIOUS
<1>8. m \in Root /\ m.exit = o.exit /\ m.pid = o.pid /\ m.seen = d
  BY <1>3, <1>6, <1>7 DEF Root
<1>9. PICK n : n = [m EXCEPT !.evidence = written]
  OBVIOUS
<1>10. n \in Root /\ n.exit = o.exit /\ n.pid = o.pid /\ n.seen = d
  BY <1>4, <1>8, <1>9 DEF Root
<1>11. root' = [root EXCEPT ![j] = n]
  BY <1>1, <1>2, <1>5, <1>7, <1>9
<1>12. /\ Running /\ session[j] \in Live
       /\ UNCHANGED <<wave, drift, faults, coord, leaf, runner>>
  BY DEF ProofExits, Live
<1> QED
  BY <1>1, <1>2, <1>3, <1>4, <1>10, <1>11, <1>12, ProofMoves

\* Its evidence is rewritten while it runs.
LEMMA RewriteKeeps == ASSUME WaveInv, NEW j \in Replay, Rewrite(j) PROVE WaveInv'
<1>1. PICK o, s : o = root[j] /\ s = session[j]
  OBVIOUS
<1>2. o \in Root /\ s \in Session /\ o.seen \subseteq drift \ {"s1"}
  BY <1>1, ReplayIs DEF Job
<1>3. PICK n : n = [o EXCEPT !.evidence = "rewritten"]
  OBVIOUS
<1>4. n \in Root /\ n.exit = o.exit /\ n.pid = o.pid /\ n.seen = o.seen
  BY <1>2, <1>3 DEF Root, Evidence
<1>5. root' = [root EXCEPT ![j] = n] /\ session' = [session EXCEPT ![j] = s]
  BY <1>1, <1>3 DEF Rewrite, WaveInv, TypeOK
<1>6. /\ Running /\ session[j] \in Live
      /\ UNCHANGED <<wave, drift, faults, coord, leaf, runner>>
  BY DEF Rewrite, Live
<1> QED
  BY <1>1, <1>2, <1>4, <1>5, <1>6, ProofMoves

\* What is left of the session dies.
LEMMA DiesKeeps == ASSUME WaveInv, NEW j \in Replay, Dies(j) PROVE WaveInv'
<1>1. PICK o, c : o = root[j] /\ c = (IF o.proofExit = None THEN 143 ELSE o.proofExit)
  OBVIOUS
<1>2. o \in Root /\ o.seen \subseteq drift \ {"s1"}
  BY <1>1, ReplayIs DEF Job
<1>3. c \in Code
  BY <1>1, <1>2 DEF Root, Code
<1>4. PICK n : n = [o EXCEPT !.proofExit = c]
  OBVIOUS
<1>5. n \in Root /\ n.exit = o.exit /\ n.pid = o.pid /\ n.seen = o.seen
  BY <1>2, <1>3, <1>4 DEF Root
<1>6. root' = [root EXCEPT ![j] = n] /\ session' = [session EXCEPT ![j] = "gone"]
  BY <1>1, <1>4 DEF Dies
<1>7. /\ Running /\ session[j] \in Live /\ "gone" \in Session
      /\ UNCHANGED <<wave, drift, faults, coord, leaf, runner>>
  BY DEF Dies, Live, Session
<1> QED
  BY <1>1, <1>2, <1>5, <1>6, <1>7, ProofMoves

\* Any step of a session.
LEMMA ProofSessionKeeps == ASSUME WaveInv, NEW j \in Replay, ProofSession(j) PROVE WaveInv'
BY ProofExitsKeeps, RewriteKeeps, DiesKeeps DEF ProofSession
-----------------------------------------------------------------------------
(* Termination *)

\* Launchers are only ever told to stop: one that is not up stays as it is, and
\* none of them gets on.
Stopped(r, after) ==
  /\ r.step \in {"absent", "ended"} => after = r
  /\ after.step \in {r.step, "ended"}

\* That does not disturb what holds of a replay.
LEMMA StoppedJob ==
  ASSUME NEW l, NEW r, NEW a, NEW s, NEW o, NEW d, Job(l, r, s, o, d), Stopped(r, a)
  PROVE  Job(l, a, s, o, d)
BY DEF Job, Stopped

\* Killing a launcher is telling it to stop.
LEMMA SlainStops ==
  ASSUME NEW r \in Launcher
  PROVE  Slain(r) \in Launcher /\ Stopped(r, Slain(r))
         /\ Slain(r).step \in {"absent", "ended"}
<1>1. 137 \in Code
  BY DEF Code
<1>2. CASE r.step \in {"absent", "ended"}
  BY <1>2 DEF Slain, Stopped
<1>3. CASE r.step \notin {"absent", "ended"}
  <2>1. PICK e : e = [r EXCEPT !.step = "ended", !.exit = 137]
    OBVIOUS
  <2>2. e \in Launcher /\ e.step = "ended"
    BY <1>1, <2>1, EndIs
  <2>3. Slain(r) = e
    BY <1>3, <2>1 DEF Slain
  <2> QED
    BY <1>3, <2>2, <2>3 DEF Stopped
<1> QED
  BY <1>2, <1>3

\* So is a termination signal, which it may serve by clearing its session away.
LEMMA TerminatedStops ==
  ASSUME NEW r \in Launcher
  PROVE  Terminated(r) \in Launcher /\ Stopped(r, Terminated(r))
<1>1. 137 \in Code
  BY DEF Code
<1>2. CASE r.step \in {"absent", "ended"}
  BY <1>2 DEF Terminated, Stopped
<1>3. CASE r.step \in {"verify", "prepare", "after"}
  <2>1. PICK e : e = [r EXCEPT !.step = "ended", !.exit = 137]
    OBVIOUS
  <2>2. e \in Launcher /\ e.step = "ended"
    BY <1>1, <2>1, EndIs
  <2>3. Terminated(r) = e
    BY <1>3, <2>1 DEF Terminated
  <2> QED
    BY <1>3, <2>2, <2>3 DEF Stopped
<1>4. CASE r.step \in {"record", "identify", "wait", "cleanup"}
  <2>1. PICK e : e = [r EXCEPT !.cancelled = TRUE]
    OBVIOUS
  <2>2. e \in Launcher /\ e.step = r.step
    BY <2>1 DEF Launcher
  <2>3. Terminated(r) = e
    BY <1>4, <2>1 DEF Terminated
  <2> QED
    BY <1>4, <2>2, <2>3 DEF Stopped
<1> QED
  BY <1>2, <1>3, <1>4 DEF Launcher

\* All launchers are told to stop, and the coordinator may move on with it.
RunnersStop ==
  /\ runner' \in [Replay -> Launcher]
  /\ \A j \in Replay : Stopped(runner[j], runner'[j])

\* What holds of the replays holds when their launchers were told to stop.
LEMMA StopsKeepJobs ==
  ASSUME WaveInv, RunnersStop, UNCHANGED <<leaf, session, root, drift>>
  PROVE  JobsOK' /\ \A j \in Replay : Up(j)' => Up(j)
<1>1. ASSUME NEW j \in Replay
      PROVE  Job(leaf[j], runner'[j], session[j], root[j], drift)
  BY StoppedJob DEF WaveInv, JobsOK, RunnersStop
<1>2. ASSUME NEW j \in Replay, Up(j)' PROVE Up(j)
  BY <1>2 DEF RunnersStop, Stopped, Up
<1> QED
  BY <1>1, <1>2 DEF JobsOK

\* The coordinator's signal to all of them.
LEMMA TermAllStops == ASSUME WaveInv, runner' = TermAll PROVE RunnersStop
<1>1. runner \in [Replay -> Launcher]
  BY DEF WaveInv, TypeOK
<1>2. \A j \in Replay : runner[j] \in Launcher /\ Stopped(runner[j], runner[j])
  BY <1>1 DEF Stopped
<1>3. CASE coord.term = "none"
  <2>1. runner' = [j \in Replay |-> Terminated(runner[j])]
    BY <1>3 DEF TermAll
  <2> QED
    BY <1>2, <2>1, TerminatedStops DEF RunnersStop
<1>4. CASE coord.term # "none"
  BY <1>1, <1>2, <1>4 DEF TermAll, RunnersStop
<1> QED
  BY <1>3, <1>4
-----------------------------------------------------------------------------
(* Failures and interrupts *)

\* Termination is asked for, and a replay may have failed.
LEMMA TermStarts ==
  ASSUME WaveInv, Running, runner' = TermAll, UNCHANGED <<wave, drift, session, root>>,
         faults' \in Nat, NEW c \in Coordinator, coord' = c, c.term = NextTerm,
         c.failure \/ c.interrupted, coord.failure => c.failure, c.step = coord.step,
         c.exit = coord.exit, c.credit = coord.credit, leaf' \in [Replay -> Leaf],
         \A k \in Replay :
           \/ leaf'[k] = leaf[k]
           \/ /\ leaf[k] \in {"running", "js", "python"}
              /\ leaf'[k] \in {"stopping", "failed"} /\ c.failure
  PROVE  WaveInv'
<1>1. RunnersStop /\ runner' \in [Replay -> Launcher]
  BY TermAllStops DEF RunnersStop
<1>2. TypeOK'
  BY <1>1 DEF WaveInv, TypeOK
<1>3. JobsOK'
  <2>1. ASSUME NEW k \in Replay
        PROVE  Job(leaf'[k], runner'[k], session[k], root[k], drift)
    <3>1. Job(leaf[k], runner'[k], session[k], root[k], drift)
      BY <1>1, StoppedJob DEF WaveInv, JobsOK, RunnersStop
    <3> QED
      BY <3>1 DEF Job
  <2> QED
    BY <2>1 DEF JobsOK
<1>4. PoolOK'
  <2>1. pending' = pending
    BY DEF pending
  <2>2. coord'.step \in {"preflight", "open"} => \A k \in Replay : leaf'[k] = "queued"
    BY DEF WaveInv, PoolOK
  <2>3. coord'.step \in {"seal", "reverse"} => \A k \in Replay : leaf'[k] = "completed"
    BY DEF WaveInv, PoolOK
  <2>4. (\E k \in Replay : leaf'[k] \in {"failed", "stopping"}) => coord'.failure
    BY DEF WaveInv, PoolOK
  <2>5. Cardinality(pending') <= MaxHeavy
    BY <2>1 DEF WaveInv, PoolOK
  <2> QED
    BY <2>2, <2>3, <2>4, <2>5 DEF PoolOK
<1>5. TerminationOK'
  <2>1. Closed'
    BY DEF Closed
  <2>2. CASE coord.term = "none"
    <3>1. coord'.term = "term"
      BY <2>2 DEF NextTerm
    <3> QED
      BY <2>1, <3>1 DEF TerminationOK
  <2>3. CASE coord.term # "none"
    <3>1. coord'.term = coord.term /\ runner' = runner
      BY <2>3 DEF NextTerm, TermAll
    <3> QED
      BY <2>1, <3>1 DEF WaveInv, TerminationOK, Up
  <2> QED
    BY <2>2, <2>3
<1>6. EndOK'
  BY EndStays DEF WaveInv
<1> QED
  BY <1>2, <1>3, <1>4, <1>5, <1>6 DEF WaveInv

\* A replay fails, and the wave with it.
LEMMA FailKeeps ==
  ASSUME WaveInv, Running, NEW j \in Replay, leaf[j] \in {"running", "js", "python"},
         Fail(j), UNCHANGED <<wave, drift, faults, session, root>>
  PROVE  WaveInv'
<1>1. PICK d, t : d = coord /\ t = NextTerm
  OBVIOUS
<1>2. d \in Coordinator /\ t \in {"none", "term", "kill", "audit", "done", "failed"}
  BY <1>1 DEF WaveInv, TypeOK, Coordinator, NextTerm
<1>3. PICK e : e = [d EXCEPT !.failure = TRUE]
  OBVIOUS
<1>4. /\ e \in Coordinator /\ e.step = d.step /\ e.exit = d.exit /\ e.credit = d.credit
      /\ e.failure
  BY <1>2, <1>3 DEF Coordinator
<1>5. PICK c : c = [e EXCEPT !.term = t]
  OBVIOUS
<1>6. c \in Coordinator
  BY <1>2, <1>4, <1>5 DEF Coordinator
<1>7. c.step = d.step /\ c.exit = d.exit /\ c.credit = d.credit /\ c.failure /\ c.term = t
  BY <1>2, <1>4, <1>5 DEF Coordinator
<1>8. coord' = c /\ runner' = TermAll
  BY <1>1, <1>3, <1>5 DEF Fail
<1>9. PICK l \in {"stopping", "failed"} : leaf' = [leaf EXCEPT ![j] = l]
  BY DEF Fail
<1>10. leaf \in [Replay -> Leaf] /\ faults' \in Nat
  BY DEF WaveInv, TypeOK
<1>11. leaf' \in [Replay -> Leaf]
  BY <1>9, <1>10 DEF Leaf
<1>12. \A k \in Replay :
         \/ leaf'[k] = leaf[k]
         \/ /\ leaf[k] \in {"running", "js", "python"}
            /\ leaf'[k] \in {"stopping", "failed"} /\ c.failure
  BY <1>7, <1>9, <1>10
<1> QED
  BY <1>1, <1>6, <1>7, <1>8, <1>10, <1>11, <1>12, TermStarts
-----------------------------------------------------------------------------
(* The workers *)

\* What is taken and not completed is finite.
LEMMA PendingFinite ==
  IsFiniteSet(pending) /\ Cardinality(pending) \in Nat
BY Replays, FS_Subset, FS_CardinalityType DEF pending

\* A replay gets on, or its worker gives it up.
LEMMA LeafMoves ==
  ASSUME WaveInv, Running, NEW j \in Replay, NEW l \in Leaf, NEW o \in Root,
         leaf' = [leaf EXCEPT ![j] = l], root' = [root EXCEPT ![j] = o],
         UNCHANGED <<wave, drift, faults, coord, runner, session>>,
         leaf[j] \notin {"queued", "completed"}, l # "queued",
         l \in {"failed", "stopping"} => coord.failure,
         o.exit = root[j].exit, o.pid = root[j].pid, o.before = root[j].before,
         o.seen = root[j].seen, l = "completed" => o.exit \in {0, 1}
  PROVE  WaveInv'
<1>1. TypeOK'
  BY DEF WaveInv, TypeOK
<1>2. /\ leaf'[j] = l /\ root'[j] = o
      /\ \A k \in Replay \ {j} : leaf'[k] = leaf[k] /\ root'[k] = root[k]
  BY DEF WaveInv, TypeOK
<1>3. JobsOK'
  <2>1. Job(l, runner[j], session[j], o, drift)
    <3>1. Job(leaf[j], runner[j], session[j], root[j], drift)
      BY DEF WaveInv, JobsOK
    <3> QED
      BY <3>1 DEF Job
  <2>2. ASSUME NEW k \in Replay
        PROVE  Job(leaf'[k], runner[k], session[k], root'[k], drift)
    BY <1>2, <2>1 DEF WaveInv, JobsOK
  <2> QED
    BY <2>2 DEF JobsOK
<1>4. PoolOK'
  <2>1. pending' \subseteq pending
    BY <1>2 DEF pending
  <2>2. Cardinality(pending') <= Cardinality(pending) /\ Cardinality(pending') \in Nat
    BY <2>1, PendingFinite, FS_Subset, FS_CardinalityType
  <2>3. Cardinality(pending) <= MaxHeavy /\ Cardinality(pending) \in Nat
    BY PendingFinite DEF WaveInv, PoolOK
  <2>4. coord.step \notin {"preflight", "open", "seal", "reverse"}
    BY DEF WaveInv, PoolOK
  <2>5. (\E k \in Replay : leaf'[k] \in {"failed", "stopping"}) => coord.failure
    BY <1>2 DEF WaveInv, PoolOK
  <2> QED
    BY <2>2, <2>3, <2>4, <2>5 DEF PoolOK
<1>5. TerminationOK'
  BY <1>2 DEF WaveInv, TerminationOK, Up, Closed
<1>6. EndOK'
  BY EndStays DEF WaveInv
<1> QED
  BY <1>1, <1>3, <1>4, <1>5, <1>6 DEF WaveInv

\* A worker takes a replay only while none has failed: then all that is taken and
\* not completed is held by a worker.
LEMMA ExecuteKeeps == ASSUME WaveInv, NEW j \in Replay, Execute(j) PROVE WaveInv'
<1>1. PICK r : r = runner[j]
  OBVIOUS
<1>2. PICK e : e = [r EXCEPT !.step = "verify"]
  OBVIOUS
<1>3. r \in Launcher
  BY <1>1, ReplayIs
<1>4. e \in Launcher /\ e.step = "verify"
  BY <1>2, <1>3 DEF Launcher
<1>5. runner' = [runner EXCEPT ![j] = e] /\ leaf' = [leaf EXCEPT ![j] = "running"]
  BY <1>1, <1>2 DEF Execute
<1>6. /\ leaf'[j] = "running" /\ runner'[j] = e
      /\ \A k \in Replay \ {j} : leaf'[k] = leaf[k] /\ runner'[k] = runner[k]
  BY <1>5 DEF WaveInv, TypeOK
<1>7. /\ UNCHANGED <<wave, drift, faults, coord, session, root>> /\ Running
      /\ leaf[j] = "queued" /\ ~ Closed /\ coord.step = "pool"
  BY DEF Execute, WorkerOnly
<1>8. TypeOK'
  <2>1. "running" \in Leaf
    BY DEF Leaf
  <2> QED
    BY <1>4, <1>5, <1>7, <2>1 DEF WaveInv, TypeOK
<1>9. JobsOK'
  <2>1. Job("running", e, session[j], root[j], drift)
    <3>1. Job(leaf[j], runner[j], session[j], root[j], drift)
      BY DEF WaveInv, JobsOK
    <3> QED
      BY <1>4, <1>7, <3>1 DEF Job
  <2>2. ASSUME NEW k \in Replay
        PROVE  Job(leaf'[k], runner'[k], session[k], root[k], drift)
    BY <1>6, <2>1 DEF WaveInv, JobsOK
  <2> QED
    BY <1>7, <2>2 DEF JobsOK
<1>10. PoolOK'
  <2>1. \A k \in Replay : leaf[k] \notin {"failed", "stopping"}
    BY <1>7 DEF WaveInv, PoolOK, Closed
  <2>2. pending = Busy /\ j \notin pending
    <3>1. leaf \in [Replay -> Leaf]
      BY DEF WaveInv, TypeOK
    <3> QED
      BY <1>7, <2>1, <3>1 DEF pending, Busy, Leaf
  <2>3. pending' = pending \cup {j}
    BY <1>6 DEF pending
  <2>4. Cardinality(pending') = Cardinality(pending) + 1
    BY <2>2, <2>3, PendingFinite, FS_AddElement
  <2>5. Cardinality(pending) < MaxHeavy
    BY <2>2 DEF Execute
  <2>6. Cardinality(pending') <= MaxHeavy
    BY <2>4, <2>5, PendingFinite, WaveAssumption
  <2>7. \A k \in Replay : leaf'[k] \notin {"failed", "stopping"}
    BY <1>6, <2>1
  <2> QED
    BY <1>7, <2>6, <2>7 DEF PoolOK
<1>11. TerminationOK'
  <2>1. coord.term = "none"
    BY <1>7 DEF WaveInv, TerminationOK
  <2> QED
    BY <1>7, <2>1 DEF TerminationOK
<1>12. EndOK'
  BY <1>7, EndStays DEF WaveInv
<1> QED
  BY <1>8, <1>9, <1>10, <1>11, <1>12 DEF WaveInv

\* A worker whose replay failed goes on when termination is done.
LEMMA WorkerStopsKeeps == ASSUME WaveInv, NEW j \in Replay, WorkerStops(j) PROVE WaveInv'
<1>1. PICK o \in Root : o = root[j]
  BY ReplayIs
<1>2. root' = [root EXCEPT ![j] = o] /\ leaf' = [leaf EXCEPT ![j] = "failed"]
  BY <1>1 DEF WorkerStops, WaveInv, TypeOK
<1>3. /\ Running /\ UNCHANGED <<wave, drift, faults, coord, runner, session>>
      /\ leaf[j] = "stopping" /\ "failed" \in Leaf
  BY DEF WorkerStops, WorkerOnly, Leaf
<1>4. coord.failure
  BY <1>3 DEF WaveInv, PoolOK
<1> QED
  BY <1>1, <1>2, <1>3, <1>4, LeafMoves

\* A worker sees its launcher end.
LEMMA LauncherEndedKeeps ==
  ASSUME WaveInv, NEW j \in Replay, LauncherEnded(j)
  PROVE  WaveInv'
<1>1. /\ Running /\ UNCHANGED <<wave, drift, faults, session, root>>
      /\ leaf[j] = "running" /\ "js" \in Leaf
  BY DEF LauncherEnded, WorkerOnly, Leaf
<1>2. CASE leaf' = [leaf EXCEPT ![j] = "js"] /\ UNCHANGED <<coord, runner>>
  <2>1. PICK o \in Root : o = root[j]
    BY ReplayIs
  <2>2. root' = [root EXCEPT ![j] = o]
    BY <1>1, <2>1 DEF WaveInv, TypeOK
  <2> QED
    BY <1>1, <1>2, <2>1, <2>2, LeafMoves
<1>3. CASE Fail(j)
  BY <1>1, <1>3, FailKeeps
<1> QED
  BY <1>2, <1>3 DEF LauncherEnded

\* The first analysis of a replay.
LEMMA AnalyzeJsKeeps == ASSUME WaveInv, NEW j \in Replay, AnalyzeJs(j) PROVE WaveInv'
<1>1. /\ Running /\ UNCHANGED <<wave, drift, faults, session>>
      /\ leaf[j] = "js" /\ "python" \in Leaf
  BY DEF AnalyzeJs, WorkerOnly, Leaf
<1>2. CASE /\ root' = [root EXCEPT ![j].js = root[j].evidence]
           /\ leaf' = [leaf EXCEPT ![j] = "python"]
           /\ UNCHANGED <<coord, runner>>
  <2>1. PICK o, v : o = root[j] /\ v = root[j].evidence
    OBVIOUS
  <2>2. o \in Root /\ v = o.evidence
    BY <2>1, ReplayIs
  <2>3. PICK n : n = [o EXCEPT !.js = v]
    OBVIOUS
  <2>4. /\ n \in Root /\ n.exit = o.exit /\ n.pid = o.pid /\ n.before = o.before
        /\ n.seen = o.seen
    BY <2>2, <2>3 DEF Root
  <2>5. root' = [root EXCEPT ![j] = n]
    BY <1>2, <2>1, <2>3
  <2> QED
    BY <1>1, <1>2, <2>1, <2>4, <2>5, LeafMoves
<1>3. CASE Fail(j) /\ UNCHANGED root
  BY <1>1, <1>3, FailKeeps
<1> QED
  BY <1>2, <1>3 DEF AnalyzeJs

\* Both analyses accept only what the launcher itself saw to its end.
LEMMA AcceptedIs ==
  ASSUME NEW j \in Replay, Accepts(j)
  PROVE  /\ root[j].exit \in {0, 1} /\ root[j].proofExit = ExpectedExit[j]
         /\ root[j].before \cap {"sources", "definition"} = {}
         /\ root[j].evidence \in {"exact", "rewritten"}
BY Replays DEF Accepts, AcceptsRow, AcceptsS1

\* The second one, which completes it.
LEMMA AnalyzePythonKeeps ==
  ASSUME WaveInv, NEW j \in Replay, AnalyzePython(j)
  PROVE  WaveInv'
<1>1. /\ Running /\ UNCHANGED <<wave, drift, faults, session>>
      /\ leaf[j] = "python" /\ "completed" \in Leaf
  BY DEF AnalyzePython, WorkerOnly, Leaf
<1>2. CASE /\ Accepts(j)
           /\ root' = [root EXCEPT ![j].python = root[j].evidence]
           /\ leaf' = [leaf EXCEPT ![j] = "completed"]
           /\ UNCHANGED <<coord, runner>>
  <2>1. PICK o, v : o = root[j] /\ v = root[j].evidence
    OBVIOUS
  <2>2. o \in Root /\ v = o.evidence
    BY <2>1, ReplayIs
  <2>3. PICK n : n = [o EXCEPT !.python = v]
    OBVIOUS
  <2>4. /\ n \in Root /\ n.exit = o.exit /\ n.pid = o.pid /\ n.before = o.before
        /\ n.seen = o.seen
    BY <2>2, <2>3 DEF Root
  <2>5. root' = [root EXCEPT ![j] = n]
    BY <1>2, <2>1, <2>3
  <2>6. n.exit \in {0, 1}
    BY <1>2, <2>1, <2>4, AcceptedIs
  <2> QED
    BY <1>1, <1>2, <2>1, <2>4, <2>5, <2>6, LeafMoves
<1>3. CASE Fail(j) /\ UNCHANGED root
  BY <1>1, <1>3, FailKeeps
<1> QED
  BY <1>2, <1>3 DEF AnalyzePython

\* Any step of a worker.
LEMMA WorkKeeps == ASSUME WaveInv, NEW j \in Replay, Work(j) PROVE WaveInv'
BY ExecuteKeeps, WorkerStopsKeeps, LauncherEndedKeeps, AnalyzeJsKeeps, AnalyzePythonKeeps
   DEF Work
-----------------------------------------------------------------------------
(* The coordinator *)

\* No replay of the full row has a launcher, or a session that can be found.
NothingLeft == \A j \in Replay : ~ Up(j) /\ (session[j] \in Live => ~ root[j].pid)

\* That is so as long as nothing was taken, when all is completed, and when
\* termination is done.
LEMMA Quiet ==
  ASSUME WaveInv,
         \/ \A j \in Replay : leaf[j] = "queued"
         \/ \A j \in Replay : leaf[j] = "completed"
         \/ wave = "row" /\ coord.term = "done"
  PROVE  NothingLeft
<1>1. CASE \/ \A j \in Replay : leaf[j] = "queued"
           \/ \A j \in Replay : leaf[j] = "completed"
  BY <1>1 DEF NothingLeft, WaveInv, JobsOK, Job, Up, Live
<1>2. CASE wave = "row" /\ coord.term = "done"
  BY <1>2 DEF NothingLeft, WaveInv, TerminationOK
<1> QED
  BY <1>1, <1>2

\* What is credited.
Sound ==
  \A j \in Replay :
    /\ root[j].proofExit = ExpectedExit[j]
    /\ root[j].seen \cap {"sources", "definition"} = {}
    /\ root[j].evidence \in {"exact", "rewritten"}
    /\ root[j].js = root[j].evidence /\ root[j].python = root[j].evidence
    /\ session[j] = "gone"

\* Of the coordinator's control its step moves, and it may end.
LEMMA MainMoves ==
  ASSUME WaveInv, Running, MainOnly, NEW c \in Coordinator, coord' = c,
         c.term = coord.term, c.failure = coord.failure, c.interrupted = coord.interrupted,
         c.step \in {"preflight", "open"} => coord.step \in {"preflight", "open"},
         c.step \in {"seal", "reverse"} => \A j \in Replay : leaf[j] = "completed",
         wave = "row" /\ c.exit # None => NothingLeft,
         c.credit => c.exit # None /\ Sound
  PROVE  WaveInv'
<1>1. TypeOK'
  BY DEF WaveInv, TypeOK, MainOnly
<1>2. JobsOK'
  BY DEF WaveInv, JobsOK, MainOnly
<1>3. PoolOK'
  BY DEF WaveInv, PoolOK, MainOnly, pending
<1>4. TerminationOK'
  BY DEF WaveInv, TerminationOK, MainOnly, Closed, Up
<1>5. EndOK'
  BY DEF EndOK, NothingLeft, Sound, CreditSound, MainOnly, Up
<1> QED
  BY <1>1, <1>2, <1>3, <1>4, <1>5 DEF WaveInv

\* It goes on.
LEMMA MainGoes ==
  ASSUME WaveInv, Running, MainOnly, NEW step \in {"open", "pool", "seal", "reverse"},
         coord' = [coord EXCEPT !.step = step],
         step = "open" => coord.step = "preflight",
         step \in {"seal", "reverse"} => \A j \in Replay : leaf[j] = "completed"
  PROVE  WaveInv'
<1>1. PICK d : d = coord
  OBVIOUS
<1>2. d \in Coordinator /\ d.exit = None /\ ~ d.credit
  BY <1>1 DEF WaveInv, TypeOK, EndOK, Running
<1>3. PICK c : c = [d EXCEPT !.step = step]
  OBVIOUS
<1>4. c \in Coordinator
  BY <1>2, <1>3 DEF Coordinator
<1>5. /\ c.step = step /\ c.term = d.term /\ c.failure = d.failure
      /\ c.interrupted = d.interrupted /\ c.exit = d.exit /\ c.credit = d.credit
  BY <1>2, <1>3 DEF Coordinator
<1>6. coord' = c
  BY <1>1, <1>3
<1> QED
  BY <1>1, <1>2, <1>4, <1>5, <1>6, MainMoves

\* It ends without credit.
LEMMA MainExits ==
  ASSUME WaveInv, Running, MainOnly, NEW how \in {"failed", "signal"}, Exit(how),
         wave = "row" => NothingLeft
  PROVE  WaveInv'
<1>1. PICK d : d = coord
  OBVIOUS
<1>2. d \in Coordinator /\ ~ d.credit
  BY <1>1 DEF WaveInv, TypeOK, EndOK, Running
<1>3. PICK e : e = [d EXCEPT !.step = "exited"]
  OBVIOUS
<1>4. e \in Coordinator
  BY <1>2, <1>3 DEF Coordinator
<1>5. /\ e.step = "exited" /\ e.term = d.term /\ e.failure = d.failure
      /\ e.interrupted = d.interrupted /\ e.credit = d.credit
  BY <1>2, <1>3 DEF Coordinator
<1>6. PICK c : c = [e EXCEPT !.exit = how]
  OBVIOUS
<1>7. c \in Coordinator
  BY <1>4, <1>6 DEF Coordinator
<1>8. /\ c.step = "exited" /\ c.term = d.term /\ c.failure = d.failure
      /\ c.interrupted = d.interrupted /\ c.credit = d.credit
  BY <1>4, <1>5, <1>6 DEF Coordinator
<1>9. coord' = c
  BY <1>1, <1>3, <1>6 DEF Exit
<1> QED
  BY <1>1, <1>2, <1>7, <1>8, <1>9, MainMoves

\* The coordinator's checks before it starts.
LEMMA PreflightKeeps == ASSUME WaveInv, Preflight PROVE WaveInv'
<1>1. Running /\ MainOnly /\ coord.step = "preflight"
  BY DEF Preflight
<1>2. NothingLeft
  BY <1>1, Quiet DEF WaveInv, PoolOK
<1>3. CASE coord' = [coord EXCEPT !.step = "open"]
  BY <1>1, <1>3, MainGoes
<1>4. CASE Exit("failed")
  BY <1>1, <1>2, <1>4, MainExits
<1> QED
  BY <1>3, <1>4 DEF Preflight

\* It opens its own root.
LEMMA OpenKeeps == ASSUME WaveInv, OpenRoot PROVE WaveInv'
<1>1. Running /\ MainOnly /\ coord.step = "open"
  BY DEF OpenRoot
<1>2. NothingLeft
  BY <1>1, Quiet DEF WaveInv, PoolOK
<1>3. CASE coord' = [coord EXCEPT !.step = "pool"]
  BY <1>1, <1>3, MainGoes
<1>4. CASE Exit("failed")
  BY <1>1, <1>2, <1>4, MainExits
<1> QED
  BY <1>3, <1>4 DEF OpenRoot

\* When none failed and no worker holds a replay, all are completed.
LEMMA PoolEndsKeeps == ASSUME WaveInv, PoolEnds PROVE WaveInv'
<1>1. Running /\ MainOnly
  BY DEF PoolEnds
<1>2. CASE Closed /\ Exit("failed")
  <2>1. wave = "row" => NothingLeft
    BY <1>2, Quiet DEF PoolEnds
  <2> QED
    BY <1>1, <1>2, <2>1, MainExits
<1>3. CASE ~ Closed /\ coord' = [coord EXCEPT !.step = "seal"]
  <2>1. leaf \in [Replay -> Leaf]
    BY DEF WaveInv, TypeOK
  <2>2. \A j \in Replay : leaf[j] \notin {"failed", "stopping"}
    BY <1>3 DEF WaveInv, PoolOK, Closed
  <2>3. Busy = {} /\ \A j \in Replay : leaf[j] # "queued"
    BY <1>3 DEF PoolEnds, WorkersEnded
  <2>4. \A j \in Replay : leaf[j] = "completed"
    BY <2>1, <2>2, <2>3 DEF Busy, Leaf
  <2> QED
    BY <1>1, <1>3, <2>4, MainGoes
<1> QED
  BY <1>2, <1>3 DEF PoolEnds

\* It lists and verifies the freeze again, and asks for all leaf results.
LEMMA SealKeeps == ASSUME WaveInv, Seal PROVE WaveInv'
<1>1. Running /\ MainOnly /\ coord.step = "seal"
  BY DEF Seal
<1>2. \A j \in Replay : leaf[j] = "completed"
  BY <1>1 DEF WaveInv, PoolOK
<1>3. NothingLeft
  BY <1>2, Quiet
<1>4. CASE coord' = [coord EXCEPT !.step = "reverse"]
  BY <1>1, <1>2, <1>4, MainGoes
<1>5. CASE Exit("failed")
  BY <1>1, <1>3, <1>5, MainExits
<1> QED
  BY <1>4, <1>5 DEF Seal

\* What is analysed again when all is completed is what was proved: the launcher
\* saw the inputs unmoved until after the proof, and both analyses that they were
\* the pinned ones.
LEMMA ReanalysedIsSound ==
  ASSUME WaveInv, \A j \in Replay : leaf[j] = "completed", Reanalysed
  PROVE  Sound
<1>1. SUFFICES ASSUME NEW j \in Replay
               PROVE  /\ root[j].proofExit = ExpectedExit[j]
                      /\ root[j].seen \cap {"sources", "definition"} = {}
                      /\ root[j].evidence \in {"exact", "rewritten"}
                      /\ root[j].js = root[j].evidence /\ root[j].python = root[j].evidence
                      /\ session[j] = "gone"
  BY DEF Sound
<1>2. Accepts(j) /\ root[j].js = root[j].evidence /\ root[j].python = root[j].evidence
  BY DEF Reanalysed
<1>3. session[j] = "gone" /\ root[j].seen \subseteq root[j].before
  BY ReplayIs DEF Job
<1> QED
  BY <1>2, <1>3, AcceptedIs

\* The reverse check, and the credit.
LEMMA CreditKeeps == ASSUME WaveInv, Credit PROVE WaveInv'
<1>1. Running /\ MainOnly /\ coord.step = "reverse"
  BY DEF Credit
<1>2. \A j \in Replay : leaf[j] = "completed"
  BY <1>1 DEF WaveInv, PoolOK
<1>3. NothingLeft
  BY <1>2, Quiet
<1>4. CASE /\ IF wave = "row" THEN ReverseRow
                              ELSE BindPairs /\ ReverseS1 /\ ~ coord.interrupted
           /\ coord' = [coord EXCEPT !.step = "exited", !.credit = TRUE,
                          !.exit = IF coord.interrupted THEN "signal" ELSE "pass"]
  <2>1. Sound
    BY <1>2, <1>4, ReanalysedIsSound DEF ReverseRow, BindPairs
  <2>2. PICK d, how : d = coord /\ how = (IF coord.interrupted THEN "signal" ELSE "pass")
    OBVIOUS
  <2>3. d \in Coordinator /\ how \in {"signal", "pass"}
    BY <2>2 DEF WaveInv, TypeOK
  <2>4. PICK e : e = [d EXCEPT !.step = "exited"]
    OBVIOUS
  <2>5. e \in Coordinator
    BY <2>3, <2>4 DEF Coordinator
  <2>6. /\ e.step = "exited" /\ e.term = d.term /\ e.failure = d.failure
        /\ e.interrupted = d.interrupted
    BY <2>3, <2>4 DEF Coordinator
  <2>7. PICK f : f = [e EXCEPT !.credit = TRUE]
    OBVIOUS
  <2>8. f \in Coordinator
    BY <2>5, <2>7 DEF Coordinator
  <2>9. /\ f.step = "exited" /\ f.term = d.term /\ f.failure = d.failure
        /\ f.interrupted = d.interrupted
    BY <2>5, <2>6, <2>7 DEF Coordinator
  <2>10. PICK c : c = [f EXCEPT !.exit = how]
    OBVIOUS
  <2>11. c \in Coordinator
    BY <2>3, <2>8, <2>10 DEF Coordinator
  <2>12. /\ c.step = "exited" /\ c.term = d.term /\ c.failure = d.failure
         /\ c.interrupted = d.interrupted /\ c.exit = how
    BY <2>8, <2>9, <2>10 DEF Coordinator
  <2>13. coord' = c
    BY <1>4, <2>2, <2>4, <2>7, <2>10
  <2>14. c.exit # None
    BY <2>3, <2>12, WaveAssumption
  <2> QED
    BY <1>1, <1>3, <2>1, <2>2, <2>11, <2>12, <2>13, <2>14, MainMoves
<1>5. CASE Exit("failed")
  BY <1>1, <1>3, <1>5, MainExits
<1> QED
  BY <1>4, <1>5 DEF Credit

\* Any step of the coordinator on its way.
LEMMA CoordinateKeeps == ASSUME WaveInv, Coordinate PROVE WaveInv'
BY PreflightKeeps, OpenKeeps, PoolEndsKeeps, SealKeeps, CreditKeeps DEF Coordinate
-----------------------------------------------------------------------------
(* The end of what was started *)

\* A field of the coordinator's control that says how far termination is.
LEMMA TermIs ==
  ASSUME NEW d \in Coordinator,
         NEW t \in {"none", "term", "kill", "audit", "done", "failed"}
  PROVE  /\ [d EXCEPT !.term = t] \in Coordinator
         /\ [d EXCEPT !.term = t].term = t
         /\ [d EXCEPT !.term = t].step = d.step
         /\ [d EXCEPT !.term = t].failure = d.failure
         /\ [d EXCEPT !.term = t].interrupted = d.interrupted
         /\ [d EXCEPT !.term = t].exit = d.exit
         /\ [d EXCEPT !.term = t].credit = d.credit
BY DEF Coordinator

\* The kill that follows the signal.
LEMMA EscalateKeeps == ASSUME WaveInv, Escalate PROVE WaveInv'
<1>1. PICK d, t : d = coord /\ t = (IF wave = "row" THEN "kill" ELSE "done")
  OBVIOUS
<1>2. d \in Coordinator /\ t \in {"none", "term", "kill", "audit", "done", "failed"}
  BY <1>1 DEF WaveInv, TypeOK
<1>3. PICK c : c = [d EXCEPT !.term = t]
  OBVIOUS
<1>4. /\ c \in Coordinator /\ c.term = t /\ c.step = d.step /\ c.failure = d.failure
      /\ c.interrupted = d.interrupted /\ c.exit = d.exit /\ c.credit = d.credit
  BY <1>2, <1>3, TermIs
<1>5. /\ coord' = c /\ Running /\ coord.term = "term" /\ UNCHANGED session
      /\ UNCHANGED <<wave, drift, faults, leaf, root>>
  BY <1>1, <1>3 DEF Escalate, CoordinatorOnly
<1>6. runner' = [j \in Replay |-> Slain(runner[j])]
  BY DEF Escalate
<1>7. \A j \in Replay : runner[j] \in Launcher
  BY DEF WaveInv, TypeOK
<1>8. \A j \in Replay : /\ Slain(runner[j]) \in Launcher
                        /\ Stopped(runner[j], Slain(runner[j]))
                        /\ Slain(runner[j]).step \in {"absent", "ended"}
  BY <1>7, SlainStops
<1>9. RunnersStop /\ \A j \in Replay : runner'[j].step \in {"absent", "ended"}
  BY <1>6, <1>8 DEF RunnersStop
<1>10. TypeOK'
  BY <1>4, <1>5, <1>9 DEF WaveInv, TypeOK, RunnersStop
<1>11. JobsOK'
  BY <1>5, <1>9, StopsKeepJobs
<1>12. PoolOK'
  BY <1>1, <1>4, <1>5 DEF WaveInv, PoolOK, pending
<1>13. TerminationOK'
  <2>1. Closed'
    BY <1>1, <1>4, <1>5 DEF WaveInv, TerminationOK, Closed
  <2>2. \A j \in Replay : ~ Up(j)'
    BY <1>9 DEF Up
  <2>3. wave' = "row" => coord'.term # "done"
    BY <1>1, <1>4, <1>5
  <2> QED
    BY <2>1, <2>2, <2>3 DEF TerminationOK
<1>14. EndOK'
  BY <1>1, <1>4, <1>5, EndStays DEF WaveInv
<1> QED
  BY <1>10, <1>11, <1>12, <1>13, <1>14 DEF WaveInv

\* The kill of the sessions of replays without a leaf result.
LEMMA AuditKeeps == ASSUME WaveInv, auditOwnedProofSessions PROVE WaveInv'
<1>1. PICK d : d = coord
  OBVIOUS
<1>2. d \in Coordinator
  BY <1>1 DEF WaveInv, TypeOK
<1>3. PICK c : c = [d EXCEPT !.term = "audit"]
  OBVIOUS
<1>4. /\ c \in Coordinator /\ c.term = "audit" /\ c.step = d.step /\ c.failure = d.failure
      /\ c.interrupted = d.interrupted /\ c.exit = d.exit /\ c.credit = d.credit
  BY <1>2, <1>3, TermIs
<1>5. /\ coord' = c /\ Running /\ coord.term = "kill" /\ wave = "row"
      /\ UNCHANGED <<wave, drift, faults, leaf, root, runner>>
  BY <1>1, <1>3 DEF auditOwnedProofSessions, CoordinatorOnly
<1>6. \A j \in Replay : session[j] \in Session
  BY DEF WaveInv, TypeOK
<1>7. \A s \in Session : /\ Killed(s) \in Session
                         /\ s \notin Live => Killed(s) = s
                         /\ s \in Live => Killed(s) \in Live
  BY DEF Killed, Session, Live
<1>8. /\ session' \in [Replay -> Session]
      /\ \A j \in Replay : /\ session[j] \notin Live => session'[j] = session[j]
                           /\ session[j] \in Live => session'[j] \in Live
  BY <1>6, <1>7 DEF auditOwnedProofSessions
<1>9. TypeOK'
  BY <1>4, <1>5, <1>8 DEF WaveInv, TypeOK
<1>10. JobsOK'
  <2>1. ASSUME NEW j \in Replay
        PROVE  Job(leaf[j], runner[j], session'[j], root[j], drift)
    <3>1. Job(leaf[j], runner[j], session[j], root[j], drift)
      BY DEF WaveInv, JobsOK
    <3> QED
      BY <1>8, <3>1 DEF Job, Live
  <2> QED
    BY <1>5, <2>1 DEF JobsOK
<1>11. PoolOK'
  BY <1>1, <1>4, <1>5 DEF WaveInv, PoolOK, pending
<1>12. TerminationOK'
  <2>1. Closed'
    BY <1>1, <1>4, <1>5 DEF WaveInv, TerminationOK, Closed
  <2>2. \A j \in Replay : ~ Up(j)'
    BY <1>5 DEF WaveInv, TerminationOK, Up
  <2> QED
    BY <1>4, <1>5, <2>1, <2>2 DEF TerminationOK
<1>13. EndOK'
  BY <1>1, <1>4, <1>5, EndStays DEF WaveInv
<1> QED
  BY <1>9, <1>10, <1>11, <1>12, <1>13 DEF WaveInv

\* The audit looks at every replay that was taken and not completed; the sessions
\* of the others do not live.
LEMMA AuditEndsKeeps == ASSUME WaveInv, AuditEnds PROVE WaveInv'
<1>1. PICK d : d = coord
  OBVIOUS
<1>2. d \in Coordinator /\ ~ d.credit
  BY <1>1 DEF WaveInv, TypeOK, EndOK, AuditEnds, Running
<1>3. /\ Running /\ coord.term = "audit"
      /\ UNCHANGED <<wave, drift, faults, leaf, root, runner, session>>
  BY DEF AuditEnds, CoordinatorOnly
<1>4. JobsOK'
  BY <1>3 DEF WaveInv, JobsOK
<1>5. CASE /\ \A j \in pending : root[j].pid => session[j] \notin Live
           /\ coord' = [coord EXCEPT !.term = "done"]
  <2>1. PICK c : c = [d EXCEPT !.term = "done"]
    OBVIOUS
  <2>2. /\ c \in Coordinator /\ c.term = "done" /\ c.step = d.step
        /\ c.failure = d.failure /\ c.interrupted = d.interrupted /\ c.exit = d.exit
        /\ c.credit = d.credit
    BY <1>2, <2>1, TermIs
  <2>3. coord' = c
    BY <1>1, <1>5, <2>1
  <2>4. TypeOK'
    BY <1>3, <2>2, <2>3 DEF WaveInv, TypeOK
  <2>5. PoolOK'
    BY <1>1, <1>3, <2>2, <2>3 DEF WaveInv, PoolOK, pending
  <2>6. TerminationOK'
    <3>1. \A j \in Replay : session[j] \in Live => j \in pending
      BY DEF WaveInv, JobsOK, Job, Live, pending
    <3>2. \A j \in Replay : session[j] \in Live => ~ root[j].pid
      BY <1>5, <3>1
    <3>3. wave = "row" => \A j \in Replay : ~ Up(j)
      BY <1>3 DEF WaveInv, TerminationOK
    <3>4. Closed'
      BY <1>1, <1>3, <2>2, <2>3 DEF WaveInv, TerminationOK, Closed
    <3> QED
      BY <1>3, <3>2, <3>3, <3>4 DEF TerminationOK, Up
  <2>7. EndOK'
    BY <1>1, <1>3, <2>2, <2>3, EndStays DEF WaveInv
  <2> QED
    BY <1>4, <2>4, <2>5, <2>6, <2>7 DEF WaveInv
<1>6. CASE coord' = [coord EXCEPT !.term = "failed", !.exit = "failed", !.step = "exited"]
  <2>1. PICK e : e = [d EXCEPT !.term = "failed"]
    OBVIOUS
  <2>2. /\ e \in Coordinator /\ e.term = "failed" /\ e.failure = d.failure
        /\ e.interrupted = d.interrupted /\ e.credit = d.credit
    BY <1>2, <2>1, TermIs
  <2>3. PICK f : f = [e EXCEPT !.exit = "failed"]
    OBVIOUS
  <2>4. f \in Coordinator
    BY <2>2, <2>3 DEF Coordinator
  <2>5. /\ f.term = "failed" /\ f.failure = d.failure /\ f.interrupted = d.interrupted
        /\ f.credit = d.credit
    BY <2>2, <2>3 DEF Coordinator
  <2>6. PICK c : c = [f EXCEPT !.step = "exited"]
    OBVIOUS
  <2>7. c \in Coordinator
    BY <2>4, <2>6 DEF Coordinator
  <2>8. /\ c.term = "failed" /\ c.failure = d.failure /\ c.interrupted = d.interrupted
        /\ c.credit = d.credit /\ c.step = "exited"
    BY <2>4, <2>5, <2>6 DEF Coordinator
  <2>9. coord' = c
    BY <1>1, <1>6, <2>1, <2>3, <2>6
  <2>10. TypeOK'
    BY <1>3, <2>7, <2>9 DEF WaveInv, TypeOK
  <2>11. PoolOK'
    BY <1>1, <1>3, <2>8, <2>9 DEF WaveInv, PoolOK, pending
  <2>12. TerminationOK'
    BY <1>1, <1>3, <2>8, <2>9 DEF WaveInv, TerminationOK, Closed
  <2>13. EndOK'
    BY <1>2, <2>8, <2>9 DEF EndOK, CreditSound
  <2> QED
    BY <1>4, <2>10, <2>11, <2>12, <2>13 DEF WaveInv
<1> QED
  BY <1>5, <1>6 DEF AuditEnds

\* It exits because of a signal.
LEMMA SignalKeeps == ASSUME WaveInv, ExitOnSignal PROVE WaveInv'
<1>1. Running /\ MainOnly /\ Exit("signal")
  BY DEF ExitOnSignal, CoordinatorOnly, MainOnly, Exit
<1>2. NothingLeft
  BY Quiet DEF ExitOnSignal
<1> QED
  BY <1>1, <1>2, MainExits

\* Any step of the termination.
LEMMA TerminateKeeps == ASSUME WaveInv, Terminate PROVE WaveInv'
BY EscalateKeeps, AuditKeeps, AuditEndsKeeps, SignalKeeps DEF Terminate
-----------------------------------------------------------------------------
(* The surroundings *)

\* Somebody edits an input.
LEMMA EditKeeps == ASSUME WaveInv, Edit PROVE WaveInv'
<1>1. /\ Running /\ ~ Closed /\ faults' = faults + 1
      /\ UNCHANGED <<wave, coord, leaf, runner, session, root>>
  BY DEF Edit, Fault
<1>2. drift \subseteq drift' /\ drift' \subseteq Input
  BY DEF Edit, WaveInv, TypeOK
<1>3. TypeOK'
  BY <1>1, <1>2 DEF WaveInv, TypeOK
<1>4. JobsOK'
  BY <1>1, <1>2 DEF WaveInv, JobsOK, Job
<1>5. PoolOK'
  BY <1>1 DEF WaveInv, PoolOK, pending
<1>6. TerminationOK'
  BY <1>1 DEF WaveInv, TerminationOK, Closed, Up
<1>7. EndOK'
  BY <1>1, EndStays DEF WaveInv
<1> QED
  BY <1>3, <1>4, <1>5, <1>6, <1>7 DEF WaveInv

\* Somebody kills a launcher.
LEMMA KilledKeeps == ASSUME WaveInv, LauncherKilled PROVE WaveInv'
<1>1. PICK j \in Replay : runner' = [runner EXCEPT ![j] = Slain(runner[j])]
  BY DEF LauncherKilled
<1>2. /\ Running /\ faults' = faults + 1
      /\ UNCHANGED <<wave, drift, coord, leaf, session, root>>
  BY DEF LauncherKilled, Fault
<1>3. runner \in [Replay -> Launcher]
  BY DEF WaveInv, TypeOK
<1>4. /\ Slain(runner[j]) \in Launcher /\ Stopped(runner[j], Slain(runner[j]))
      /\ \A k \in Replay : Stopped(runner[k], runner[k])
  BY <1>3, SlainStops DEF Stopped
<1>5. RunnersStop
  BY <1>1, <1>3, <1>4 DEF RunnersStop
<1>6. TypeOK'
  BY <1>2, <1>5 DEF WaveInv, TypeOK, RunnersStop
<1>7. JobsOK' /\ \A k \in Replay : Up(k)' => Up(k)
  BY <1>2, <1>5, StopsKeepJobs
<1>8. PoolOK'
  BY <1>2 DEF WaveInv, PoolOK, pending
<1>9. TerminationOK'
  BY <1>2, <1>7 DEF WaveInv, TerminationOK, Closed
<1>10. EndOK'
  BY <1>2, EndStays DEF WaveInv
<1> QED
  BY <1>6, <1>7, <1>8, <1>9, <1>10 DEF WaveInv

\* An interrupt that starts nothing waits to be served.
LEMMA NotedKeeps ==
  ASSUME WaveInv, Running, coord' = [coord EXCEPT !.interrupted = TRUE],
         faults' \in Nat, UNCHANGED <<wave, drift, leaf, runner, session, root>>
  PROVE  WaveInv'
<1>1. PICK d : d = coord
  OBVIOUS
<1>2. d \in Coordinator
  BY <1>1 DEF WaveInv, TypeOK
<1>3. PICK c : c = [d EXCEPT !.interrupted = TRUE]
  OBVIOUS
<1>4. c \in Coordinator /\ c.interrupted
  BY <1>2, <1>3 DEF Coordinator
<1>5. /\ c.term = d.term /\ c.failure = d.failure /\ c.step = d.step /\ c.exit = d.exit
      /\ c.credit = d.credit
  BY <1>2, <1>3 DEF Coordinator
<1>6. coord' = c
  BY <1>1, <1>3
<1>7. TypeOK'
  BY <1>4, <1>6 DEF WaveInv, TypeOK
<1>8. JobsOK'
  BY DEF WaveInv, JobsOK
<1>9. PoolOK'
  BY <1>1, <1>5, <1>6 DEF WaveInv, PoolOK, pending
<1>10. TerminationOK'
  BY <1>1, <1>4, <1>5, <1>6 DEF WaveInv, TerminationOK, Closed, Up
<1>11. EndOK'
  BY <1>1, <1>5, <1>6, EndStays DEF WaveInv
<1> QED
  BY <1>7, <1>8, <1>9, <1>10, <1>11 DEF WaveInv

\* Somebody interrupts the coordinator.
LEMMA InterruptKeeps == ASSUME WaveInv, Interrupt PROVE WaveInv'
<1>1. /\ Running /\ faults' \in Nat /\ ~ coord.interrupted
      /\ UNCHANGED <<wave, drift, leaf, session, root>>
  BY DEF Interrupt, Fault, WaveInv, TypeOK
<1>2. CASE wave = "row" /\ coord.step \in {"preflight", "open"}
  <2>1. Exit("signal") /\ UNCHANGED runner
    BY <1>2 DEF Interrupt
  <2>2. NothingLeft
    BY <1>2, Quiet DEF WaveInv, PoolOK
  <2>3. PICK d : d = coord
    OBVIOUS
  <2>4. d \in Coordinator /\ ~ d.credit
    BY <1>1, <2>3 DEF WaveInv, TypeOK, EndOK, Running
  <2>5. PICK e : e = [d EXCEPT !.step = "exited"]
    OBVIOUS
  <2>6. /\ e \in Coordinator /\ e.step = "exited" /\ e.term = d.term
        /\ e.failure = d.failure
        /\ e.interrupted = d.interrupted /\ e.credit = d.credit
    BY <2>4, <2>5 DEF Coordinator
  <2>7. PICK c : c = [e EXCEPT !.exit = "signal"]
    OBVIOUS
  <2>8. c \in Coordinator
    BY <2>6, <2>7 DEF Coordinator
  <2>9. /\ c.step = "exited" /\ c.term = d.term /\ c.failure = d.failure
        /\ c.interrupted = d.interrupted /\ c.credit = d.credit
    BY <2>6, <2>7 DEF Coordinator
  <2>10. coord' = c
    BY <2>1, <2>3, <2>5, <2>7 DEF Exit
  <2>11. TypeOK'
    BY <1>1, <2>1, <2>8, <2>10 DEF WaveInv, TypeOK
  <2>12. JobsOK'
    BY <1>1, <2>1 DEF WaveInv, JobsOK
  <2>13. PoolOK'
    BY <1>1, <2>3, <2>9, <2>10 DEF WaveInv, PoolOK, pending
  <2>14. TerminationOK'
    BY <1>1, <2>1, <2>3, <2>9, <2>10 DEF WaveInv, TerminationOK, Closed, Up
  <2>15. EndOK'
    BY <1>1, <2>1, <2>2, <2>4, <2>9, <2>10 DEF EndOK, CreditSound, NothingLeft, Up
  <2> QED
    BY <2>11, <2>12, <2>13, <2>14, <2>15 DEF WaveInv
<1>3. CASE coord.step = "pool"
  <2>1. /\ coord' = [coord EXCEPT !.interrupted = TRUE, !.term = NextTerm,
                                  !.failure = @ \/ wave = "row"]
        /\ runner' = TermAll
    BY <1>3 DEF Interrupt
  <2>2. PICK d, t, b : d = coord /\ t = NextTerm /\ b = (coord.failure \/ wave = "row")
    OBVIOUS
  <2>3. d \in Coordinator /\ t \in {"none", "term", "kill", "audit", "done", "failed"}
    BY <2>2 DEF WaveInv, TypeOK, Coordinator, NextTerm
  <2>4. b \in BOOLEAN /\ (d.failure => b)
    BY <2>2
  <2>5. PICK e : e = [d EXCEPT !.interrupted = TRUE]
    OBVIOUS
  <2>6. /\ e \in Coordinator /\ e.interrupted /\ e.step = d.step /\ e.exit = d.exit
        /\ e.credit = d.credit
    BY <2>3, <2>5 DEF Coordinator
  <2>7. PICK f : f = [e EXCEPT !.term = t]
    OBVIOUS
  <2>8. f \in Coordinator
    BY <2>3, <2>6, <2>7, TermIs
  <2>9. f.term = t /\ f.interrupted = e.interrupted
    BY <2>3, <2>6, <2>7, TermIs
  <2>10. f.step = e.step /\ f.exit = e.exit /\ f.credit = e.credit
    BY <2>3, <2>6, <2>7, TermIs
  <2>11. /\ f \in Coordinator /\ f.term = t /\ f.interrupted /\ f.step = d.step
        /\ f.exit = d.exit /\ f.credit = d.credit
    BY <2>6, <2>8, <2>9, <2>10
  <2>12. PICK c : c = [f EXCEPT !.failure = b]
    OBVIOUS
  <2>13. c \in Coordinator
    BY <2>4, <2>11, <2>12 DEF Coordinator
  <2>14. /\ c.term = t /\ c.interrupted /\ c.step = d.step /\ c.exit = d.exit
         /\ c.credit = d.credit /\ c.failure = b
    BY <2>11, <2>12 DEF Coordinator
  <2>15. coord' = c
    <3>1. e.failure = d.failure /\ f.failure = e.failure
      BY <2>3, <2>5, <2>6, <2>7 DEF Coordinator
    <3> QED
      BY <2>1, <2>2, <2>5, <2>7, <2>12, <3>1
  <2>16. leaf' \in [Replay -> Leaf] /\ \A k \in Replay : leaf'[k] = leaf[k]
    BY <1>1 DEF WaveInv, TypeOK
  <2> QED
    BY <1>1, <2>1, <2>2, <2>4, <2>13, <2>14, <2>15, <2>16, TermStarts
<1>4. CASE ~ (wave = "row" /\ coord.step \in {"preflight", "open"}) /\ coord.step # "pool"
  <2>1. coord' = [coord EXCEPT !.interrupted = TRUE] /\ UNCHANGED runner
    BY <1>4 DEF Interrupt
  <2> QED
    BY <1>1, <2>1, NotedKeeps
<1> QED
  BY <1>2, <1>3, <1>4

\* Anything else that happens around the wave.
LEMMA SurroundingsKeep == ASSUME WaveInv, Surroundings PROVE WaveInv'
BY EditKeeps, KilledKeeps, InterruptKeeps DEF Surroundings
-----------------------------------------------------------------------------
(* The theorems *)

\* The first state.
LEMMA InitHolds == ASSUME Init PROVE WaveInv
<1>1. TypeOK
  <2>1. coord \in Coordinator
    BY DEF Init, Coordinator
  <2>2. leaf \in [Replay -> Leaf] /\ session \in [Replay -> Session]
    BY DEF Init, Leaf, Session
  <2>3. runner \in [Replay -> Launcher]
    BY DEF Init, Launcher, Code
  <2>4. root \in [Replay -> Root]
    BY DEF Init, Root, Code, Evidence
  <2> QED
    BY <2>1, <2>2, <2>3, <2>4 DEF Init, TypeOK
<1>2. JobsOK
  BY WaveAssumption DEF Init, JobsOK, Job
<1>3. PoolOK
  <2>1. pending = {}
    BY DEF Init, pending
  <2>2. Cardinality(pending) = 0
    BY <2>1, FS_EmptySet
  <2> QED
    BY <2>2, WaveAssumption DEF Init, PoolOK
<1>4. TerminationOK
  BY DEF Init, TerminationOK
<1>5. EndOK
  BY DEF Init, EndOK, CreditSound
<1> QED
  BY <1>1, <1>2, <1>3, <1>4, <1>5 DEF WaveInv

\* Every step.
LEMMA NextKeeps == ASSUME WaveInv, [Next]_vars PROVE WaveInv'
<1>1. CASE UNCHANGED vars
  BY <1>1 DEF vars, WaveInv, TypeOK, JobsOK, PoolOK, TerminationOK, EndOK, CreditSound,
              pending, Closed, Up
<1>2. CASE Next
  BY <1>2, CoordinateKeeps, TerminateKeeps, SurroundingsKeep, WorkKeeps, LaunchKeeps,
     ProofSessionKeeps DEF Next
<1> QED
  BY <1>1, <1>2

\* The invariant holds of both waves, whatever is edited, killed or interrupted,
\* and for any number of replays and workers.
THEOREM WavesHold == Spec => []WaveInv
<1>1. Init => WaveInv
  BY InitHolds
<1>2. WaveInv /\ [Next]_vars => WaveInv'
  BY NextKeeps
<1> QED
  BY <1>1, <1>2, PTL DEF Spec

\* A credited wave was proved: every replay ended the way its side calls for, read
\* only pinned definitions and tools, left the evidence both analyses bound, and
\* nothing of it runs any more (worker-result.json, proofCredit).
THEOREM CreditIsSound == Spec => []CreditSound
<1>1. WaveInv => CreditSound
  BY DEF WaveInv, EndOK
<1> QED
  BY <1>1, WavesHold, PTL

\* There are never more proof sessions than workers, and a full row that ended
\* without saying that a session survived leaves none behind, except the one whose
\* launcher was killed before it had noted the process id.
THEOREM SessionsAreOwned == Spec => []SessionsOwned
<1>1. ASSUME WaveInv PROVE SessionsOwned
  <2>1. {j \in Replay : session[j] \in Live} \subseteq pending
    BY <1>1 DEF WaveInv, JobsOK, Job, Live, pending
  <2>2. Cardinality({j \in Replay : session[j] \in Live}) <= Cardinality(pending)
    BY <2>1, PendingFinite, FS_Subset
  <2>3. Cardinality({j \in Replay : session[j] \in Live}) \in Nat
    BY <2>1, PendingFinite, FS_Subset, FS_CardinalityType
  <2>4. Cardinality({j \in Replay : session[j] \in Live}) <= MaxHeavy
    BY <1>1, <2>2, <2>3, PendingFinite, WaveAssumption DEF WaveInv, PoolOK
  <2>5. wave = "row" /\ coord.exit \in {"pass", "failed", "signal"} /\ coord.term # "failed"
        => \A j \in Replay : ~ Up(j) /\ (session[j] \in Live => Unrecorded(j))
    <3>1. coord.exit \in {"pass", "failed", "signal"} => coord.exit # None
      BY WaveAssumption
    <3> QED
      BY <1>1, <3>1 DEF WaveInv, EndOK, Unrecorded
  <2> QED
    BY <2>4, <2>5 DEF SessionsOwned
<1>2. WaveInv => SessionsOwned
  BY <1>1
<1> QED
  BY <1>2, WavesHold, PTL
=============================================================================
