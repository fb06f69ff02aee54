----------------------------- MODULE WaveRunner -----------------------------
(***************************************************************************)
(* The two coordinators that replay the ABI-04 proofs                      *)
(* (evidence/candidate-2/formal/kevm/row-bundles/abi-04): the wave of the  *)
(* dynamic-offset family ("s1", run-dynamic-offset-wave-v1.mjs) and the    *)
(* wave of the full row ("row", run-abi-04-row-wave-v1.mjs), with the      *)
(* launcher each replay runs in and the proof session the launcher owns.   *)
(*                                                                         *)
(* A coordinator hands the replays to one or two workers; a worker starts  *)
(* a launcher, which starts the proof in a session of its own, waits,      *)
(* clears the session and writes down what it saw; two analyzers then read *)
(* the output root, and when all replays passed the whole is checked again *)
(* before it is credited.  Meanwhile inputs are edited, processes are      *)
(* killed, the operator interrupts, and descendants of a proof outlive it. *)
(*                                                                         *)
(* A digest is the thing it is a digest of: an input either is the pinned  *)
(* one or has drifted, and what drifted never becomes the pinned one again.*)
(***************************************************************************)
EXTENDS Integers, Sequences, FiniteSets

CONSTANTS
  MaxHeavy,       \* --max-heavy, how many workers there are
  ExpectedExit,   \* replay -> exit code its side calls for, 0 or 1
  MaxFaults,      \* bound on edits, kills and interrupts together
  None

ASSUME WaveAssumption ==
  /\ MaxHeavy \in Nat \ {0}
  /\ ExpectedExit \in Seq({0, 1})
  /\ MaxFaults \in Nat
  /\ None \notin {0, 1} /\ None \notin {"failed", "signal", "pass"}

VARIABLES
  wave,      \* which coordinator runs
  drift,     \* inputs that are no longer the pinned ones
  faults,    \* how many faults have happened
  coord,     \* the coordinator's own control
  leaf,      \* replay -> what the worker that took it does with it
  runner,    \* replay -> its launcher
  session,   \* replay -> the proof session the launcher started
  root       \* replay -> what its output root holds

vars == <<wave, drift, faults, coord, leaf, runner, session, root>>

Replay == DOMAIN ExpectedExit

(* The replay index with the claims, tools and executables it pins; the    *)
(* compiled definitions; the closure freeze; the archived first wave.      *)
Input == {"sources", "definition", "closure", "s1"}

Live == {"proof", "lingering", "dying"}   \* sessions with processes

Init ==
  /\ wave \in {"s1", "row"}
  /\ drift = {} /\ faults = 0
  /\ coord = [step |-> "preflight", failure |-> FALSE, interrupted |-> FALSE,
              term |-> "none", credit |-> FALSE,
              exit |-> None]
  /\ leaf = [j \in Replay |-> "queued"]
  /\ runner = [j \in Replay |-> [step |-> "absent", cancelled |-> FALSE,
                                 failed |-> FALSE, exit |-> None]]
  /\ session = [j \in Replay |-> "none"]
  /\ root = [j \in Replay |->
       [exists |-> FALSE, pid |-> FALSE, before |-> {}, seen |-> {},
        proofExit |-> None, exit |-> None, evidence |-> "none",
        js |-> None, python |-> None]]

Running == coord.exit = None
Up(j) == runner[j].step \notin {"absent", "ended"}    \* childAlive

----------------------------------------------------------------------------
(* The proof session: setsid, timeout and the prover below it.             *)

(* The proof ends by itself or by the limit of two hours, with or without  *)
(* descendants left behind in its session; what it read includes every     *)
(* edit made until now.                                                    *)
ProofExits(j) ==
  /\ Running /\ session[j] = "proof"
  /\ \E code \in {0, 1}, left \in {"gone", "lingering"} :
       \E written \in IF code = ExpectedExit[j] THEN {"exact", "other"} ELSE {"other"} :
         /\ session' = [session EXCEPT ![j] = left]
         /\ root' = [root EXCEPT ![j].proofExit = code, ![j].seen = drift \ {"closure", "s1"},
                                 ![j].evidence = written]
  /\ UNCHANGED <<wave, drift, faults, coord, leaf, runner>>

(* A descendant writes into the proof directory after the proof ended. *)
Rewrite(j) ==
  /\ Running /\ session[j] \in {"lingering", "dying"}
  /\ root[j].evidence = "exact"
  /\ root' = [root EXCEPT ![j].evidence = "rewritten"]
  /\ UNCHANGED <<wave, drift, faults, coord, leaf, runner, session>>

(* Processes that were sent SIGKILL leave the process table. *)
Dies(j) ==
  /\ Running /\ session[j] = "dying"
  /\ session' = [session EXCEPT ![j] = "gone"]
  /\ root' = [root EXCEPT ![j].proofExit = IF @ = None THEN 143 ELSE @]
  /\ UNCHANGED <<wave, drift, faults, coord, leaf, runner>>

ProofSession(j) == ProofExits(j) \/ Rewrite(j) \/ Dies(j)

Killed(s) == IF s \in Live THEN "dying" ELSE s

----------------------------------------------------------------------------
(* The launcher of one replay.                                             *)

LauncherOnly ==
  Running /\ UNCHANGED <<wave, drift, faults, coord, leaf>>

(* An error nobody catches ends a launcher with 1, which is also what a    *)
(* negative replay is expected to return.                                  *)
LauncherEnds(j, code) ==
  runner' = [runner EXCEPT ![j].step = "ended", ![j].exit = code]

(* Every pinned input is hashed and the closure freeze verified. *)
LauncherVerify(j) ==
  /\ runner[j].step = "verify"
  /\ IF drift \cap {"sources", "definition", "closure"} = {}
       THEN runner' = [runner EXCEPT ![j].step = "prepare"]
       ELSE LauncherEnds(j, 1)
  /\ UNCHANGED <<session, root>>
  /\ LauncherOnly

(* The output root is made, the inputs are copied into the snapshot and    *)
(* their live hashes written down; then the signal handlers are installed  *)
(* and the proof is spawned, in a session of its own...                    *)
LauncherPrepare(j) ==
  /\ runner[j].step = "prepare"
  /\ IF root[j].exists
       THEN LauncherEnds(j, 1) /\ UNCHANGED <<root, session>>
       ELSE /\ runner' = [runner EXCEPT ![j].step = "record"]
            /\ root' = [root EXCEPT ![j].exists = TRUE, ![j].before = drift \ {"s1"}]
            /\ session' = [session EXCEPT ![j] = "proof"]
  /\ LauncherOnly

(* ... and its process id is written down. *)
LauncherRecord(j) ==
  /\ runner[j].step = "record"
  /\ runner' = [runner EXCEPT ![j].step = "identify"]
  /\ root' = [root EXCEPT ![j].pid = TRUE]
  /\ UNCHANGED session
  /\ LauncherOnly

(* The birth and session receipts need a child seen alive in a session of  *)
(* its own; a child that ended first, or is not isolated in time, fails.   *)
LauncherIdentify(j) ==
  /\ runner[j].step = "identify"
  /\ \/ /\ session[j] = "proof" /\ ~runner[j].cancelled
        /\ runner' = [runner EXCEPT ![j].step = "wait"]
     \/ runner' = [runner EXCEPT ![j].step = "cleanup", ![j].failed = TRUE]
  /\ UNCHANGED <<session, root>>
  /\ LauncherOnly

(* The proof's output is waited for instead of the proof: descendants that *)
(* keep it open are waited for as well.                                    *)
FaultyLauncherWait(j) ==
  /\ runner[j].step = "wait"
  /\ runner[j].cancelled \/ session[j] = "gone"
  /\ runner' = [runner EXCEPT ![j].step = "cleanup"]
  /\ UNCHANGED <<session, root>>
  /\ LauncherOnly

LauncherWait(j) ==
  /\ runner[j].step = "wait"
  /\ runner[j].cancelled \/ session[j] \in {"lingering", "gone"}
  /\ runner' = [runner EXCEPT ![j].step = "cleanup"]
  /\ UNCHANGED <<session, root>>
  /\ LauncherOnly

(* Whatever is left of the session is killed and awaited; what does not go *)
(* in time is an error.  A cancelled launcher exits when that is done.     *)
clearOwnedProcesses(j) ==
  /\ runner[j].step = "cleanup"
  /\ \/ /\ session[j] \in Live \ {"dying"}
        /\ session' = [session EXCEPT ![j] = "dying"]
        /\ UNCHANGED runner
     \/ /\ session[j] = "dying"
        /\ LauncherEnds(j, 1)
        /\ UNCHANGED session
     \/ /\ session[j] = "gone"
        /\ IF runner[j].cancelled THEN LauncherEnds(j, 143)
           ELSE IF runner[j].failed THEN LauncherEnds(j, 1)
           ELSE runner' = [runner EXCEPT ![j].step = "after"]
        /\ UNCHANGED session
  /\ UNCHANGED root
  /\ LauncherOnly

(* The exit code of a launcher that came to its end: the proof's own, or   *)
(* that of what is wrong, the gravest last.                                *)
FinalExit(j) ==
  IF session[j] \in Live THEN 75
  ELSE IF root[j].before # drift \ {"s1"} THEN 74
  ELSE IF root[j].proofExit # ExpectedExit[j] THEN 76
  ELSE root[j].proofExit

(* Survivors, live hashes and closure are looked at again. *)
LauncherAfter(j) ==
  /\ runner[j].step = "after"
  /\ IF drift \cap {"sources", "closure"} # {}
       THEN LauncherEnds(j, 1) /\ UNCHANGED root
       ELSE /\ root' = [root EXCEPT ![j].exit = FinalExit(j)]
            /\ LauncherEnds(j, FinalExit(j))
  /\ UNCHANGED session
  /\ LauncherOnly

Launch(j) ==
  \/ LauncherVerify(j) \/ LauncherPrepare(j) \/ LauncherRecord(j)
  \/ LauncherIdentify(j) \/ LauncherWait(j)
  \/ clearOwnedProcesses(j) \/ LauncherAfter(j)

(* What SIGTERM does to a launcher: before it has handlers and after it    *)
(* removed them it ends, in between it cancels the proof.                  *)
Terminated(launcher) ==
  IF launcher.step \in {"record", "identify", "wait", "cleanup"}
    THEN [launcher EXCEPT !.cancelled = TRUE]
  ELSE IF launcher.step \in {"verify", "prepare", "after"}
    THEN [launcher EXCEPT !.step = "ended", !.exit = 137]
  ELSE launcher

Slain(launcher) ==
  IF launcher.step \in {"absent", "ended"} THEN launcher
  ELSE [launcher EXCEPT !.step = "ended", !.exit = 137]

----------------------------------------------------------------------------
(* The analyses of an output root.                                         *)

(* The launcher's own exit code is not read. *)
FaultyAcceptsRow(j) ==
  /\ root[j].proofExit = ExpectedExit[j]
  /\ root[j].before = {}
  /\ root[j].evidence \in {"exact", "rewritten"}

(* The analyzers of the full row: the files the launcher wrote at its end  *)
(* are there and say what the side calls for, the live inputs were the     *)
(* pinned ones, and the graph is within the acceptance contract.           *)
AcceptsRow(j) ==
  /\ root[j].exit = ExpectedExit[j] /\ root[j].proofExit = ExpectedExit[j]
  /\ root[j].before = {}
  /\ root[j].evidence \in {"exact", "rewritten"}

(* Those of the first wave compare the claim and the definition among the  *)
(* live inputs with what is pinned, and not the closure freeze.            *)
AcceptsS1(j) ==
  /\ root[j].exit = ExpectedExit[j] /\ root[j].proofExit = ExpectedExit[j]
  /\ root[j].before \cap {"sources", "definition"} = {}
  /\ root[j].evidence \in {"exact", "rewritten"}

Accepts(j) == IF wave = "row" THEN AcceptsRow(j) ELSE AcceptsS1(j)

(* The raw evidence a report binds still is what is on disk. *)
verifyRawBindings(j, report) == report = root[j].evidence

----------------------------------------------------------------------------
(* Termination.                                                            *)

(* The first wave signals the groups of its children and arms a timer; the *)
(* full row signals its launchers and follows up in the steps below.  Both *)
(* do so once.                                                             *)
TermAll ==
  IF coord.term = "none"
    THEN [j \in Replay |-> Terminated(runner[j])] ELSE runner

NextTerm == IF coord.term = "none" THEN "term" ELSE coord.term

CoordinatorOnly ==
  UNCHANGED <<wave, drift, faults, leaf, root>>

(* Launchers that outlast their grace are killed. *)
Escalate ==
  /\ Running /\ coord.term = "term"
  /\ runner' = [j \in Replay |-> Slain(runner[j])]
  /\ coord' = [coord EXCEPT !.term = IF wave = "row" THEN "kill" ELSE "done"]
  /\ UNCHANGED session
  /\ CoordinatorOnly

(* A replay leaves the table when its launcher failed. *)
FaultyPending == {j \in Replay : leaf[j] \in {"running", "js", "python"}}

pending == {j \in Replay : leaf[j] \notin {"queued", "completed"}}

(* The sessions of every replay taken but without a leaf result are looked *)
(* up by the process id the launcher wrote down, and killed.               *)
auditOwnedProofSessions ==
  /\ Running /\ wave = "row" /\ coord.term = "kill"
  /\ session' = [j \in Replay |->
       IF j \in pending /\ root[j].pid THEN Killed(session[j]) ELSE session[j]]
  /\ coord' = [coord EXCEPT !.term = "audit"]
  /\ UNCHANGED runner
  /\ CoordinatorOnly

(* The audit waits; a session still there in the end is an error. *)
AuditEnds ==
  /\ Running /\ coord.term = "audit"
  /\ \/ /\ \A j \in pending : root[j].pid => session[j] \notin Live
        /\ coord' = [coord EXCEPT !.term = "done"]
     \/ /\ \E j \in pending : root[j].pid /\ session[j] \in Live
        /\ coord' = [coord EXCEPT !.term = "failed", !.exit = "failed",
                                  !.step = "exited"]
  /\ UNCHANGED <<runner, session>>
  /\ CoordinatorOnly

(* The handler of the full row ends the process when the audit is done. *)
ExitOnSignal ==
  /\ Running /\ wave = "row" /\ coord.interrupted
  /\ coord.step = "pool" /\ coord.term = "done"
  /\ coord' = [coord EXCEPT !.exit = "signal", !.step = "exited"]
  /\ UNCHANGED <<runner, session>>
  /\ CoordinatorOnly

Terminate == Escalate \/ auditOwnedProofSessions \/ AuditEnds \/ ExitOnSignal

----------------------------------------------------------------------------
(* The workers.                                                            *)

WorkerOnly == UNCHANGED <<wave, drift, faults, session>>

(* The replay failed.  A worker of the full row awaits the termination it  *)
(* asked for; one of the first wave goes back to its loop.                 *)
Fail(j) ==
  /\ coord' = [coord EXCEPT !.failure = TRUE, !.term = NextTerm]
  /\ runner' = TermAll
  /\ leaf' = [leaf EXCEPT ![j] = IF wave = "row" THEN "stopping" ELSE "failed"]

Closed == coord.failure \/ coord.interrupted

Busy == {j \in Replay : leaf[j] \in {"running", "js", "python", "stopping"}}

(* A worker that is free takes the next replay and starts its launcher, in *)
(* one turn.                                                               *)
Execute(j) ==
  /\ Running /\ coord.step = "pool" /\ ~Closed
  /\ Cardinality(Busy) < MaxHeavy
  /\ leaf[j] = "queued" /\ \A i \in 1 .. j - 1 : leaf[i] # "queued"
  /\ leaf' = [leaf EXCEPT ![j] = "running"]
  /\ runner' = [runner EXCEPT ![j].step = "verify"]
  /\ UNCHANGED <<coord, root>>
  /\ WorkerOnly

WorkerStops(j) ==
  /\ Running /\ leaf[j] = "stopping" /\ coord.term = "done"
  /\ leaf' = [leaf EXCEPT ![j] = "failed"]
  /\ UNCHANGED <<coord, runner, root>>
  /\ WorkerOnly

(* The launcher ended: its exit must be the one the side calls for; the    *)
(* first wave gives up as well when it was cancelled.                      *)
LauncherEnded(j) ==
  /\ Running /\ leaf[j] = "running" /\ runner[j].step = "ended"
  /\ IF runner[j].exit = ExpectedExit[j] /\ (wave = "s1" => ~coord.interrupted)
       THEN /\ leaf' = [leaf EXCEPT ![j] = "js"]
            /\ UNCHANGED <<coord, runner>>
       ELSE Fail(j)
  /\ UNCHANGED root
  /\ WorkerOnly

(* The JavaScript analysis.  In the first wave the analyzers are children  *)
(* like the launchers and a termination ends them.                         *)
AnalyzeJs(j) ==
  /\ Running /\ leaf[j] = "js"
  /\ \/ /\ Accepts(j)
        /\ root' = [root EXCEPT ![j].js = root[j].evidence]
        /\ leaf' = [leaf EXCEPT ![j] = "python"]
        /\ UNCHANGED <<coord, runner>>
     \/ /\ ~Accepts(j) \/ (wave = "s1" /\ coord.term # "none")
        /\ Fail(j)
        /\ UNCHANGED root
  /\ WorkerOnly

(* The Python analysis, which must agree, and the leaf result. *)
AnalyzePython(j) ==
  /\ Running /\ leaf[j] = "python"
  /\ \/ /\ Accepts(j) /\ verifyRawBindings(j, root[j].js)
        /\ root' = [root EXCEPT ![j].python = root[j].evidence]
        /\ leaf' = [leaf EXCEPT ![j] = "completed"]
        /\ UNCHANGED <<coord, runner>>
     \/ /\ \/ ~Accepts(j) \/ ~verifyRawBindings(j, root[j].js)
           \/ wave = "s1" /\ coord.term # "none"
        /\ Fail(j)
        /\ UNCHANGED root
  /\ WorkerOnly

Work(j) ==
  Execute(j) \/ WorkerStops(j) \/ LauncherEnded(j) \/ AnalyzeJs(j) \/ AnalyzePython(j)

----------------------------------------------------------------------------
(* The coordinators.                                                       *)

MainOnly ==
  UNCHANGED <<wave, drift, faults, leaf, runner, session, root>>

Exit(how) == coord' = [coord EXCEPT !.step = "exited", !.exit = how]

(* The archived first wave is rehashed and each of its replays analysed    *)
(* again, before the full row imports it.                                  *)
verifyHistoricalS1 == "s1" \notin drift

(* Index, contract, claims, tools, executables and closure are verified. *)
PreflightRow == drift \cap {"sources", "closure"} = {} /\ verifyHistoricalS1

(* Frozen plan and toolchain, and a printed command for every replay. *)
PreflightS1 == drift \cap {"sources", "closure"} = {}

Preflight ==
  /\ Running /\ coord.step = "preflight"
  /\ IF IF wave = "row" THEN PreflightRow ELSE PreflightS1
       THEN coord' = [coord EXCEPT !.step = "open"]
       ELSE Exit("failed")
  /\ MainOnly

(* The wave root is made; the first wave verifies the closure freeze once  *)
(* more.                                                                   *)
OpenRoot ==
  /\ Running /\ coord.step = "open"
  /\ IF wave = "s1" /\ drift \cap {"sources", "closure"} # {}
       THEN Exit("failed")
       ELSE coord' = [coord EXCEPT !.step = "pool"]
  /\ MainOnly

WorkersEnded == Busy = {} /\ (Closed \/ \A j \in Replay : leaf[j] # "queued")

(* When a replay failed or the wave was cancelled it ends in failure, the  *)
(* full row only after termination is done.                                *)
PoolEnds ==
  /\ Running /\ coord.step = "pool" /\ WorkersEnded
  /\ Closed /\ wave = "row" => coord.term = "done" /\ ~coord.interrupted
  /\ IF Closed THEN Exit("failed") ELSE coord' = [coord EXCEPT !.step = "seal"]
  /\ MainOnly

(* The closure freeze is listed and verified again, all replays must have  *)
(* their leaf results, and the result of the wave is written.              *)
Seal ==
  /\ Running /\ coord.step = "seal"
  /\ IF /\ \A j \in Replay : leaf[j] = "completed"
        /\ drift \cap {"sources", "closure"} = {}
        /\ wave = "s1" => ~coord.interrupted
       THEN coord' = [coord EXCEPT !.step = "reverse"]
       ELSE Exit("failed")
  /\ MainOnly

(* Every output root is analysed again and must give what is stored. *)
Reanalysed ==
  \A j \in Replay : /\ Accepts(j)
                    /\ root[j].js = root[j].evidence
                    /\ root[j].python = root[j].evidence

(* The independent check of the full row: contract, executables, claims,   *)
(* archive, output roots and closure, from what is on disk.                *)
ReverseRow == PreflightRow /\ Reanalysed

(* That of the first wave, and before it the binder that pairs the two     *)
(* replays of each claim.                                                  *)
BindPairs == PreflightS1 /\ Reanalysed
ReverseS1 == PreflightS1 /\ Reanalysed

(* The worker result is the credit; a pending interrupt of the full row    *)
(* is served only now.                                                     *)
Credit ==
  /\ Running /\ coord.step = "reverse"
  /\ IF IF wave = "row" THEN ReverseRow
        ELSE BindPairs /\ ReverseS1 /\ ~coord.interrupted
       THEN coord' = [coord EXCEPT !.step = "exited", !.credit = TRUE,
                        !.exit = IF coord.interrupted THEN "signal" ELSE "pass"]
       ELSE Exit("failed")
  /\ MainOnly

Coordinate == Preflight \/ OpenRoot \/ PoolEnds \/ Seal \/ Credit

----------------------------------------------------------------------------
(* What the surroundings may do.                                           *)

Fault == Running /\ faults < MaxFaults /\ faults' = faults + 1

Edit ==
  /\ Fault /\ ~Closed
  /\ \E input \in (IF wave = "row" THEN Input ELSE Input \ {"s1"}) \ drift :
       drift' = drift \cup {input}
  /\ UNCHANGED <<wave, coord, leaf, runner, session, root>>

(* A launcher is killed from outside; its session stays. *)
LauncherKilled ==
  /\ Fault
  /\ \E j \in Replay : Up(j) /\ runner' = [runner EXCEPT ![j] = Slain(@)]
  /\ UNCHANGED <<wave, drift, coord, leaf, session, root>>

(* The operator interrupts: before there are handlers the coordinator just *)
(* ends; during the pool termination starts; while the full row is sealed, *)
(* all is one turn and the signal waits.                                   *)
Interrupt ==
  /\ Fault /\ ~coord.interrupted
  /\ CASE wave = "row" /\ coord.step \in {"preflight", "open"} ->
            Exit("signal") /\ UNCHANGED runner
       [] coord.step = "pool" ->
            /\ coord' = [coord EXCEPT !.interrupted = TRUE, !.term = NextTerm,
                                      !.failure = @ \/ wave = "row"]
            /\ runner' = TermAll
       [] OTHER ->
            coord' = [coord EXCEPT !.interrupted = TRUE] /\ UNCHANGED runner
  /\ UNCHANGED <<wave, drift, leaf, session, root>>

Surroundings == Edit \/ LauncherKilled \/ Interrupt

Next ==
  \/ Coordinate \/ Terminate \/ Surroundings
  \/ \E j \in Replay : Work(j) \/ Launch(j) \/ ProofSession(j)

(* Something that can move does: no fairness among the processes is needed *)
(* and none towards the surroundings or a descendant that writes.          *)
Progress ==
  \/ Coordinate \/ Terminate
  \/ \E j \in Replay : Work(j) \/ Launch(j) \/ ProofExits(j) \/ Dies(j)

Spec == Init /\ [][Next]_vars /\ WF_vars(Progress)

----------------------------------------------------------------------------
(* A launcher killed between the spawn of a proof and the note of its      *)
(* process id leaves a session nobody can find.                            *)
Unrecorded(j) == session[j] \in Live /\ ~root[j].pid

(* When the full row ended on its own account, without saying that a       *)
(* session survived, no proof session it started is alive, whoever was     *)
(* killed or interrupted before; and at no time do more sessions live than *)
(* there are workers (auditOwnedProofSessions, terminateActive, worker).   *)
SessionsOwned ==
  /\ Cardinality({j \in Replay : session[j] \in Live}) <= MaxHeavy
  /\ /\ wave = "row"
     /\ coord.exit \in {"pass", "failed", "signal"} /\ coord.term # "failed"
     => \A j \in Replay : ~Up(j) /\ (session[j] \in Live => Unrecorded(j))

(* A credited wave has, for every replay, a proof that ended the way its   *)
(* side calls for, that read nothing but pinned definitions and tools, and *)
(* whose evidence is still the one both analyses bound, with no process    *)
(* left that could change it (worker-result.json, proofCredit).            *)
CreditSound ==
  coord.credit =>
    \A j \in Replay :
      /\ root[j].proofExit = ExpectedExit[j]
      /\ root[j].seen \cap {"sources", "definition"} = {}
      /\ root[j].evidence \in {"exact", "rewritten"}
      /\ root[j].js = root[j].evidence /\ root[j].python = root[j].evidence
      /\ session[j] = "gone"

(* Every wave ends, whatever fails (the races against time in              *)
(* terminateActive and terminate, timeout around the prover).              *)
WaveEnds == <>(coord.exit # None)
=============================================================================
