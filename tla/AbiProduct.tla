----------------------------- MODULE AbiProduct -----------------------------
(***************************************************************************)
(* The static product of row ABI-04 and the coordinator that freezes it    *)
(* (evidence/candidate-2/formal/kevm/row-bundles/abi-04,                   *)
(* generate-abi-04-product-v2.mjs and anti-drift/): eleven generators run  *)
(* in a fixed order, twice, each reading hand-written sources and what     *)
(* earlier generators wrote; then plans, checks, eight reverse checks, two *)
(* rebuilds in copies, a test that the closure fails closed, and a closure *)
(* gate run twice.                                                         *)
(*                                                                         *)
(* A file is what it says and a digest is the file it is a digest of: an   *)
(* artifact is the function from the names its generator read to what they *)
(* held at that moment.  People keep working in the tree while the freeze  *)
(* runs: they edit sources, edit or delete outputs, and the process may    *)
(* die in the middle of a write.                                           *)
(***************************************************************************)
EXTENDS Naturals, Sequences, FiniteSets, SequencesExt, TLC

CONSTANTS
  Missing, Torn, Edited,  \* what is in place of an artifact: no file, a file
                          \* cut short, a file somebody changed by hand
  EditedSources,          \* sources that may be edited
  TouchedOutputs,         \* artifacts that may be edited or deleted by hand
  MaxDisturbances,        \* bound on edits, deletions and crashes together
  MaxRuns                 \* bound on freezes

VARIABLES
  tree,          \* the sources and the artifacts on disk
  freeze,        \* the coordinator
  disturbances,
  runs

vars == <<tree, freeze, disturbances, runs>>

FaultyStage ==
  <<"matrix", "dynamic-offset", "expected-graphs", "runner-pin",
    "orchestration", "dynamic-length", "aggregate", "symbolic-final",
    "finite-symbolic-bridge", "open-topology", "closure-manifest">>
Stage ==
  <<"matrix", "dynamic-offset", "expected-graphs", "runner-pin",
    "orchestration", "dynamic-length", "symbolic-final", "aggregate",
    "finite-symbolic-bridge", "open-topology", "closure-manifest">>

Stages == Range(Stage)

Outputs ==
  [s \in Stages |->
    CASE s = "matrix" ->
           <<"claims", "matrix", "mutation", "rowBridge", "rowManifest">>
      [] s = "dynamic-offset" -> <<"offset">>
      [] s = "expected-graphs" -> <<"graphs">>
      [] s = "runner-pin" -> <<"runner">>
      [] s = "orchestration" -> <<"orchestration">>
      [] s = "dynamic-length" -> <<"length">>
      [] s = "symbolic-final" -> <<"symbolic">>
      [] s = "aggregate" -> <<"aggregate">>
      [] s = "finite-symbolic-bridge" -> <<"bridge">>
      [] s = "open-topology" -> <<"topology">>
      [] s = "closure-manifest" -> <<"manifest">>]

OutputsOf(s) == Range(Outputs[s])
Artifacts == UNION {OutputsOf(s) : s \in Stages}

(* Files edited in place: the calibrated graphs and the launcher keep what *)
(* was written by hand and get new digests.  They are never rebuilt.       *)
Preserved == {"graphs", "runner"}

(* All artifacts but the claims (.k) and the launcher (.sh) have a JSON    *)
(* document; a torn artifact is one whose document is cut short.           *)
JsonArtifacts == Artifacts \ {"claims", "runner"}

(* Inside the scope of the closure: the generator and the hand-written     *)
(* files only it reads, one name each, and two receipts of a parse-only    *)
(* run.  Outside: the compiled runtimes, and the shared runner with the    *)
(* dependency lock.                                                        *)
OwnSources ==
  {"matrixSrc", "offsetSrc", "graphsSrc", "runnerSrc", "orchestrationSrc",
   "lengthSrc", "symbolicSrc", "aggregateSrc", "bridgeSrc", "topologySrc",
   "policy"}
Receipts == {"offsetParse", "lengthParse"}
OutsideSources == {"runtime", "repositoryRunner"}
Sources == OwnSources \cup Receipts \cup OutsideSources
InScope == OwnSources \cup Receipts \cup Artifacts

SourceValues(n) ==
  IF n = "matrixSrc" THEN {"corrected", "reworded", "recased"}
  ELSE IF n \in Receipts THEN {"absent", "present"}
  ELSE {"v1", "v2"}

Value(t, n) == IF n \in Artifacts THEN t.out[n] ELSE t.src[n]
Intact(x) == x \notin {Missing, Torn, Edited}

-----------------------------------------------------------------------------
(* What each generator reads for each artifact.                            *)

ClaimsReads == {"matrixSrc"}     \* the runtime is a macro there
MatrixReads == {"matrixSrc", "claims", "runtime"}
MutationReads == {"matrixSrc", "runtime"}
RowBridgeReads == {"matrixSrc", "claims", "matrix", "mutation", "runtime"}
RowManifestReads == {"matrixSrc", "matrix", "rowBridge"}
OffsetReads ==
  {"offsetSrc", "claims", "matrix", "mutation", "repositoryRunner"}
GraphsReads == {"graphsSrc", "offset"}
RunnerReads ==
  {"runnerSrc", "matrix", "mutation", "offset", "graphs", "repositoryRunner"}
OrchestrationReads ==
  {"orchestrationSrc", "matrix", "offset", "graphs", "runner",
   "repositoryRunner"}
LengthReads ==
  {"lengthSrc", "matrix", "mutation", "offset", "repositoryRunner"}
SymbolicReads == {"symbolicSrc", "matrix", "mutation"}
AggregateReads ==
  {"aggregateSrc", "matrix", "mutation", "rowBridge", "rowManifest",
   "symbolic"}
BridgeReads ==
  {"bridgeSrc", "matrix", "rowBridge", "rowManifest", "aggregate",
   "symbolic"}
TopologyReads ==
  {"topologySrc", "policy", "matrix", "mutation", "rowManifest", "bridge",
   "symbolic", "offset", "graphs", "runner", "orchestration"}
ManifestReads == InScope \ {"manifest"}

Reads ==
  [claims |-> ClaimsReads, matrix |-> MatrixReads,
   mutation |-> MutationReads, rowBridge |-> RowBridgeReads,
   rowManifest |-> RowManifestReads, offset |-> OffsetReads,
   graphs |-> GraphsReads, runner |-> RunnerReads,
   orchestration |-> OrchestrationReads, length |-> LengthReads,
   symbolic |-> SymbolicReads, aggregate |-> AggregateReads,
   bridge |-> BridgeReads, topology |-> TopologyReads,
   manifest |-> ManifestReads]

(* The bindings, a path with its digest, that an artifact's own document   *)
(* records of what was read: the closure verifier finds these by itself.   *)
(* Graphs and launcher record digests without a path next to them.         *)
OffsetBinds == {"claims", "matrix", "mutation", "repositoryRunner"}
LengthBinds == {"matrix", "mutation", "offset", "repositoryRunner"}
SymbolicBinds == {"symbolicSrc", "matrix", "mutation"}
BridgeBinds == Reads["bridge"]
TopologyBinds == Reads["topology"] \ {"orchestration"}

Binds ==
  [a \in Artifacts |->
    CASE a = "matrix" -> {"claims", "runtime"}
      [] a = "rowBridge" -> {"matrixSrc", "matrix", "mutation", "runtime"}
      [] a = "rowManifest" -> {"matrixSrc", "matrix", "rowBridge"}
      [] a = "offset" -> OffsetBinds
      [] a = "length" -> LengthBinds
      [] a = "symbolic" -> SymbolicBinds
      [] a = "aggregate" -> Reads["aggregate"] \ {"aggregateSrc"}
      [] a = "bridge" -> BridgeBinds
      [] a = "topology" -> TopologyBinds
      [] OTHER -> {}]

(* The artifact records the present value of each of the names.            *)
Bound(t, a, names) ==
  /\ Intact(t.out[a])
  /\ \A n \in names : t.out[a][n] = Value(t, n)

-----------------------------------------------------------------------------
(* What a generator refuses.                                               *)

(* The case list a version of the generator spells out.  The wording of a  *)
(* claim is no part of it.                                                 *)
Cases(version) == IF version = "reworded" THEN "corrected" ELSE version

(* The case list may not differ from the one on disk, unless the           *)
(* difference is the reviewed correction of the enum values.  The check    *)
(* has nothing to compare with when there is no file.                      *)
ReviewRefuses(t) ==
  LET prior == t.out["matrix"]
      current == Cases(t.src["matrixSrc"])
  IN  /\ prior # Missing
      /\ Intact(prior) =>
           LET before == Cases(prior["matrixSrc"])
           IN  /\ before # current
               /\ <<before, current>> # <<"legacy", "corrected">>

OffsetRefuses(t) == t.src["offsetParse"] = "present"
LengthRefuses(t) == t.src["lengthParse"] = "present"

(* A graph may be bound again only to a claim whose body is the one it was *)
(* calibrated with.                                                        *)
GraphsRefuse(t) ==
  LET offset == t.out["offset"]
  IN  \/ t.out["graphs"] \in {Missing, Torn}
      \/ /\ Intact(offset)
         /\ Intact(offset["claims"])
         /\ Cases(offset["claims"]["matrixSrc"]) = "recased"

RunnerRefuses(t) == t.out["runner"] \in {Missing, Torn}

Unreadable(t, s) ==
  \E a \in OutputsOf(s) :
    \E n \in (Reads[a] \cap Artifacts) \ OutputsOf(s) :
      t.out[n] \in (IF s = "closure-manifest" THEN {Missing}
                                              ELSE {Missing, Torn})

Refuses(t, s) ==
  \/ Unreadable(t, s)
  \/ s = "matrix" /\ ReviewRefuses(t)
  \/ s = "dynamic-offset" /\ OffsetRefuses(t)
  \/ s = "expected-graphs" /\ GraphsRefuse(t)
  \/ s = "runner-pin" /\ RunnerRefuses(t)
  \/ s = "dynamic-length" /\ LengthRefuses(t)

-----------------------------------------------------------------------------
(* Running a generator.                                                    *)

Put(t, a, x) == [t EXCEPT !.out = (a :> x) @@ @]
Emit(t, a) == Put(t, a, [n \in Reads[a] |-> Value(t, n)])

EmitAll(t, artifacts) == FoldLeft(Emit, t, artifacts)

(* The generator of the matrix writes its claims before it looks at the    *)
(* case list on disk.                                                      *)
Write(t, s) ==
  IF ~Refuses(t, s) THEN EmitAll(t, Outputs[s])
  ELSE IF s = "matrix" THEN Emit(t, "claims")
  ELSE t

Clean(t, s) == ~Refuses(t, s) /\ EmitAll(t, Outputs[s]) = t
RunAll(t) == FoldLeft(Write, t, Stage)

(* Sets of names in scope whose file differs, and the whole scope.         *)
Scope(t) == [n \in InScope |-> Value(t, n)]
Delta(before, after) == {n \in InScope : before[n] # after[n]}
Removed(before, after) ==
  {n \in Artifacts : before[n] # Missing /\ after[n] = Missing}

-----------------------------------------------------------------------------
(* The declared dependencies of the stages and what they say a change      *)
(* reaches.                                                                *)

DependsOn ==
  [s \in Stages |->
    CASE s = "matrix" -> {}
      [] s = "dynamic-offset" -> {"matrix"}
      [] s = "expected-graphs" -> {"dynamic-offset"}
      [] s = "runner-pin" -> {"dynamic-offset", "expected-graphs"}
      [] s = "orchestration" ->
           {"matrix", "dynamic-offset", "expected-graphs", "runner-pin"}
      [] s = "dynamic-length" -> {"matrix", "dynamic-offset"}
      [] s = "symbolic-final" -> {"matrix"}
      [] s = "aggregate" -> {"matrix", "symbolic-final"}
      [] s = "finite-symbolic-bridge" ->
           {"matrix", "dynamic-length", "aggregate"}
      [] s = "open-topology" ->
           {"matrix", "orchestration", "dynamic-length", "symbolic-final",
            "aggregate", "finite-symbolic-bridge"}
      [] s = "closure-manifest" -> Stages \ {"closure-manifest"}]

(* Stages are listed in an order that follows the dependencies, so one     *)
(* sweep is the fixpoint.                                                  *)
Impact(t) ==
  LET Reach(hit, s) ==
        IF ~Clean(t, s) \/ DependsOn[s] \cap hit # {} THEN hit \cup {s}
                                                      ELSE hit
  IN  FoldLeft(Reach, {}, Stage)

-----------------------------------------------------------------------------
(* The reverse checks read the documents again and compare what they       *)
(* record with the files, each in its own way.                             *)

(* The case matrix: every enum case has the corrected value, and what is   *)
(* recorded of the runtimes, the claims, the mutants, the bridge of the    *)
(* row and its manifest is what is there.                                  *)
EnumCorrected(t) == Cases(t.out["matrix"]["matrixSrc"]) = "corrected"
MatrixRuntimes(t) == Bound(t, "matrix", {"runtime"})
MatrixClaims(t) == Bound(t, "matrix", {"claims"})
RowBridgeBound(t) ==
  Bound(t, "rowBridge", {"matrixSrc", "matrix", "mutation", "runtime"})
MutantsBound(t) == Bound(t, "mutation", {"runtime"})
RowManifestBound(t) == Bound(t, "rowManifest", {"matrix", "rowBridge"})

ReverseMatrix(t) ==
  /\ MatrixRuntimes(t)
  /\ MatrixClaims(t)
  /\ EnumCorrected(t)
  /\ MutantsBound(t)
  /\ RowBridgeBound(t)
  /\ RowManifestBound(t)

(* The offset family: its claims against the matrix, its mutants, its      *)
(* runner.  A receipt of a parse made before the family was generated may  *)
(* not stay.                                                               *)
OffsetUnparsed(t) == t.src["offsetParse"] = "absent"
OffsetClaims(t) == Bound(t, "offset", {"claims", "matrix"})
OffsetMutants(t) == Bound(t, "offset", {"mutation"})
OffsetRunner(t) == Bound(t, "offset", {"repositoryRunner"})

ReverseOffset(t) ==
  OffsetUnparsed(t) /\ OffsetClaims(t) /\ OffsetMutants(t) /\ OffsetRunner(t)

(* The wave and its launcher: the launcher has the digests of every claim  *)
(* and every graph.                                                        *)
WaveBound(t) == Bound(t, "orchestration", {"matrix", "offset"})
LauncherClaims(t) == Bound(t, "runner", {"offset"})
WaveToolchain(t) == Bound(t, "orchestration", {"repositoryRunner"})
LauncherGraphs(t) ==
  Bound(t, "orchestration", {"graphs"}) /\ Bound(t, "runner", {"graphs"})

ReverseLeafV4(t) ==
  WaveBound(t) /\ LauncherClaims(t) /\ WaveToolchain(t) /\ LauncherGraphs(t)

(* The length family, against the offset family it is derived from too.    *)
LengthUnparsed(t) == t.src["lengthParse"] = "absent"
LengthClaims(t) == Bound(t, "length", {"matrix", "offset"})
LengthMutants(t) == Bound(t, "length", {"mutation"})
LengthRunner(t) == Bound(t, "length", {"repositoryRunner"})

ReverseLength(t) ==
  LengthUnparsed(t) /\ LengthClaims(t) /\ LengthMutants(t) /\ LengthRunner(t)

ReverseSymbolic(t) == Bound(t, "symbolic", SymbolicBinds)

ReverseAggregate(t) ==
  Bound(t, "aggregate",
        {"matrix", "mutation", "rowBridge", "rowManifest", "symbolic"})

ReverseBridge(t) == Bound(t, "bridge", BridgeBinds)

(* The pairs of the wave, the ledger of the replays, the binder of the     *)
(* row: together all of TopologyBinds.                                     *)
PairsBound(t) == Bound(t, "topology", {"offset", "graphs", "runner", "policy"})
LedgerBound(t) ==
  Bound(t, "topology", {"topologySrc", "matrix", "symbolic", "mutation"})
RowBinderBound(t) == Bound(t, "topology", {"rowManifest", "bridge"})

ReverseTopology(t) == PairsBound(t) /\ LedgerBound(t) /\ RowBinderBound(t)

ReverseChecks(t) ==
  /\ ReverseMatrix(t)
  /\ ReverseOffset(t)
  /\ ReverseLeafV4(t)
  /\ ReverseLength(t)
  /\ ReverseSymbolic(t)
  /\ ReverseAggregate(t)
  /\ ReverseBridge(t)
  /\ ReverseTopology(t)

-----------------------------------------------------------------------------
(* The closure verifier.                                                   *)

(* Every path of the manifest is there with the digest of the manifest.    *)
NodesExact(t) ==
  /\ Bound(t, "manifest", InScope \ {"manifest"})
  /\ \A a \in Artifacts : t.out[a] # Missing

(* It finds every path with a digest in every JSON document in scope,      *)
(* whatever the document, and compares that too: so files out of scope     *)
(* count when something in scope names them.                               *)
FaultyDeclarations(t) ==
  \A a \in Artifacts : Intact(t.out[a]) =>
    \A n \in Binds[a] \cap InScope : t.out[a][n] = Value(t, n)
Declarations(t) ==
  \A a \in Artifacts : Intact(t.out[a]) =>
    \A n \in Binds[a] : t.out[a][n] = Value(t, n)

ClosureOk(t) ==
  /\ \A a \in JsonArtifacts : t.out[a] # Torn
  /\ NodesExact(t)
  /\ Declarations(t)

(* Two verifiers have to give the same verdict, whatever the verdict is:   *)
(* of a document that cannot be parsed each repeats its own parser's       *)
(* message, and so they differ.                                            *)
VerdictsAgree(t) == \A a \in JsonArtifacts : t.out[a] # Torn

(* A copy with one file changed fails, by way of the manifest.             *)
FailsClosed(t) ==
  /\ VerdictsAgree(t)
  /\ Intact(t.out["manifest"])

-----------------------------------------------------------------------------
(* The coordinator.  "at" is the place in the pipeline; "blocked" is kept  *)
(* for a property: there was a reason to fail before the run began.        *)

Phases ==
  {"idle", "write", "plan", "check", "isolateA", "isolateB", "negative",
   "gate1", "gate2", "passed", "failed"}
Running(phase) == phase \notin {"idle", "passed", "failed"}

Nothing == <<>>

Rest(phase) ==
  [phase |-> phase, pass |-> 1, at |-> 1, quiet |-> TRUE, blocked |-> FALSE,
   impact |-> {}, touched |-> <<{}, {}>>, before |-> Nothing,
   prior |-> Nothing, first |-> Nothing, receipt |-> Nothing,
   canonical |-> Nothing]

Outcome(phase) ==
  [Rest(phase) EXCEPT !.quiet = freeze.quiet, !.blocked = freeze.blocked]

(* What no run gets past: see the property.                                *)
Blocked(t) ==
  \/ \E a \in JsonArtifacts : t.out[a] = Torn
  \/ \E a \in Preserved : t.out[a] \in {Missing, Torn}
  \/ ReviewRefuses(t)
  \/ t.src["matrixSrc"] = "recased"
  \/ \E n \in Receipts : t.src[n] = "present"

(* Every generator plans, both verifiers look at what there is, and the    *)
(* scope is recorded.                                                      *)
Begin ==
  /\ ~Running(freeze.phase)
  /\ runs < MaxRuns
  /\ runs' = runs + 1
  /\ freeze' =
       IF VerdictsAgree(tree)
       THEN [Rest("write") EXCEPT !.blocked = Blocked(tree),
                                  !.impact = Impact(tree),
                                  !.before = Scope(tree),
                                  !.prior = Scope(tree)]
       ELSE [Rest("failed") EXCEPT !.blocked = Blocked(tree)]
  /\ UNCHANGED <<tree, disturbances>>

(* One generator writes; then the scope is read again.  The first pass may *)
(* change files, the second may not.                                       *)
SecondPassOk(now, touched) == now = freeze.first /\ touched[2] = {}

RunStage ==
  LET s == Stage[freeze.at]
      after == Write(tree, s)
      now == Scope(after)
      touched == [freeze.touched EXCEPT
                    ![freeze.pass] = @ \cup Delta(freeze.prior, now)]
      moved == [freeze EXCEPT !.prior = now, !.touched = touched]
      refused == Refuses(tree, s) \/ Removed(freeze.prior, now) # {}
      last == freeze.at = Len(Stage)
  IN  /\ freeze.phase = "write"
      /\ tree' = after
      /\ \/ /\ ~refused /\ ~last
            /\ freeze' = [moved EXCEPT !.at = @ + 1]
         \/ /\ ~refused /\ last /\ freeze.pass = 1
            /\ freeze' = [moved EXCEPT !.at = 1, !.pass = 2, !.first = now]
         \/ /\ ~refused /\ last /\ freeze.pass = 2
            /\ SecondPassOk(now, touched)
            /\ freeze' = [freeze EXCEPT !.phase = "plan", !.prior = Nothing]
         \/ /\ \/ refused
               \/ last /\ freeze.pass = 2 /\ ~SecondPassOk(now, touched)
            /\ freeze' = Outcome("failed")
      /\ UNCHANGED <<disturbances, runs>>

(* A phase that only looks: on to the next one, or the end of the run.     *)
Look(phase, ok, next) ==
  /\ freeze.phase = phase
  /\ freeze' = IF ok THEN next ELSE Outcome("failed")
  /\ UNCHANGED <<tree, disturbances, runs>>

To(phase) == [freeze EXCEPT !.phase = phase]

(* Every generator plans again and finds nothing to do; what the first     *)
(* pass changed is what differs from the start, and is all generated.      *)
ManagedPlan ==
  LET changed == Delta(freeze.before, freeze.first)
  IN  Look("plan",
           /\ \A s \in Stages : Clean(tree, s)
           /\ Removed(freeze.before, freeze.first) = {}
           /\ freeze.touched[1] = changed
           /\ changed \subseteq Artifacts,
           [To("check") EXCEPT !.before = Nothing, !.first = Nothing,
                               !.receipt = tree.out])

CheckAndReverse ==
  Look("check", (\A s \in Stages : Clean(tree, s)) /\ ReverseChecks(tree),
       To("isolateA"))

(* A copy of the tree without what can be rebuilt, built from nothing.     *)
Stripped(t) ==
  [t EXCEPT !.out = [a \in Artifacts |->
                       IF a \in Preserved THEN t.out[a] ELSE Missing]]

Isolated(t, canonical) ==
  LET built == RunAll(Stripped(t))
  IN  /\ \A s \in Stages : Clean(built, s)
      /\ ReverseChecks(built)
      /\ Scope(built) = canonical

IsolateA ==
  Look("isolateA", Isolated(tree, Scope(tree)),
       [To("isolateB") EXCEPT !.canonical = Scope(tree)])

IsolateB ==
  Look("isolateB", Isolated(tree, freeze.canonical),
       [To("negative") EXCEPT !.canonical = Nothing])

NegativeTests == Look("negative", FailsClosed(tree), To("gate1"))

(* The gate compares the outputs with the receipt of the managed plan,     *)
(* then runs both verifiers, and then once more.                           *)
GateRun1 ==
  Look("gate1", tree.out = freeze.receipt /\ ClosureOk(tree),
       [To("gate2") EXCEPT !.receipt = Nothing])

GateRun2 == Look("gate2", ClosureOk(tree), Outcome("passed"))

-----------------------------------------------------------------------------
(* What goes on in the tree meanwhile.                                     *)

Disturb ==
  /\ disturbances < MaxDisturbances
  /\ disturbances' = disturbances + 1
  /\ UNCHANGED runs

Unquiet == freeze' = [freeze EXCEPT !.quiet = ~Running(freeze.phase) /\ @]

EditSource(n, value) ==
  /\ tree.src[n] # value
  /\ tree' = [tree EXCEPT !.src[n] = value]
  /\ Unquiet
  /\ Disturb

EditOutput(a, value) ==
  /\ tree.out[a] # value
  /\ tree' = Put(tree, a, value)
  /\ Unquiet
  /\ Disturb

(* The process dies in the middle of a stage: the outputs before the k-th  *)
(* are written, the k-th is cut short.                                     *)
Crash(k) ==
  LET s == Stage[freeze.at]
  IN  /\ freeze.phase = "write"
      /\ ~Refuses(tree, s)
      /\ k \in 1 .. Len(Outputs[s])
      /\ tree' = Put(EmitAll(tree, SubSeq(Outputs[s], 1, k - 1)),
                     Outputs[s][k], Torn)
      /\ freeze' = Rest("idle")
      /\ Disturb

-----------------------------------------------------------------------------
(* A checkout: everything generated from the same sources, the calibrated  *)
(* graphs and the launcher by hand before; or generated before the case    *)
(* list was corrected.                                                     *)
FirstSources ==
  [n \in Sources |->
    IF n = "matrixSrc" THEN "corrected"
    ELSE IF n \in Receipts THEN "absent"
    ELSE "v1"]

Unbuilt(src) ==
  [src |-> src,
   out |-> [a \in Artifacts |-> IF a \in Preserved THEN Edited ELSE Missing]]

Checkout(version) ==
  [RunAll(Unbuilt([FirstSources EXCEPT !["matrixSrc"] = version]))
     EXCEPT !.src = FirstSources]

Init ==
  /\ \E version \in {"corrected", "legacy"} : tree = Checkout(version)
  /\ freeze = Rest("idle")
  /\ disturbances = 0
  /\ runs = 0

Next ==
  \/ Begin
  \/ RunStage
  \/ ManagedPlan
  \/ CheckAndReverse
  \/ IsolateA
  \/ IsolateB
  \/ NegativeTests
  \/ GateRun1
  \/ GateRun2
  \/ \E n \in EditedSources : \E value \in SourceValues(n) :
       EditSource(n, value)
  \/ \E a \in TouchedOutputs : \E value \in {Edited, Missing} :
       EditOutput(a, value)
  \/ \E k \in 1 .. 5 : Crash(k)

Spec == Init /\ [][Next]_vars

-----------------------------------------------------------------------------
(* Whatever is edited, deleted or undone while a freeze runs, when it      *)
(* passes every artifact on disk is what its generator makes of what is    *)
(* there at that moment, the compiled runtimes and the runner included.    *)
FreezeSound ==
  [][ /\ freeze.phase # "passed"
      /\ freeze'.phase = "passed"
      => \A s \in Stages : Clean(tree', s) ]_vars

(* A run nobody disturbs passes, from any tree an earlier run, whole or    *)
(* interrupted, and any editing left, but for the causes named in Blocked. *)
QuietRunPasses ==
  [][ /\ freeze.phase # "failed"
      /\ freeze'.phase = "failed"
      /\ freeze'.quiet
      => freeze'.blocked ]_vars

=============================================================================
