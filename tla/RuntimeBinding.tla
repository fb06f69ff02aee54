--------------------------- MODULE RuntimeBinding ---------------------------
(***************************************************************************)
(* The runtime binding of candidate 2, kept for its replay                 *)
(* (scripts/generate-runtime-binding.mjs, generate-pure-runtime-           *)
(* fixture.mjs and verify-runtime-binding.mjs): compiler inputs and        *)
(* outputs recorded with the sources they came from, runtimes resolved     *)
(* from them, and a receipt that qualifies both.                           *)
(*                                                                         *)
(* Sources are edited, Foundry rebuilt, and the two generators run and     *)
(* killed between any two of their files, in whatever order.               *)
(*                                                                         *)
(* A source is its version; versions 0 and 1 differ in a comment.  A       *)
(* digest of a file is the contents of that file, None that it is missing. *)
(***************************************************************************)
EXTENDS Integers, Sequences, SequencesExt

CONSTANTS
  Editable,    \* the sources that are edited
  MaxEdits,    \* bound on edits of sources
  MaxBuilds,   \* bound on Foundry builds
  MaxRuns,     \* bound on generators started
  None         \* no such file, no such process

ASSUME BindingAssumption ==
  /\ Editable \subseteq {"token", "governor", "mock", "types"}
  /\ MaxEdits \in Nat /\ MaxBuilds \in Nat /\ MaxRuns \in Nat

VARIABLES
  source,    \* source file -> version
  out,       \* subject -> its artifact, as Foundry last built it
  disk,      \* file of the binding -> contents
  running,   \* the generator that runs, with what it has still to write
  edits, builds, runs

vars == <<source, out, disk, running, edits, builds, runs>>

-----------------------------------------------------------------------------
(* Bundles, their subjects and sources, and the files of the binding.      *)

bundles == <<"native", "verified-profile">>
Bundles == ToSet(bundles)

(* The subjects, in the order of their deployment.                         *)
labels == <<"TrustToken", "MockERC3643Token", "ProfileGovernor">>
Labels == ToSet(labels)
subjects(b) ==
  IF b = "native" THEN {"TrustToken"} ELSE {"MockERC3643Token", "ProfileGovernor"}
bundleOf(l) == CHOOSE b \in Bundles : l \in subjects(b)

(* A contract and the sources it imports; the mock imports no kernel.      *)
importClosure(l) ==
  CASE l = "TrustToken" -> {"token", "types"}
    [] l = "ProfileGovernor" -> {"governor", "types"}
    [] l = "MockERC3643Token" -> {"mock"}

BundleFiles == {"input", "output", "bridge", "identities"}
Manifest == <<"binding", "manifest">>
Fixture  == <<"binding", "fixture">>
Receipt  == <<"binding", "receipt">>
Files == (Bundles \X BundleFiles) \cup {<<l, "hex">> : l \in Labels}
           \cup {Manifest, Fixture, Receipt}

W(f, c) == [file |-> f, to |-> c]

Written(d, ws) == FoldLeft(LAMBDA e, w : [e EXCEPT ![w.file] = w.to], d, ws)

-----------------------------------------------------------------------------
(* Compiling and cross-checking.                                           *)

(* The standard JSON input of a bundle: the text of every source.          *)
exactInput(s, b) == [x \in UNION {importClosure(l) : l \in subjects(b)} |-> s[x]]

(* The raw output has syntax trees, source maps and metadata: it tells any *)
(* two inputs apart.                                                       *)
runSolc(input) == input

(* What the output of a bundle says of one contract.                       *)
compilerContract(output, l) == [x \in importClosure(l) |-> output[x]]

(* What the six projections tell apart: no metadata is appended to the     *)
(* bytecode, so a comment changes none of them.                            *)
Semantics(compiled) == [x \in DOMAIN compiled |-> compiled[x] \div 2]

(* A Foundry artifact is what it was built of and how it was packaged; no  *)
(* build packages it the way the verifier's mutation does.                 *)
Packagings == 0..1
Mutated == 2
Artifact(s, l, p) == [of |-> [x \in importClosure(l) |-> s[x]], packaging |-> p]

semanticChecks(artifact, compiled) == Semantics(artifact.of) = Semantics(compiled)

foundryCrossCheck(o, l, compiled) ==
  o[l] # None /\ semanticChecks(o[l], compiled)

subjectBridge(o, l, compiled) == [compiled |-> Semantics(compiled), artifact |-> o[l]]

(* The four files of a bundle, in the order they are written.              *)
BundleWrites(s, o, b) ==
  LET input  == exactInput(s, b)
      output == runSolc(input)
  IN  << W(<<b, "input">>, input),
         W(<<b, "output">>, output),
         W(<<b, "bridge">>,
           [l \in subjects(b) |-> subjectBridge(o, l, compilerContract(output, l))]),
         W(<<b, "identities">>, input) >>

ManifestOf(public, d) ==
  [public |-> public, files |-> [b \in Bundles |-> [f \in BundleFiles |-> d[<<b, f>>]]]]

-----------------------------------------------------------------------------
(* Resolving the runtimes: the templates of the recorded outputs with the  *)
(* values of their immutables.  Those of the historical deployment do not  *)
(* change, but for one: the governor pins the code of the resolved token.  *)

Recorded(d, l) == compilerContract(d[<<bundleOf(l), "output">>], l)

patchRuntime(compiled, values) == [code |-> Semantics(compiled), immutables |-> values]

tokenCodeId(d) == patchRuntime(Recorded(d, "MockERC3643Token"), <<>>)
valuesByLabel(d, l) == IF l = "ProfileGovernor" THEN <<tokenCodeId(d)>> ELSE <<>>

Resolved(d, l) == patchRuntime(Recorded(d, l), valuesByLabel(d, l))

Resolvable(d) == d[Manifest] # None

HexWrites(d) ==
  [i \in DOMAIN labels |-> W(<<labels[i], "hex">>, Resolved(d, labels[i]))]

FixtureOf(d) ==
  [manifest |-> d[Manifest], hex |-> [l \in Labels |-> Resolved(d, l)]]

FixtureWrites(d) == HexWrites(d) \o << W(Fixture, FixtureOf(d)) >>

(* The runtimes are held against the fixture, not resolved again.          *)
FaultyFixtureCurrent(d) ==
  /\ Resolvable(d)
  /\ d[Fixture] # None
  /\ \A l \in Labels : d[<<l, "hex">>] = d[Fixture].hex[l]

(* generate-pure-runtime-fixture.mjs --check.                              *)
FixtureCurrent(d) ==
  /\ Resolvable(d)
  /\ \A l \in Labels : d[<<l, "hex">>] = Resolved(d, l)
  /\ d[Fixture] = FixtureOf(d)

-----------------------------------------------------------------------------
(* The verifier.                                                           *)

classifyRuntimeBinding(authoritative, candidate, actual, checks) ==
  CASE candidate # authoritative -> "FAIL_EXPECTED_ARTIFACT_HASH_OVERWRITE"
    [] candidate = authoritative /\ ~checks -> "FAIL_RUNTIME_SEMANTIC_MISMATCH"
    [] candidate = authoritative /\ checks /\ actual = candidate -> "PASS_RUNTIME_BINDING_EXACT"
    [] OTHER -> "PASS_RUNTIME_PAYLOAD_EXACT_WITH_PACKAGING_DRIFT"

FilesMatch(d, b) == \A f \in BundleFiles : d[<<b, f>>] = d[Manifest].files[b][f]

SourcesMatch(s, d, b) ==
  /\ d[<<b, "identities">>] = d[<<b, "input">>]
  /\ \A x \in DOMAIN d[<<b, "identities">>] : s[x] = d[<<b, "identities">>][x]

OutputMatches(d, b) == d[<<b, "output">>] = runSolc(d[<<b, "input">>])

(* The expected artifact is the recorded one, on both sides.               *)
SubjectPasses(o, d, b, l) ==
  LET compiled == compilerContract(runSolc(d[<<b, "input">>]), l)
      recorded == d[<<b, "bridge">>][l].artifact
  IN  /\ d[<<b, "bridge">>][l].compiled = Semantics(compiled)
      /\ foundryCrossCheck(o, l, compiled)
      /\ classifyRuntimeBinding(recorded, recorded, o[l], semanticChecks(o[l], compiled))
           \in {"PASS_RUNTIME_BINDING_EXACT", "PASS_RUNTIME_PAYLOAD_EXACT_WITH_PACKAGING_DRIFT"}

(* An artifact with one projection changed.                                *)
semanticMutant(artifact) == [artifact EXCEPT !.of = [x \in DOMAIN @ |-> @[x] + 2]]

(* What the verifier tries on its own classification: the recorded         *)
(* artifact, a changed projection, another packaging, and an expected      *)
(* artifact overwritten by the one that is there.                          *)
SelfTestHolds(o, d, b, l) ==
  LET compiled   == compilerContract(runSolc(d[<<b, "input">>]), l)
      recorded   == d[<<b, "bridge">>][l].artifact
      checks(a)  == semanticChecks(a, compiled)
      repackaged == [o[l] EXCEPT !.packaging = Mutated]
      overwriting == IF o[l] = recorded THEN repackaged ELSE o[l]
  IN  /\ classifyRuntimeBinding(recorded, recorded, recorded, checks(o[l]))
           = "PASS_RUNTIME_BINDING_EXACT"
      /\ classifyRuntimeBinding(recorded, recorded, o[l], checks(semanticMutant(o[l])))
           = "FAIL_RUNTIME_SEMANTIC_MISMATCH"
      /\ classifyRuntimeBinding(recorded, recorded, repackaged, checks(repackaged))
           = "PASS_RUNTIME_PAYLOAD_EXACT_WITH_PACKAGING_DRIFT"
      /\ classifyRuntimeBinding(recorded, overwriting, o[l], checks(o[l]))
           = "FAIL_EXPECTED_ARTIFACT_HASH_OVERWRITE"

(* Of the runtimes only the native one is read, and only held against the  *)
(* fixture.                                                                *)
NativeRuntimeMatches(d) ==
  d[Fixture] # None /\ d[<<"TrustToken", "hex">>] = d[Fixture].hex["TrustToken"]

Verified(s, o, d) ==
  /\ d[Manifest] # None
  /\ d[Manifest].public
  /\ \A b \in Bundles :
       /\ FilesMatch(d, b) /\ SourcesMatch(s, d, b) /\ OutputMatches(d, b)
       /\ \A l \in subjects(b) : SubjectPasses(o, d, b, l) /\ SelfTestHolds(o, d, b, l)
  /\ NativeRuntimeMatches(d)

(* Nothing of what was observed of the artifacts is in the receipt.        *)
ReceiptOf(d) ==
  [manifest |-> d[Manifest], fixture |-> d[Fixture], hex |-> d[<<"TrustToken", "hex">>],
   sources  |-> [b \in Bundles |-> d[<<b, "identities">>]],
   subjects |-> [l \in Labels |-> d[<<bundleOf(l), "bridge">>][l].artifact]]

(* The replay: the fixture and then the receipt are checked.               *)
Replays(s, o, d) ==
  /\ FixtureCurrent(d)
  /\ Verified(s, o, d)
  /\ d[Receipt] = ReceiptOf(d)

-----------------------------------------------------------------------------
Init ==
  /\ source = [x \in {"token", "governor", "mock", "types"} |-> 0]
  /\ out = [l \in Labels |-> None]
  /\ disk = [f \in Files |-> None]
  /\ running = None
  /\ edits = 0 /\ builds = 0 /\ runs = 0

Edit ==
  /\ edits < MaxEdits
  /\ \E x \in Editable, v \in 0..2 :
       v # source[x] /\ source' = [source EXCEPT ![x] = v]
  /\ edits' = edits + 1
  /\ UNCHANGED <<out, disk, running, builds, runs>>

(* A build writes every artifact or is cut off among them; its packaging   *)
(* varies with the pipeline.                                               *)
Build ==
  /\ builds < MaxBuilds
  /\ \E ls \in (SUBSET Labels) \ {{}}, p \in Packagings :
       out' = [l \in Labels |-> IF l \in ls THEN Artifact(source, l, p) ELSE out[l]]
  /\ builds' = builds + 1
  /\ UNCHANGED <<source, disk, running, edits, runs>>

Start(process) ==
  /\ running = None /\ runs < MaxRuns
  /\ running' = process
  /\ runs' = runs + 1
  /\ UNCHANGED <<source, out, disk, edits, builds>>

(* Without --public-current the manifest has the older schema.             *)
StartGenerate ==
  \E public \in BOOLEAN :
    Start([kind |-> "generate", public |-> public, left |-> bundles, writes |-> <<>>])

(* One bundle is compiled and cross-checked before any file of it is       *)
(* written; the generator ends where the cross-check fails.                *)
Compile ==
  /\ running # None
  /\ running.writes = <<>> /\ running.left # <<>>
  /\ LET b == Head(running.left)
         compiled(l) == compilerContract(runSolc(exactInput(source, b)), l)
     IN  running' = IF \A l \in subjects(b) : foundryCrossCheck(out, l, compiled(l))
                    THEN [running EXCEPT !.left = Tail(@), !.writes = BundleWrites(source, out, b)]
                    ELSE None
  /\ UNCHANGED <<source, out, disk, edits, builds, runs>>

FinishGenerate ==
  /\ running # None
  /\ running.writes = <<>> /\ running.left = <<>>
  /\ disk' = [disk EXCEPT ![Manifest] = ManifestOf(running.public, disk)]
  /\ running' = None
  /\ UNCHANGED <<source, out, edits, builds, runs>>

(* Everything is resolved from what is read first.                         *)
StartFixture ==
  /\ Resolvable(disk)
  /\ Start([kind |-> "fixture", public |-> FALSE, left |-> <<>>, writes |-> FixtureWrites(disk)])

Write ==
  /\ running # None
  /\ running.writes # <<>>
  /\ disk' = Written(disk, <<Head(running.writes)>>)
  /\ running' = IF running.kind = "fixture" /\ Len(running.writes) = 1
                THEN None ELSE [running EXCEPT !.writes = Tail(@)]
  /\ UNCHANGED <<source, out, edits, builds, runs>>

Kill ==
  /\ running # None
  /\ running' = None
  /\ UNCHANGED <<source, out, disk, edits, builds, runs>>

(* verify-runtime-binding.mjs --write-receipt.                             *)
Qualify ==
  /\ Verified(source, out, disk)
  /\ disk' = [disk EXCEPT ![Receipt] = ReceiptOf(disk)]
  /\ UNCHANGED <<source, out, running, edits, builds, runs>>

Next ==
  \/ Edit
  \/ Build
  \/ StartGenerate
  \/ Compile
  \/ FinishGenerate
  \/ StartFixture
  \/ Write
  \/ Kill
  \/ Qualify

Spec == Init /\ [][Next]_vars

-----------------------------------------------------------------------------
(* Whenever the two commands of the replay pass, the receipt names the     *)
(* sources of the working tree, the artifacts are of what these compile    *)
(* to, and so is every resolved runtime, the governor's with the code of   *)
(* the token it pins, whatever was edited, rebuilt or cut off before.  The *)
(* verifier alone reads one runtime and never holds it against the         *)
(* compiler's output.                                                      *)
QualifiedIsCurrent ==
  Replays(source, out, disk) =>
    /\ \A b \in Bundles : disk[Receipt].sources[b] = exactInput(source, b)
    /\ \A l \in Labels :
         LET compiled == compilerContract(runSolc(exactInput(source, bundleOf(l))), l)
         IN  /\ Semantics(out[l].of) = Semantics(compiled)
             /\ disk[<<l, "hex">>].code = Semantics(compiled)
    /\ disk[<<"ProfileGovernor", "hex">>].immutables = <<disk[<<"MockERC3643Token", "hex">>]>>

=============================================================================
