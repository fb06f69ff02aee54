--------------------------- MODULE EvidenceChain ---------------------------
(***************************************************************************)
(* The working tree of the repository as its generators, recorders and     *)
(* verifiers see it (scripts/ and .github/workflows/ci.yml): sources,      *)
(* files rendered from them, receipts of the runs on them, and the digests *)
(* each file carries of others.                                            *)
(*                                                                         *)
(* People edit sources, remove receipts, and run the commands in whatever  *)
(* order; a command may be cut off between two of its files.  What         *)
(* continuous integration accepts is a predicate of the tree.              *)
(*                                                                         *)
(* A source is its version, 0 being the audited baseline; a rendered file  *)
(* is the record of what it was rendered from; a digest of a file is the   *)
(* contents of that file; a receipt holds what the run was about.          *)
(***************************************************************************)
EXTENDS Integers, Sequences, SequencesExt

CONSTANTS
  Editable,    \* the sources that are edited
  Removable,   \* the receipts and reports that are removed
  MaxEdits,    \* bound on edits and removals together
  MaxRuns,     \* bound on commands run out of the usual course
  None         \* contents of a file that is not there

ASSUME EvidenceAssumption ==
  /\ Editable \subseteq {"spec", "token", "base", "hook", "thy", "ledger"}
  /\ Removable \subseteq {"det", "foundry", "isa", "kontrol", "certora", "binding",
                    "repro"}
  /\ MaxEdits \in Nat /\ MaxRuns \in Nat
  /\ LET Version  == {0, 1}
         Sources  == [token : Version, base : Version, iface : Version, hook : Version]
         Runtimes == [token : Version, base : Version, iface : Version]
         Adapters == [base : Version, iface : Version]
         Hooks    == [base : Version, iface : Version, hook : Version]
         Schemas  == [kernel : Version, runtime : Runtimes]
         Formals  == [thy : Version, bridge : Schemas,
                      ledger : [ledger : Version, schema : Schemas]]
         Rids     == [source : Sources, runtime : Hooks]
         Kontrols == [inputs : Version, runtime : Runtimes]
         Certoras == [inputs : Adapters, runtime : Adapters, ran : Adapters]
     IN  /\ None \notin Version /\ None \notin Sources /\ None \notin Adapters /\ None \notin Formals
         /\ None \notin [of : Formals, ran : Formals]
         /\ None \notin Rids /\ None \notin Kontrols /\ None \notin Certoras
         /\ None \notin [replay : Sources, source : Sources]
         /\ None \notin [run : [source : Sources, det : Sources],
                         source : Sources, runtime : Runtimes]
         /\ None \notin [source : Sources, schema : Schemas, rid : Rids]
         /\ None \notin [source : Sources, hook : Version, kontrol : Kontrols,
                         certora : Certoras]

VARIABLES
  tree,   \* file -> contents
  edits, runs

vars == <<tree, edits, runs>>

-----------------------------------------------------------------------------
(* Identities.                                                             *)

(* implementation/src, implementation/test and foundry.toml: the native    *)
(* token, what it is built on with the Partial profile and the legacy      *)
(* tests, the generated interface, and the Hook profile with its test.     *)
Source(t) ==
  [token |-> t.token, base |-> t.base, iface |-> t.iface, hook |-> t.hook]

(* What a build of some sources makes of the native and Partial contracts, *)
(* of the Partial adapter alone, and of the Hook contracts.                *)
Runtime(s) == [token |-> s.token, base |-> s.base, iface |-> s.iface]
Adapter(s) == [base |-> s.base, iface |-> s.iface]
HookRuntime(s) == [base |-> s.base, iface |-> s.iface, hook |-> s.hook]

Legacy == [token |-> 0, base |-> 0, iface |-> 0]

(* The hand-written theories with what runs them, the generated bridge     *)
(* theory and the rendered ledger theory.                                  *)
Formal(t) == [thy |-> t.thy, bridge |-> t.bridgeThy, ledger |-> t.ledgerThy]

(* A command is the sequence of its writes; it is empty when it refuses.   *)
(* A file holds what was written to it last.                               *)
W(f, c) == [file |-> f, to |-> c]

Applied(t, writes) ==
  [f \in DOMAIN t |->
     LET to == {i \in DOMAIN writes : writes[i].file = f}
     IN  IF to = {} THEN t[f] ELSE writes[Max(to)].to]

-----------------------------------------------------------------------------
(* Generators.                                                             *)

(* generate-normative-kernel.mjs: the interface, the ABI with prose and    *)
(* TypeScript, the vectors and the receipt schema, all from the machine    *)
(* source.                                                                 *)
Interface(t) == W("iface", t.spec)
Abi(t) == W("abi", t.spec)
Vectors(t) == W("vectors", t.spec)
ReceiptSchema(t) == W("receiptSchema", t.spec)

KernelOutputs(t) == <<Interface(t), Abi(t), Vectors(t), ReceiptSchema(t)>>

(* verify-receipt-schema.mjs *)
ReceiptSchemaCurrent(t) ==
  /\ t.iface = t.spec
  /\ t.receiptSchema = t.spec
  /\ t.vectors = t.receiptSchema

(* verify-normative-kernel-solidity.mjs: the interface compiles to the     *)
(* selectors of the ABI.                                                   *)
InterfaceCompiles(t) == t.iface = t.abi

(* independent-reproduction-v3.mjs: fails unless the specification and the *)
(* ABI give every value of the vectors.                                    *)
Reproduce(t) ==
  IF t.spec = t.abi /\ t.abi = t.vectors THEN <<W("repro", t.vectors)>> ELSE <<>>

ForgeBuild(t) == <<W("out", Source(t))>>

(* generate-runtime-bridge-v2.mjs.  The machine source, its ABI and the    *)
(* compiled selectors must agree.                                          *)
BridgeSchema(t) == [kernel |-> t.abi, runtime |-> Runtime(t.out)]

BridgeConsistent(t) == t.spec = t.abi /\ t.abi = t.out.iface

(* The Isabelle theory and the K module carry the hash of the schema, the  *)
(* manifest the hashes of all three.                                       *)
IsabelleBridge(s) == W("bridgeThy", s)
KBridge(s) == W("kbridge", s)
BridgeManifest(s) == [schema |-> s, generated |-> <<s, s>>]

Bridge(t) ==
  LET s == BridgeSchema(t) IN
  IF BridgeConsistent(t)
  THEN <<W("schema", s), IsabelleBridge(s), KBridge(s),
         W("bridgeManifest", BridgeManifest(s))>>
  ELSE <<>>

(* generate-runtime-binding-v3.mjs: the pinned compiler on the import      *)
(* closures gives what Foundry built and the bridge and the Hook identity  *)
(* name.  The compiler inputs are kept beside the receipt.                 *)
Replayed(t) ==
  /\ t.out = Source(t)
  /\ t.schema.runtime = Runtime(Source(t))
  /\ t.rid # None
  /\ t.rid.runtime = HookRuntime(Source(t))

RuntimeBinding(t) == [source |-> Source(t), schema |-> t.schema, rid |-> t.rid]

Binding(t) ==
  IF Replayed(t)
  THEN <<W("bundles", Source(t)), W("binding", RuntimeBinding(t))>>
  ELSE <<>>

(* generate-release-manifest.mjs: the hash of every protected file that is *)
(* there, the manifest excepted, and the built runtimes.                   *)
FaultyProtected ==
  {"spec", "token", "base", "hook", "thy", "ledger", "admitted", "iface", "abi",
   "vectors", "receiptSchema", "schema", "bridgeThy", "kbridge",
   "bridgeManifest", "ledgerThy", "summary", "closure", "bundles", "det",
   "foundry", "isa", "kontrol", "certora", "binding", "repro", "index", "manifest"}

Protected ==
  {"spec", "token", "base", "hook", "thy", "ledger", "admitted", "iface", "abi",
   "vectors", "receiptSchema", "schema", "bridgeThy", "kbridge",
   "bridgeManifest", "ledgerThy", "summary", "closure", "bundles", "det",
   "foundry", "isa", "kontrol", "certora", "binding", "repro", "index"}

Manifest(t) ==
  [files |-> [f \in Protected |-> t[f]], runtime |-> Runtime(t.out)]

(* Nothing is written without the build, or without a mandatory file: of   *)
(* those (singleFiles) the report of the reproduction may be away.         *)
Mandatory == {"repro"}

ReleaseManifest(t) ==
  IF t.out # None /\ \A f \in Mandatory : t[f] # None
  THEN <<W("manifest", Manifest(t))>> ELSE <<>>

-----------------------------------------------------------------------------
(* The evidence-reuse contract (verify-trust12-evidence-reuse.mjs): the    *)
(* runs of the mutation campaign, Kontrol and Certora made at the baseline *)
(* stand for a tree whose preserved inputs are those of the baseline.  The *)
(* mutation receipt is the one made there.                                 *)

Preserved(t) == Runtime(Source(t)) = Legacy /\ t.vectors = 0

Reuse(t) ==
  /\ t.reuse # None /\ t.kontrol # None /\ t.certora # None
  /\ t.reuse.source = Source(t)
  /\ Preserved(t)
  /\ t.reuse.hook = t.hook
  /\ t.reuse.kontrol = t.kontrol /\ t.kontrol.inputs = Legacy.token
  /\ t.reuse.certora = t.certora /\ t.certora.inputs = Adapter(Legacy)

MutationAdmitted(t) == Reuse(t) /\ t.reuse.source = Source(t)

(* --record runs only when the old contract was removed first.             *)
RecordReuse(t) ==
  <<W("reuse", None)>> \o
  IF Preserved(t) /\ t.kontrol # None /\ t.certora # None
  THEN <<W("reuse", [source |-> Source(t), hook |-> t.hook,
                     kontrol |-> t.kontrol, certora |-> t.certora])>>
  ELSE <<>>

-----------------------------------------------------------------------------
(* Runs and their recorders.  The outcome of a proof run stays outside the *)
(* tree until a recorder reads it.                                         *)

(* forge fmt, build, test and lint, and the double build; recorded in      *)
(* deterministic-build-replay.json and local-validation.json.              *)
RunFoundry(t) ==
  <<W("detReplay", Source(t)),
    W("validation", [source |-> Source(t), det |-> Source(t)])>>

(* localFoundryRun: the commit the run was made at carries the inputs the  *)
(* tree has now.                                                           *)
LocalRun(t) == t.validation.source = Source(t)

(* record-trust12-deterministic.mjs *)
RecordDeterministic(t) ==
  IF /\ t.detReplay = Source(t)
     /\ t.validation.det = t.detReplay
     /\ LocalRun(t)
     /\ t.manifest.runtime = Runtime(t.detReplay)
     /\ Runtime(t.out) = Runtime(t.detReplay)
  THEN <<W("det", [replay |-> t.detReplay, source |-> Source(t)])>>
  ELSE <<>>

(* record-foundry-results-v3.mjs --local *)
RecordFoundry(t) ==
  IF LocalRun(t) /\ Runtime(t.out) = t.schema.runtime
  THEN <<W("foundry", [run |-> t.validation, source |-> Source(t),
                       runtime |-> Runtime(t.out)])>>
  ELSE <<>>

(* The clean build of all sessions.  obligation_ledger_binds_the_          *)
(* generated_bridge has no proof when the two generated theories name      *)
(* different schemas.                                                      *)
RunIsabelle(t) ==
  IF t.ledgerThy.schema = t.bridgeThy THEN <<W("isaRun", Formal(t))>> ELSE <<>>

(* record-isabelle-results-v3.mjs *)
FaultyRecordIsabelle(t) ==
  IF t.isaRun # None
  THEN LET receipt == [of |-> Formal(t), ran |-> t.isaRun] IN
       <<W("isaReplay", receipt), W("isa", receipt)>>
  ELSE <<>>

RecordIsabelle(t) ==
  IF t.isaRun # None /\ t.isaRun = Formal(t)
  THEN LET receipt == [of |-> Formal(t), ran |-> t.isaRun] IN
       <<W("isaReplay", receipt), W("isa", receipt)>>
  ELSE <<>>

(* record-trust12-model-results.mjs *)
RecordModel(t) ==
  IF t.isaReplay # None /\ t.isaReplay.of = Formal(t)
  THEN <<W("model", t.isaReplay)>> ELSE <<>>

(* check-hook-consumer-removal.py: the six Hook faults.                    *)
RunHookMutations(t) == <<W("killed", t.hook)>>

(* check-trust12-runtime-identity.py: legacy runtimes and sources are      *)
(* pinned; the Hook runtimes are read from the build.  An edit of the Hook *)
(* sources keeps what it checks of their text.                             *)
RuntimeIdentity(t) ==
  IF Runtime(t.out) = Legacy /\ t.base = 0
  THEN <<W("rid", [source |-> Source(t), runtime |-> HookRuntime(t.out)])>>
  ELSE <<>>

RunKontrol(t) == <<W("kontrolRun", t.token)>>

(* record-kontrol-results-v3.mjs: the inputs observed at run time are      *)
(* TrustToken.sol and implementation/kontrol.                              *)
RecordKontrol(t) ==
  IF /\ t.kontrolRun # None
     /\ t.kontrolRun = t.token
     /\ Runtime(t.out) = t.schema.runtime
  THEN <<W("kontrol", [inputs |-> t.token, runtime |-> Runtime(t.out)])>>
  ELSE <<>>

RunCertora(t) == <<W("certoraRun", Adapter(Source(t)))>>

(* record-certora-results-v3.mjs: hashes the inputs when it records, which *)
(* must have the frozen root.                                              *)
RecordCertora(t) ==
  IF t.certoraRun # None /\ Adapter(Source(t)) = Adapter(Legacy)
  THEN <<W("certora", [inputs |-> Adapter(Source(t)),
                       runtime |-> Adapter(t.schema.runtime),
                       ran |-> t.certoraRun])>>
  ELSE <<>>

-----------------------------------------------------------------------------
(* The required TRUST 1.2 evidence (verify-trust12-required.mjs).          *)

(* generate-trust12-input-seal.py *)
SealOf(t) ==
  [hook |-> t.hook, base |-> t.base, thy |-> t.thy, admitted |-> t.admitted,
   rid |-> t.rid, reuse |-> t.reuse, detReplay |-> t.detReplay,
   validation |-> t.validation, isaReplay |-> t.isaReplay,
   model |-> t.model, killed |-> t.killed]

Seal(t) ==
  IF t.rid # None /\ t.reuse # None THEN <<W("seal", SealOf(t))>> ELSE <<>>

HookAudited(t) == t.admitted.hook = t.hook /\ t.killed = t.hook

RuntimeIdentityCurrent(t) == t.rid # None /\ t.rid.source = Source(t)

(* checkLocalReceiptProvenance and its like for the double build.          *)
DeterministicLocal(t) ==
  /\ t.det # None
  /\ t.det.replay = t.detReplay
  /\ t.det.source = Source(t)

FoundryLocal(t) ==
  /\ t.foundry # None
  /\ t.foundry.run = t.validation
  /\ t.validation.source = t.foundry.source
  /\ t.foundry.source = Source(t)

(* The formal root, the digest of the build and the model results that     *)
(* were reviewed are literals of the verifier.                             *)
FormalAdmitted(t) ==
  /\ t.isa # None
  /\ t.isa = t.isaReplay
  /\ t.isa.of = Formal(t)
  /\ t.isa = t.admitted.formal

ModelAdmitted(t) == t.model = t.admitted.model /\ t.model = t.isa

(* verifyRuntimeBundles, and the Hook subjects of the binding.             *)
BindingMatches(t) ==
  /\ t.binding # None
  /\ t.bundles = t.binding.source
  /\ HookRuntime(t.binding.source) = t.rid.runtime

Required(t) ==
  /\ t.seal = SealOf(t)
  /\ HookAudited(t)
  /\ RuntimeIdentityCurrent(t)
  /\ DeterministicLocal(t)
  /\ FoundryLocal(t)
  /\ FormalAdmitted(t)
  /\ ModelAdmitted(t)
  /\ BindingMatches(t)

(* The reviewers put what they reviewed into the verifier.                 *)
Admit(t) ==
  <<W("admitted", [hook |-> t.hook, formal |-> t.isaReplay, model |-> t.model])>>

-----------------------------------------------------------------------------
(* The obligation ledger (verify-obligation-ledger-v3.mjs).                *)

LedgerTheory(t) == [ledger |-> t.ledger, schema |-> t.schema]

BridgeBound(t) == t.bridgeManifest.schema = t.schema

(* --write-theory-only, before there is a proof receipt.                   *)
LedgerTheoryOnly(t) ==
  IF BridgeBound(t) THEN <<W("ledgerThy", LedgerTheory(t))>> ELSE <<>>

DeterministicCurrent(t) ==
  /\ t.det.source = Source(t)
  /\ Runtime(t.det.replay) = t.schema.runtime

KontrolCurrent(t) ==
  /\ DeterministicCurrent(t)
  /\ t.kontrol.runtime = Runtime(t.det.replay)
  /\ t.kontrol.inputs = t.token

FoundryCurrent(t) ==
  /\ DeterministicCurrent(t)
  /\ t.foundry.source = Source(t)
  /\ t.foundry.runtime = t.schema.runtime

Closure(t) ==
  [ledger |-> t.ledger, schema |-> t.schema,
   runtime |-> Runtime(t.det.replay), required |-> t.seal]

Summary(t) ==
  [theory |-> LedgerTheory(t), closure |-> Closure(t),
   receipts |-> <<t.kontrol, t.foundry, t.det>>,
   current |-> <<KontrolCurrent(t), FoundryCurrent(t)>>]

LedgerVerified(t) == Reuse(t) /\ Required(t) /\ BridgeBound(t)

LedgerWrite(t) ==
  IF LedgerVerified(t)
  THEN <<W("ledgerThy", LedgerTheory(t)), W("summary", Summary(t)),
         W("closure", Closure(t))>>
  ELSE <<>>

LedgerCheck(t) ==
  /\ LedgerVerified(t)
  /\ t.ledgerThy = LedgerTheory(t)
  /\ t.summary = Summary(t)
  /\ t.closure = Closure(t)

-----------------------------------------------------------------------------
(* The lanes and their index (verify-current-profile-release-v3.mjs).  A   *)
(* lane without a receipt is pending; one whose receipt does not hold      *)
(* fails the whole.                                                        *)

DeterministicRuntime(t) == Runtime(t.det.replay)

RuntimeLane(t) ==
  /\ t.det.source = Source(t)
  /\ t.manifest.runtime = DeterministicRuntime(t)

FoundryLane(t) ==
  /\ t.foundry.source = Source(t)
  /\ t.det # None /\ t.foundry.runtime = DeterministicRuntime(t)

IsabelleLane(t) == t.isa.of = Formal(t)

LedgerLane(t) ==
  /\ t.summary.closure.schema = t.schema
  /\ t.summary.closure.ledger = t.ledger
  /\ t.summary.theory = t.ledgerThy
  /\ t.summary.closure = t.closure
  /\ t.bridgeManifest.schema = t.schema
  /\ t.bridgeManifest.generated = <<t.bridgeThy, t.kbridge>>

KontrolLane(t) ==
  /\ t.kontrol.inputs = t.token /\ t.kontrol.inputs = Legacy.token
  /\ t.det # None /\ t.kontrol.runtime = DeterministicRuntime(t)

CertoraLane(t) ==
  /\ t.certora.inputs = Adapter(Source(t)) /\ t.certora.inputs = Adapter(Legacy)
  /\ t.det # None /\ t.certora.runtime = Adapter(DeterministicRuntime(t))

ReproductionLane(t) == t.repro = t.vectors

BindingLane(t) ==
  /\ t.binding.source = Source(t)
  /\ t.det # None /\ Runtime(t.binding.source) = DeterministicRuntime(t)

LanesHold(t) ==
  /\ Reuse(t) /\ Required(t)
  /\ t.det # None => RuntimeLane(t)
  /\ t.foundry # None => FoundryLane(t)
  /\ MutationAdmitted(t)
  /\ t.isa # None => IsabelleLane(t)
  /\ LedgerLane(t)
  /\ t.kontrol # None => KontrolLane(t)
  /\ t.certora # None => CertoraLane(t)
  /\ ReproductionLane(t)
  /\ t.binding # None => BindingLane(t)

(* Pending: no receipt, or generated theories and a summary that do not    *)
(* name the runtime of the double build.                                   *)
Pending(t) ==
  {f \in {"det", "foundry", "isa", "kontrol", "certora", "binding"} : t[f] = None}
    \cup {l \in {"isabelleRuntimeBinding"} :
            t.det # None => t.bridgeThy.runtime # DeterministicRuntime(t)}
    \cup {l \in {"obligationLedger"} :
            t.det # None =>
              DeterministicRuntime(t) \notin
                {t.schema.runtime} \cap {t.summary.closure.runtime}}

Index(t) ==
  [source |-> Source(t), formal |-> Formal(t), pending |-> Pending(t),
   receipts |-> <<t.det, t.foundry, t.isa, t.kontrol, t.certora, t.binding>>,
   repro |-> t.repro, summary |-> t.summary, reuse |-> t.reuse,
   required |-> t.seal]

WriteIndex(t) == IF LanesHold(t) THEN <<W("index", Index(t))>> ELSE <<>>

-----------------------------------------------------------------------------
(* Continuous integration.                                                 *)

(* generate-runtime-bridge-v2.mjs --check *)
BridgeCheck(t) ==
  /\ BridgeConsistent(t)
  /\ t.schema = BridgeSchema(t)
  /\ t.bridgeThy = BridgeSchema(t)
  /\ t.kbridge = BridgeSchema(t)
  /\ t.bridgeManifest = BridgeManifest(BridgeSchema(t))

(* generate-runtime-binding-v3.mjs --check *)
BindingCheck(t) ==
  /\ Replayed(t)
  /\ t.bundles = Source(t)
  /\ t.binding = RuntimeBinding(t)

(* verify-runtime-binding-v3.mjs: the receipt against the tree, the other  *)
(* receipts against it, and the stored compiler inputs.                    *)
BindingVerified(t) ==
  /\ t.binding # None /\ t.det # None
  /\ t.binding.source = Source(t)
  /\ t.binding.schema = t.schema
  /\ t.binding.rid = t.rid
  /\ t.binding.source = t.out
  /\ Runtime(t.binding.source) = t.manifest.runtime
  /\ Runtime(t.binding.source) = DeterministicRuntime(t)

StaleRejected(t) ==
  /\ t.det.source = Source(t)
  /\ t.foundry # None =>
       /\ t.foundry.source = Source(t)
       /\ t.foundry.runtime = Runtime(t.binding.source)
  /\ MutationAdmitted(t)
  /\ t.kontrol # None => t.kontrol.runtime = Runtime(t.binding.source)
  /\ t.certora # None => t.certora.runtime = Adapter(t.binding.source)

StoredInputsCurrent(t) == t.bundles = Source(t)

(* verify-release.mjs *)
ReleaseVerified(t) ==
  /\ \A f \in Protected : t.manifest.files[f] = t[f]
  /\ t.manifest.runtime = Runtime(t.out)
  /\ t.det # None => DeterministicRuntime(t) = t.manifest.runtime

(* The jobs of ci.yml on a checkout, which holds no build.                 *)
Accepts(checkout) ==
  LET t == Applied(checkout, ForgeBuild(checkout)) IN
  /\ Applied(t, KernelOutputs(t)) = t
  /\ ReceiptSchemaCurrent(t)
  /\ Reproduce(t) = <<W("repro", t.repro)>>
  /\ BridgeCheck(t)
  /\ BindingCheck(t)
  /\ Reuse(t) /\ Required(t)
  /\ BindingVerified(t) /\ StaleRejected(t) /\ StoredInputsCurrent(t)
  /\ InterfaceCompiles(t)
  /\ t.manifest = Manifest(t) /\ ReleaseVerified(t)
  /\ LanesHold(t) /\ t.index = Index(t)
  /\ LedgerCheck(t)

-----------------------------------------------------------------------------
(* The commands, in the order in which a change is carried through.        *)
Order ==
  <<"kernel", "reproduce", "forge", "bridge", "ledgerTheory", "runIsabelle",
    "recordIsabelle", "model", "hookMutations", "admit", "runFoundry", "rid",
    "manifest", "det", "foundry", "runKontrol", "kontrol", "runCertora",
    "certora", "reuse", "seal", "binding", "ledger", "index", "manifest">>

Command == Range(Order)

Writes(c, t) ==
  CASE c = "kernel" -> KernelOutputs(t)
    [] c = "reproduce" -> Reproduce(t)
    [] c = "forge" -> ForgeBuild(t)
    [] c = "bridge" -> Bridge(t)
    [] c = "ledgerTheory" -> LedgerTheoryOnly(t)
    [] c = "runIsabelle" -> RunIsabelle(t)
    [] c = "recordIsabelle" -> RecordIsabelle(t)
    [] c = "model" -> RecordModel(t)
    [] c = "hookMutations" -> RunHookMutations(t)
    [] c = "admit" -> Admit(t)
    [] c = "runFoundry" -> RunFoundry(t)
    [] c = "rid" -> RuntimeIdentity(t)
    [] c = "manifest" -> ReleaseManifest(t)
    [] c = "det" -> RecordDeterministic(t)
    [] c = "foundry" -> RecordFoundry(t)
    [] c = "runKontrol" -> RunKontrol(t)
    [] c = "kontrol" -> RecordKontrol(t)
    [] c = "runCertora" -> RunCertora(t)
    [] c = "certora" -> RecordCertora(t)
    [] c = "reuse" -> RecordReuse(t)
    [] c = "seal" -> Seal(t)
    [] c = "binding" -> Binding(t)
    [] c = "ledger" -> LedgerWrite(t)
    [] c = "index" -> WriteIndex(t)

Carried(t, commands) ==
  LET after[n \in 0 .. Len(commands)] ==
        IF n = 0 THEN t
        ELSE LET r == after[n - 1] IN Applied(r, Writes(commands[n], r))
  IN  after[Len(commands)]

Refreshed(t) == Carried(t, Order)

-----------------------------------------------------------------------------
(* A tree that was carried through at the baseline.                        *)
Bare ==
  [f \in Protected \cup
         {"out", "isaRun", "isaReplay", "model", "killed", "detReplay",
          "validation", "rid", "reuse", "seal", "kontrolRun", "certoraRun",
          "manifest"} |->
     IF f \in {"spec", "token", "base", "hook", "thy", "ledger"} THEN 0 ELSE None]

Init == tree = Refreshed(Bare) /\ edits = 0 /\ runs = 0

(* A command that runs to its end, or is cut off after some of its writes. *)
Run(c) ==
  /\ runs < MaxRuns
  /\ \E n \in 1 .. Len(Writes(c, tree)) :
       tree' = Applied(tree, SubSeq(Writes(c, tree), 1, n))
  /\ runs' = runs + 1
  /\ UNCHANGED edits

(* The commands from one of them on, one after the other.                  *)
CarryOn(k) ==
  /\ runs < MaxRuns
  /\ tree' = Carried(tree, SubSeq(Order, k, Len(Order)))
  /\ runs' = runs + 1
  /\ UNCHANGED edits

Edit(s) ==
  /\ edits < MaxEdits
  /\ tree' = [tree EXCEPT ![s] = 1 - @]
  /\ edits' = edits + 1
  /\ UNCHANGED runs

RemoveReceipt(r) ==
  /\ edits < MaxEdits
  /\ tree[r] # None
  /\ tree' = [tree EXCEPT ![r] = None]
  /\ edits' = edits + 1
  /\ UNCHANGED runs

Next ==
  \/ \E c \in Command : Run(c)
  \/ \E k \in 1 .. Len(Order) : CarryOn(k)
  \/ \E s \in Editable : Edit(s)
  \/ \E r \in Removable : RemoveReceipt(r)

Spec == Init /\ [][Next]_vars

-----------------------------------------------------------------------------
(* Properties.                                                             *)

(* What the tree should hold for CI to accept it: every rendered file is a *)
(* rendering of the current sources, and every receipt is of a run on the  *)
(* bytes that are there, the legacy campaigns on the inputs they declare;  *)
(* no lane is pending.                                                     *)
NoStaleCredit ==
  Accepts(tree) =>
    LET now == Source(tree)
        schema == [kernel |-> tree.spec, runtime |-> Runtime(now)] IN
    /\ <<tree.iface, tree.abi, tree.vectors, tree.repro>> =
         <<tree.spec, tree.spec, tree.spec, tree.spec>>
    /\ tree.schema = schema /\ tree.bridgeThy = schema /\ tree.kbridge = schema
    /\ tree.ledgerThy = [ledger |-> tree.ledger, schema |-> schema]
    /\ tree.isa.of = Formal(tree) /\ tree.isa.ran = Formal(tree)
    /\ tree.killed = tree.hook
    /\ tree.det # None /\ tree.det.replay = now
    /\ tree.foundry # None /\ tree.foundry.run.source = now
    /\ tree.binding # None /\ tree.binding.source = now
    /\ tree.rid.runtime = HookRuntime(now)
    /\ Runtime(now) = Legacy
    /\ tree.kontrol # None /\ tree.certora # None
    /\ tree.index.pending = {}

(* From every tree that has the baseline sources the legacy campaigns ran  *)
(* on, whatever was edited, removed, left stale or cut off elsewhere, one  *)
(* pass of the commands in order ends in a tree that is accepted: the      *)
(* digests the files carry of each other form no circle.                   *)
RefreshAccepted ==
  Runtime([Source(tree) EXCEPT !.iface = tree.spec]) = Legacy
    => Accepts(Refreshed(tree))

=============================================================================
