# TLA+ models of ERC-TRUST

ERC-TRUST is a token kernel for regulatory commands: an authority may freeze,
restrict, seize, confiscate, liquidate or recover a holder's tokens, and reverse
the reversible ones, under a *case* that opens, is amended and closes. This
directory holds TLA+ models of that kernel, of the contract that implements it
natively, of the adapters that implement it over ERC-3643 tokens, and of the
programs that produce and check the repository's evidence (the proof workflow,
the replay coordinators, the captures on local chains, the chain of generators,
recorders and verifiers, the independent reproduction, the
wire format and its generator, the candidate 2 runtime binding); the
TLC configurations that check them on small instances; and TLAPS proofs of what
matters most for all instances.

Paths below are relative to the repository root (`src/` of this checkout).

## 1. Inventory

| Component | State | Operations | Interacts with |
|---|---|---|---|
| Normative kernel, `spec/erc-trust-kernel-v2.json` | cases; targets, flags and backing per account | CT-1 to CT-16 and the shape rule of each action | implemented by every endpoint |
| Native endpoint, `implementation/src/TrustToken.sol` with `TrustStorage.sol`, `TrustNativeTypes.sol`, `TrustNativeDecision.sol` | balances, allowances, frozen targets, restriction flags, custody backing, overlay heads and effects, action records, receipts, cases, custody, consumed entitlements, nonces, authorities, bindings, dependency root and epoch | constructor; `approve`, `transfer`, `transferFrom`; `executeRegulatoryAction`, `executeRegulatoryReversal`; `configureAuthority`, `rebindDependency` | calls the bound dependencies (static calls) |
| Dependency binding, `TrustDependencyBinding.sol` | none of its own | liveness of code and configuration; typed assessment | policy, identity, settlement and entitlement contracts outside the repository |
| ERC-7943 exact-use route, in `TrustToken.sol` and `ERC7943RouteTicket.sol` | route ticket, pending commitments and reversals, all within one transaction | `executeERC7943Action`, `executeERC7943Reversal`, then the contract's call of its own `setFrozenTokens` or `forcedTransfer` | the native endpoint itself |
| ERC-3643 profile, `profiles/ERC3643TrustAdapter.sol`, `ProfileGovernor.sol` | the kernel's state without balances; owned target, applied frozen amount and flag per account; the seal | seal and import; both entrypoints; `resynchroniseFrozen` | an upstream ERC-3643 token through agent calls |
| ERC-3643 hook profile, `profiles/ERC3643Hook*.sol` | as above, fixed topology | as above, and `onTokenBalanceChanged` | the upstream token calls it back through its compliance contract |
| Pilot, `pilot/src/TrustFreezePilot.sol` | prepared routes, authorization and nonce states, freezes | execute, prepare, `setFrozenTokens`, cancel, rebind | one policy contract |
| SDK and wire format: `spec/erc-trust-kernel-v2.json`, `scripts/generate-normative-kernel.mjs`, `sdk/src/`, `vectors/` | the order of fields and the numbering of kinds, in the schema and in each file generated from it; what is published and deployed | edit, generate, publish, deploy; complete a command, deliver it | endpoints, authors of commands, the reproduction |
| Proof workflow, `scripts/proof-ci.mjs` and `.github/workflows/proofs.yml` | the runs, their runner disks, uploaded heap states, cache entries | `restore-cache`, `select-pr`, download, `restore`, `build`, `seal`, `report` | the host's queue, caches and artifacts; pull requests that advance and merge meanwhile |
| ABI-04 proof waves, `evidence/candidate-2/formal/kevm/row-bundles/abi-04/` (`dynamic-offset-v1/`, `full-row-v1/`) | the coordinator's pool, one launcher and one proof session per replay, one output root per replay | preflight, replay, analyses, termination and audit, seal, bind, reverse check, credit | KEVM processes and their descendants; signals; the files they read |
| ABI-04 static product, `abi-04/generate-abi-04-product-v2.mjs` and `anti-drift/` | the files of eleven generators, each naming digests of what it read | generate, plan, check, reverse checks, isolated rebuilds, closure gate | sources, compiled runtimes, people who edit meanwhile |
| Local-chain captures: `scripts/capture-runtime-fixture.mjs` with `verify-runtime-fixture.mjs`; SEP-04, ABI-04 high bits, ACT-01 and its replay | a node on a fixed port and its chain; fixture, runtimes, dumps and results on disk | wait, deploy, observe, write, clean up, verify, replay | Anvil; each other, over the port |
| Independent reproduction, `scripts/independent-reproduction-v3.mjs` | `EndpointState`: cases, heads, custody, targets, flags, actions, what is consumed | evaluates the vectors; derives receipts | the vectors and the tables of the specification |
| Evidence chain, `scripts/*.mjs`, `.github/workflows/ci.yml` | the working tree: sources, rendered files, receipts, manifests | generators, recorders, verifiers | each reads the digests others wrote |
| Runtime binding of candidate 2, `scripts/generate-runtime-binding.mjs`, `generate-pure-runtime-fixture.mjs`, `verify-runtime-binding.mjs` | compiler inputs and outputs, resolved runtimes, fixture, receipt | generate, resolve, verify, check | sources and Foundry's output, rebuilt meanwhile |
| Tests, Certora and Kontrol specifications, Isabelle, schemas, vectors, archives | none at run time | | read by the evidence chain |

### What is hard about it

* **Interleaving of cases.** A transaction is atomic and the entrypoints are
  `nonReentrant`, so the concurrency is between transactions: several cases,
  authorities and ordinary holders act on the same accounts in any order. A
  custodian is an ordinary holder who may be frozen, seized from, or transfer.
* **Running totals beside records.** `_frozen`, `_restricted`,
  `_custodyBacking` and the overlay heads are maintained incrementally; what
  they should be follows from the open cases.
* **Reversal out of order.** Freezes stack and unwind last in, first out, each
  effect remembering its parent and the amount before it.
* **Replay and staleness.** Commands are signed before they are executed.
  Nonces, command identifiers, authority epochs, validity windows, dependency
  root and epoch, and the liveness of each dependency decide whether a command
  still means what it was signed for.
* **Arithmetic.** `_move` is unchecked and must be right for a transfer to
  oneself; availability saturates when target and backing overlap.
* **Evidence.** Receipts must be the whole history of a case.
* **Inside a transaction** (exact-use route, adapters): a one-shot ticket, a
  callback in the middle of a command, agent calls that may fail in part.
* **A token that is not theirs.** The adapters own what they applied upstream;
  the token may unfreeze on its own, ignore a call or be changed from outside.
* **Jobs that race.** A proof run of a pull request, the merge, the push run
  and repeated attempts share heaps that expire, arrive damaged or belong to a
  fork; a run must neither reuse the wrong ones nor hang on missing ones.
* **Processes that are killed.** A proof outlives its launcher and leaves
  descendants that hold pipes open and write evidence; workers fail while
  others are anywhere; nothing of that may leave a process behind or end in
  credit.
* **A port is not a process.** Whatever answers on it is taken for the node that
  was just started; two captures begun together, or a node that outlives its
  starter, share one chain and one set of addresses.
* **Files that name each other's digests.** A generator cut off between two
  files, a receipt of earlier sources, a summary of a stale summary: acceptance
  must notice all of them, and there must be an order of commands that ends
  accepted.
* **Two ends of a wire.** Contracts, SDK, vectors and tests are rendered from one
  schema, so they agree with each other on a wrong one as well as on a right one.

What makes each component correct: the endpoint implements the case table; its
totals are those the open cases imply; custodians stay solvent; ordinary
transfers leave encumbered tokens alone; terminal cases stay so and open ones
can be closed; nothing is accepted twice or under stale authority or evidence.
For the route: one ticket, one application, the same effect as the canonical
entrypoint. For the adapters: what they own is what the upstream token
enforces, or the command is refused. For the programs around them: what is
reused, credited or accepted was produced from exactly the bytes it is
reused, credited or accepted for, and every run ends. `PROJECT.json` lists the hazards line by
line with the properties that watch them.

## 2. Plan

| | Module | Models | State |
|---|---|---|---|
| 1 | `TrustKernel` | abstract specification: the normative case table | done |
| 2 | `TrustToken` | the native endpoint with its dependencies and governance | done |
| 3 | `TrustTokenRefinement` | `TrustToken` implements `TrustKernel` | done, checked, proved |
| 4 | `MCTrustToken` | instances for TLC | done |
| 5 | `TrustTokenProofs` | types, custody solvency, protection of encumbered tokens, finality; heads, freeze chains and open cases | done, proved |
| 6 | `FiniteSums` | what sums over finite sets do when a summand changes, and what their extremes are | done, proved |
| | `TrustTokenLedgerProofs` | supply, custody accounting, and that open cases can be closed; governance, receipts, nonces, evidence; the endpoint implements the kernel | done, proved |
| 7 | `SealedProfile`, `MCSealedProfile` | both ERC-3643 profiles over one model of the token: seal and import, owned and applied state, the callback, calls that misbehave, changes from outside | done |
| | `SealedProfileProofs` | what the adapters own is what the token enforces | done, proved |
| 8 | `ProofCI` | the proof workflow: reuse of heaps between pull requests and main | done |
| | `ProofCIProofs` | what is reused is what would have been built | done, proved |
| 9 | `WaveRunner`, `MCWaveRunner` | both ABI-04 coordinators with launchers, sessions, faults and credit | done |
| | `WaveRunnerProofs` | what is credited was proved, and no session is left behind | done, proved |
| 10 | `EvidenceChain` | generators, recorders and verifiers over the working tree | done |
| | `EvidenceChainProofs` | what is accepted is current, and a refresh is accepted | done, proved |
| 11 | `AbiProduct` | the ABI-04 static product: generators, closure manifest, gate | done |
| 12 | `FixtureCapture`, `MCFixtureCapture` | the captures on local chains, their verifier and replay | done |
| 13 | `EndpointReproduction`, `MCEndpointReproduction` | the reproduction's endpoint beside the tables of the specification, with the first failing reason of each command | done |
| | `EndpointReproductionProofs` | its verdicts are those of the tables, its receipts explain its state | done, proved |
| 14 | `WireFormat`, `MCWireFormat` | the schema, what is generated from it, and the commands that travel between generations | done |
| 15 | `RuntimeBinding` | the replay of candidate 2's runtime binding | done |
| 16 | `TrustRoute` | the exact-use route, one action per step inside a transaction (prepare, inner call, consume, apply, revert), refining the canonical entrypoint | next |
| 17 | `TrustVerdict` | the order of the native endpoint's checks as a function from requests to the first failing reason | next |
| 18 | `TrustPilot` | prepare, execute, cancel and rebind over several transactions | then |

Every invariant and action property the runs check of the native endpoint is a
theorem, and so are every property of the ERC-3643 profiles and every safety
property of the proof workflow, of the waves, of the evidence chain and of the
reproduction. What is left to TLC is listed at the end of section 5.

## 3. The modules

### TrustKernel

The case table with nothing else. `case[c]` has a phase, a family, a subject
and what the case encumbers: the *set* of nested freeze targets, or the
custodian and amount of a seizure. An account's frozen target, restriction and
backing are *derived* (`FrozenTarget`, `Restricted`, `Backing`). Each row of
`caseTransitions` in the JSON is an action: `OpenFreeze` and `AmendFreeze`
(CT-1 to CT-3), `Unfreeze` (CT-4), `OpenRestrict` (CT-5 to CT-7), `Unrestrict`
(CT-8), `Seize` (CT-9, CT-10), `Release` (CT-11), `DisposeCustody` (CT-12),
`DisposeDirect` (CT-13); CT-14 to CT-16 and the rows that refuse are the absence
of an action. The module has no run of its own: `mixed` checks that every step
of the endpoint is one of its steps (`ImplementsKernel`) and that the totals are
the ones it derives (`DerivedState`).

### TrustToken

One variable per storage variable, one action per external function.

| Code | Model |
|---|---|
| `executeRegulatoryAction` | `ExecuteRegulatoryAction`: `Authorised` (`_validateAndAuthorizeAction`), `ActionShape` (`_validateActionShape`, `_requireOverlayAdmissible`), `Assessed` (`_assessOrRevert`), one of `ApplyFreeze`, `ApplyRestrict`, `ApplySeize`, `ApplyDisposition` and `RecordAction` |
| `executeRegulatoryReversal` | `ExecuteRegulatoryReversal`: the same envelope, `ReversalAdmissible`, one of `ApplyUnfreeze`, `ApplyUnrestrict`, `ApplyRelease`, and `RecordReversal` |
| `transfer`, `transferFrom`, `approve` | `Transfer`, `TransferFrom`, `Approve` |
| `configureAuthority`, `rebindDependency` | `ConfigureAuthority`, `RebindDependency` |
| `TrustDependencyBinding.live` and `assess` | `Live`, `Assessed`, `EvidenceOf` |
| the bound contracts and the block clock | `DependencyDrifts`, `Tick` (external) |

Abstractions, and why they lose nothing the properties need:

* **A failed transaction is a stuttering step.** The EVM undoes it. *Which*
  error it reports when several checks fail is not modelled (see `TrustVerdict`
  in the plan).
* **Hashes are injective.** Identifiers are opaque values; the dependency root
  *is* the tuple of bindings it hashes. That an identifier is the hash of its
  request means a request has one identifier: the model lets any request carry
  any unused identifier, which allows more than the code does.
* **Identifiers of actions and reversals do not meet**
  (`IdentifierAssumption`), being hashes of different encodings.
* **Dependencies answer as they like.** That a live dependency answers
  "applicable" in a well-formed way, or not, is the choice between taking the
  step and not. The content of its evidence is replaced by what makes the
  evidence meaningful: the code and configuration that produced it.
* **Commitments are present or absent**; a recovery's entitlement keeps its
  identity because it is consumed. Provenance is a flag that must be set.
* **Observations** in receipts keep the case and its custody record; balances
  of the parties, which other cases also change, are left out, and so are the
  receipt hash, schema identifiers and events.
* **Numbers** are naturals. `LedgerNeverWraps` proves that no balance and no
  backing exceeds the supply, which is a machine word, so the unchecked addition
  of `_move` does not wrap; the subtractions are guarded as in the code.
  Generations and epochs are `uint64` counters that advance once per command.
* **`onlyGovernor`** is implicit: the governance actions are the governor's.
* `rootLog` is a history variable: the roots announced by
  `TrustDependencyChanged`. Commands may name any of them, current or retired.

Definitions called `Faulty...` are not part of the model. Each is a plausible
slip in the definition after it, and shows which property would notice.

### TrustTokenRefinement

`KernelCase` rebuilds the kernel's record of each case from the records of the
endpoint. `ImplementsKernel` says that every transaction is a row of the table or
changes none of what the table speaks of; `DerivedState` that `frozen`,
`restricted` and `custodyBacking` equal what the kernel derives. Both are proved
in `TrustTokenLedgerProofs`.

### SealedProfile

The partial profile (`ERC3643TrustAdapter.sol` with `ProfileGovernor.sol`, which
takes an existing token over by a one-way seal) and the hook profile
(`ERC3643HookAdapter.sol` with governor, compliance, factory and deployment,
sealed while it is constructed) share their commands; `profile` says which one
runs. `balance`, `frozen` and `restricted` belong to the token, `owned` is the
adapter's record of what it applied.

| Code | Model |
|---|---|
| `_applyActionPrepared` by command, and the envelope | `Freeze`, `RestrictAddress`, `Seize`, `Dispose`, `Authorized` |
| the reversals | `Unfreeze`, `Unrestrict`, `Release` |
| `_syncFrozen`, `_setRestricted`, `_forcedTransfer`, `_requireOwnedUpstreamState` | operators of those names on a `Unit`, the token and `owned` in the middle of a transaction |
| `onTokenBalanceChanged` | an operator applied wherever the token moves a balance, a holder's transfer included |
| `seal` with `importState` | `seal(entries)`: any manifest may be declared, one that does not match reverts |
| the token | `transfer`, and inside `_forcedTransfer` any outcome: it may unfreeze on its own, drop an address freeze, move nothing |
| agents, owner, registries | `UpstreamChange`, `TopologyChange` |

`disturbed` is a history variable: accounts whose upstream state was changed
behind a sealed adapter, for which nothing but `FailsClosed` is promised.
Authority, windows, root and evidence are those of `TrustToken` and not
repeated; the checks a factory makes before it deploys are not modelled.

### ProofCI

One record per workflow run, with its runner's disk (`heaps`, the two state
directories) and the step of the job it is at; pull requests, the commits of
main, artifacts and cache entries around it. A source tree is the set of merged
revisions it contains, and a digest is what it is a digest of. `Start`,
`RestoreCache`, `SelectPr`, `Download`, `Restore`, `Build`, `Seal` and `Report`
are the commands of `proof-ci.mjs` in the order of the jobs; `Revise`, `Merge`,
`Rerun`, `Expire`, `ChangePermission`, `Timeout` and `Supersede` (the concurrency
group) are the host. `CopyOutcome` has every way a copy may end, one that stops
half-way included, and the download may arrive incomplete with its receipt whole.

### WaveRunner

`coord` is the coordinator, `leaf[j]` what the worker that took replay `j` does
with it, `runner[j]` its launcher, `session[j]` the proof session, `root[j]` the
output root. The full-row wave and the first wave are the same machine with
different guards, selected by `wave`; each action names the difference.
Faults: an input drifts (and never becomes the pinned one again), a launcher is
killed, the operator interrupts, all at any point between two steps. Time limits
are choices: a wait that is bounded may end, one that is not may not.

What the model takes from the code and a reader may not expect:

* A launcher killed between the spawn of a proof and writing `child-pid.txt`
  leaves a session no audit can find; `SessionsOwned` names this exception
  (`Unrecorded`) instead of hiding it. The first wave has no session audit at
  all, and the property claims none for it beyond the number of workers.
* The launcher of the first wave is a shell script outside the repository and
  taken to behave like `run-abi-04-replay-v1.mjs`; its execution manifest states
  pinned hashes of the compiled definition.
* An interrupt during the synchronous sealing of the full row is served only
  after the credit is written.
* The model stops when the coordinator has ended; a coordinator that is itself
  killed, and inputs that drift and come back, are not modelled.

### EvidenceChain

`tree` maps each file to its contents: a source to its version, a rendered file
to what it was rendered from, a receipt to what the run was about; a digest of a
file is the contents of that file. A command is the sequence of its writes,
empty when it refuses, and `Run(c)` performs any non-empty prefix of it, so that
a command may be cut off between two files; a file then holds the last of the
writes to it (`Applied`). `None`, a file that is not there, is none of the
contents a file may have (`EvidenceAssumption`). The receipts of the lanes and the
report of the reproduction may be removed (`Removable`); the manifest is made
without the former and not without the latter (`Mandatory`). Of its other mandatory
files the release index alone is generated; it is never removed in the model. `CarryOn(k)` is what people do after
an edit: all commands in `Order`, from the `k`-th on. `Accepts` is the
conjunction of what the jobs of continuous integration check.

The Solidity sources are split into native token, shared base, generated
interface and hook profile, because receipts bind different unions of them. A
spec change is one that changes a command struct. A hook edit keeps the text
that `check-trust12-runtime-identity.py` looks for. The mutation receipt is the
historical constant (a new one could not pass the reuse contract). Checks of
policy metadata and of the Python environment are constant. Release mode is not reachable
while the repository is in its development mode (`assertTrust12DevelopmentMode`).
The initial tree is what one pass of the commands makes of the sources alone;
`RefreshAccepted` says that it is accepted.

### AbiProduct

An artifact is the function from the names its generator read to what those
files held at that moment, so a digest names contents and their whole history.
What each generator, reverse check and test reads and compares is one definition
a script (`ClaimsReads`, `RowBridgeBound`, `ReverseMatrix`).
The coordinator runs the eleven generators (`RunStage`) twice, compares the
passes, checks the plans (`ManagedPlan`), runs `--check` and the reverse checks
(`CheckAndReverse`), rebuilds the product from nothing in two copies
(`IsolateA`, `IsolateB`), tries that the closure fails closed
(`NegativeTests`) and runs the closure gate twice. Between any two of these
steps somebody may edit a source, edit or delete an output (`EditSource`,
`EditOutput`), and the process may die in the middle of a write (`Crash`, which
leaves `Torn`). What the code leaves open the model does too:

* A run nobody disturbs may still fail; `Blocked` names the causes. Most are
  refusals by design: the source of the matrix names other cases, a parse receipt
  is there that should not be, a file that is preserved and never rebuilt is
  gone. One is not: after a write that was cut short the two closure verifiers
  report their parsers' own messages (`verify-closure.mjs:110,191`,
  `verify_closure.py:174,239`), the comparison of their verdicts fails before any
  generator runs, and nothing but deleting the file by hand helps.
* The impact graph (`DependsOn`) is evidence and never an input of the freeze,
  which runs every stage (`generate-abi-04-product-v2.mjs:172`); it is recorded,
  and no property rests on it.
* The generator of the orchestration is not in the repository (external), and
  what `open-topology` says of topologies is text.

### FixtureCapture

`Script` lists the shared steps of each capture: what it asks of the port, sends
to the chain or writes. `node` is what listens on a port, whoever started it;
`Bind` lets a second node fail to listen while its driver goes on with the
first one (`WaitForAnvil` asks only for the block it expects). A chain is the
sequence of its transactions, all of one sender, so that its length is the nonce
and a position is an address. `LosesNode`, `Killed` and `Edit` come at any point:
a driver killed leaves its node, and a driver in a synchronous wait does not see
its node exit. Of the seven contracts the runtime capture deploys,
`RuntimeContracts` are modelled; the seven contracts and 45 cases of the
high-bits run are one each: cases differ in data only and each reverts to the
snapshot it began with.

Not claimed, because the code does not promise it: that a runtime fixture was
captured on a chain of its own (with gaps in the nonces it verifies, and is
nevertheless whole); that the *legalized* control of a high-bits case reached
code on the profile endpoint, where success is the expected outcome at an
emptied address too; that SEP-04 deployed the compiler output it hashes
afterwards. The suffix a report name gets while an earlier node survives, and
two captures racing for an output root, are not modelled.

### EndpointReproduction

`cases`, `overlayHeads`, `custody`, `frozenTarget`, `restricted`, `actions` and
the consumed sets are the fields of `EndpointState`. `ActionVerdict` and
`ReversalVerdict` are the ladders of `executeAction` and `executeReversal`, with
`CommonChecks`, `ReplayChecks`, `FieldRules` and `CaseRules` in the order of the
code, and answer with the first failing rule. Beside them stand the tables,
translated from `spec/erc-trust-kernel-v2.json` and independent of the ladders:
`table` is the phase, family, subject and live actions of each case, `CaseReasons` a row of `caseTransitions`,
`ActionAnswers` and `ReversalAnswers` the verdicts the order of validation
allows. `Next` applies what the reproduction accepts to both. Receipts are
functions of the commands, as in `deriveActionReceipt` and
`deriveReversalReceipt`, and `Receipts` is all of them.

`VectorShapes` are the commands of the generated vectors and variations of them
in every order. It leaves out commands no vector contains and on which the two
sides differ:

* a restriction, or a freeze, of a second subject in an open case: accepted
  (section 4, where code and documents differ);
* RECOVER out of custody does not consume its entitlement;
* the shape rules run before the nonce's, the order of validation has them after;
* a mispaired reversal of an amendment already reversed answers
  `REVERSAL_PAIRING`, the order has `CURRENT_EFFECT` first;
* a direct disposition whose source is not its subject answers `CUSTODY`; the
  tables are read as allowing `SHAPE` or `CUSTODY`.

`Regular` says what the vectors keep to instead: an overlay is set on one
subject of a case, tokens are recovered from the subject itself, the common
fields have their shape, and a reversal that does not pair is one of an action
that is never amended. TLC evaluates it for `VectorShapes` and `VectorPairs`
(`VectorsAreRegular`), and it is the hypothesis under which the agreement is
proved for any other shapes.

`evidence/known-limitations.md:107` says what the reproduction claims: to derive
the vectors again, and not to be a second implementation of the endpoints.

### WireFormat

`schema` is the format the specification states. `solidity` and `sdk` are two of
the files generated from it, in the order they are written, and `vectors` the
format the third was computed from; they differ when a generation is cut off
between them or the schema is edited after. `Pass` is the job of continuous
integration on the files of the moment; `passed` keeps the generations it let
through, and `Publish` and `Deploy` take one of these, then or after later edits.
Solidity has no numbers for the
members of a kind, TypeScript has: `renderEnum` orders them, `Compiled` counts
them, and `Renderable` refuses numbers for which the two would not agree. A keccak
is the sequence of the words it is taken of, so that no two of them collide by
assumption, and `Version1` is the SDK's other entry point. `Reproduces` and
`SdkTests` are computed on the words of the vectors themselves, with the fixture's
own values, because whether they notice an exchange depends on these values: in
all three reversal vectors both epochs are 1, and only the raw words of the SDK's
tests tell them apart. The letter case of addresses, values out of range, the
other generated files (ABI, prose, receipt schema) and the receipts of version 1
are not modelled.

### RuntimeBinding

`disk` holds the files of the binding, each with the contents its digest stands
for; `running` is the generator that runs with the files it has still to write.
`Build` rebuilds any of Foundry's artifacts, `Kill` ends a generator between any
two files, `Qualify` writes the receipt where `Verified` holds, and `Replays` is
the two commands of `FORMAL_VERIFICATION.md:475`. Versions 0 and 1 of a source
differ in a comment: their compiler outputs differ and their code does not. Of
the seven subjects there are three, one that is alone in its bundle and two of
which one pins the other's code: the resolved runtime of the governor changes with
the source of the token (`valuesByLabel`). The verifier is one step, though it
takes seconds; its receipt is checked again by `Replays` on the tree of that
moment. The digest over the manifest's own entries is not modelled, as a manifest
is only ever written with the right one.

## 4. Model checking

`tlc -config MCx.cfg M`, with the module `M` that `PROJECT.json` names for the
run: `MCTrustToken` for the endpoint, else the component's own or its MC module.

| Run | Question | Properties |
|---|---|---|
| custody | Are ledger, backing and custody records consistent when custodians are seized from and hold for each other? Can a transfer reach encumbered tokens? | `SupplyConserved`, `CustodyAccounting`, `BackingSolvency`, `OrdinaryTransferProtects` |
| mixed | Every kind of command: is each step a row of the case table, do overlays stay separate and unwind in order, is history complete, nothing accepted twice, and can every open case be closed? | `HeadOwnership`, `FreezeChain`, `OpenCaseReversible`, `ReceiptChain`, `ReversalOnce`, `SpentOnce`, `DerivedState`, `TerminalForever`, `ImplementsKernel` |
| governance | Rotation, rebinding, drift and windows around commands: is anything accepted on stale authority or evidence? | `EvidenceMatchesRoot`, `RootNeverRecurs`, `GovernanceOnce`, `AuthorityInForce` |
| profile | Is what the adapter owns what the token enforces, whatever the token does? | `OwnedIsAccounted`, `FrozenFloor`, `CustodyBacked`, `FailsClosed` |
| proofci | What may a build start from, who may publish, does every run conclude? | `ReuseExact`, `SharedStateOwned`, `NativeBuild`, `EveryRunConcludes` |
| wave | Are sessions cleared, is credit deserved, does every wave end? | `SessionsOwned`, `CreditSound`, `WaveEnds` |
| evidence | Is anything stale accepted, and can a stale tree always be refreshed? | `NoStaleCredit`, `RefreshAccepted` |
| freeze | Does a product that was frozen hold what its generators make of the tree, whatever was done to it meanwhile, and does an undisturbed freeze pass? | `FreezeSound`, `QuietRunPasses` |
| capture | Is what was captured of one chain and one capture, and of calls that reached code? | `AloneOnChain`, `FixtureWhole`, `PassReachedCode` |
| reproduction | Does the reproduction answer as the tables do, in every order of the vectors' commands, and do receipts tell what is in force? | `SameVerdict`, `ReceiptsExplain` |
| wire | Can an edit of the schema, or a generation cut off, bring a second format into use? Does an endpoint read what the author wrote, and only where it was meant? | `OneFormat`, `MeaningKept` |
| binding | Is a binding that replays the one of the sources, in every subject? | `QualifiedIsCurrent` |

**Bounds.** Two cases are what interference needs, two or three accounts make
holder, custodian and destination distinct or equal as wished, four actions and
two reversals reach a freeze amended twice and unwound by two, a custody
opened, released and the tokens seized again, and a case attempted after its
end. Amounts of 1 to 3 against a supply of 2 or 3 cover targets below, at and
above the balance, and partial overlap with backing. Nonces are as many as
commands, and one request may reuse any of them. In `custody` only `a1`
approves, and only `a2` (`OneAllowance`): one delegation is what a delegated
transfer needs. The governance run has two
configurations of one dependency, three authority epochs, a window that opens
late, one that closes and the zero one, and a governance identifier that
collides with the key of a nonce. `MalformedIn` holds one request for
each way of getting a field wrong, so that the guards are exercised.

`InOrder` is an action constraint: identifiers and nonces are interchangeable,
and each run takes the smallest unused one. It only removes behaviours that
differ by a renaming. So does the symmetry of `mixed` (`EitherCase`): neither
case is named in `Init`, the requests treat both alike, and every property
quantifies over cases; both its `PROPERTIES` are about single steps.

The profile run has one holder and the adapter, two cases of its own beside the
imported ones, three commands and two changes from outside: a seal that imports,
a seizure between a disposition and a release, tokens that arrive after a
freeze, and a token changed behind a command. The proof run has two pull
requests, one of them from a fork, one that changes the driver, two revisions
and three attempts: enough for main to move between a run and its merge, for a
rerun after publication and for a push that waits. The wave run has a positive
and a negative replay on two workers and one fault anywhere; both coordinators are in
the same run. `EditsMatter` takes an edit when a step that reads what it edits
may be next, since it commutes with every other step. The evidence run lets two edits or removals of any of six sources
and seven receipts and reports, three commands and any number of passes meet in any order; three commands are what
it takes to render, record and summarise out of order.

The freeze run has two runs of the coordinator and two disturbances anywhere:
what one run leaves the next one finds, and one disturbance can undo another
between two passes. `EditedSources` and `TouchedOutputs` have a member of each
kind: a source read early and one read outside the row, a compiled runtime and a
receipt that makes a generator refuse; an output that is rebuilt, one that is
preserved and one only later stages read. The capture run takes the plans of
`CapturePlans`: two captures on one port, of the same kind or not, and captures
with replays. `CapturesFirst` orders a capture and a replay that share nothing
until the result exists; `EditsMatter` leaves out edits nobody in the plan reads.
Two runtime contracts are one that refers to another; two edits are one and its
undoing. The reproduction run has five commands on three cases, two of one
subject and one of another, and offers each with a fresh nonce or the first one
again: an amendment chain unwound, and a case attempted after its end.

The wire run takes every exchange of two entries of any struct or enumeration:
any reordering that passes would have to pass in all its vectors, and an exchange
is the least that a reordering changes; a number that is taken, or that leaves a
gap, is what the generator refuses. `EditsOrCommands` keeps edits and commands
apart, because `OneFormat` shows that edits bring no second format into use under
a domain; beside the one there is version 1's, with a domain of its own. Three
places are an endpoint, its address on another chain and another address, and two
commands are what one can be mistaken for. The binding run has two edits, so that
a source can leave a version and come back to one of the same code, two builds,
and three generators: a binding, a fixture of it, and one of either that is too
late. `Editable` has the source of the token whose code the governor pins and one
that both bundles import.

**Deadlock** is checked in the runs of the endpoint; it does not
occur, as a dependency may always drift and a holder always approve. In the
others the system may really stop: a sealed adapter whose nonces are spent and
whose token rejects everything, workflow runs that are all concluded with the
attempts used up, a coordinator that has exited, a tree nobody edits any more,
captures and freezes that have all ended, a reproduction given all its commands,
a schema or a binding nobody touches any more.

**Liveness.** None is claimed of the contracts: every step is someone's
decision to send a transaction, so the code justifies no fairness. What takes
its place is `OpenCaseReversible`, a state predicate: whatever happened, the
head of an open case passes the checks of its reversal and a release finds its
tokens, so that an authority can always close it (with a live policy and a
valid envelope). The programs do promise to end. `EveryRunConcludes` assumes
weak fairness of each run's own steps: the host keeps running what it started
or queued; every command has a time limit or none that can block, and nothing
is assumed of pull requests, artifacts or permissions. `WaveEnds` assumes less:
weak fairness of *some* step of the coordinator, workers, launchers and dying
processes; a descendant that never exits is not in it, which is why the bounded
waits of the launcher matter.

**Where code and documents differ.** Three places, met while reading the code for
the models; none is a property of a run.

* `record-certora-results-v3.mjs:60-64` hashes its inputs when it *records*, and
  nothing ties the prover's run to them. In `EvidenceChain`, edit the base
  contracts, run the prover, undo the edit and record: every verifier accepts the
  receipt, while `evidence/claim-matrix.md:23` says of the receipts that bind code
  identity, Certora's among them, that "a stale one is rejected". `RecordCertora`
  and `CertoraLane` say what the code does; `NoStaleCredit` speaks of the receipts
  whose recorders compare what the run was given.
* `independent-reproduction-v3.mjs:1432` says that the case table "was implemented
  as a small state machine". CT-6 (`spec/erc-trust-kernel-v2.json:1222`) rejects
  every RESTRICT from OPEN(RESTRICT), whoever its subject is; the code looks at
  the head of the request's own subject only (line 624), and accepts a second
  subject in the case of the first. The first reversal then closes the case with
  the other restriction in force, whose own reversal is refused as terminal. The
  native endpoint refuses the command, and no vector contains it, so the
  reproduced verdicts stand; `SameVerdict` speaks of the commands of `Regular`.
* `sdk/src/kernel-v2.test.ts:315` says "Every word carries a different value, so no
  reordering of any two fields can survive." In the receipt of that test
  `receiptKind` and `commandKind` are both 2, and an exchange of the two survives
  it. The vectors tell the two apart (`OneFormat`), so what is published is right.

## 5. Proofs

`tlapm M.tla` for `M` in `FiniteSums`, `TrustTokenProofs`,
`TrustTokenLedgerProofs`, `SealedProfileProofs`, `ProofCIProofs`,
`WaveRunnerProofs`, `EvidenceChainProofs` and `EndpointReproductionProofs`. Each
extends the ones before it that it needs. The theorems about the native endpoint
hold for arbitrary sets of accounts, cases, identifiers, authorities, dependencies
and requests, and an arbitrary `MaxUint`, under the assumptions `TrustToken`
names: `ZeroAssumption` (zero is no account, case, ...), `DeploymentAssumption`
(constructor arguments; the supply is a machine word), `InputAssumption` (types
of what callers submit), `IdentifierAssumption` (identifiers of actions and of
reversals do not meet, and the model's mark for the settlement dependency is no
entitlement) and `FinitenessAssumption` (accounts, cases and authority
references are finitely many, as their machine types make them). TLC evaluates
all of them in every run.

### Types, custody and finality (`TrustTokenProofs`)

* `TypeCorrect`: `Spec => []TypeOK`. `TypeOK` is inductive as it stands. It says more
  than it seems: naturals mean that no subtraction underflows, and records
  naming only `Accounts` and `CaseIds` that no command slips a zero through the
  shape checks. `MoveType` and `ShapeFacts` carry the argument.
* `CustodiansSolvent`: `Spec => []BackingSolvency`. Inductive together with
  `TypeOK`. A seizure adds the same amount to balance and backing of the
  custodian, who differs from the source; a disposition takes a custody record
  out of both or respects `_requireUnbacked`; a release takes the same from
  both; an ordinary transfer stays within `_ordinaryAvailable`. `MoveAt` gives
  the effect of `_move` on any account, self-transfer included.
* `EncumberedProtected`: `Spec => OrdinaryTransferProtects`. Needs
  `ReceiptedAction` (an identifier with a receipt has a record), for a command
  must be seen to issue a *new* receipt, which tells it from a transfer.
* `TerminalIsForever`: `Spec => TerminalForever`. `TerminalForever` does not
  follow from the guards alone: a direct disposition sets the family of its
  case, so one needs that an open custody case has an active record and an
  untouched case no family (`CaseFamily`, inductive). Every command then moves
  one case and that only from a phase other than terminal (`OneCaseMoves`).

### Sums (`FiniteSums`)

The community modules define a sum over a set by folding it in an order `CHOOSE`
picks. What the ledgers need is that changing one summand changes the sum by the
difference (`SumUpdate`, `SumAdded`), that a summand never exceeds a sum of naturals
(`SumBounds`), and what sums of zeros or of a single term are.
Induction over finite sets is done without the induction theorems of the
library: strict inclusion is well founded on the finite sets, so a claim that
fails fails at a smallest set (`Smallest`, `PickInduction`).
The same argument gives the largest and the smallest member of a finite set of
integers, which `CHOOSE` would otherwise leave unknown (`MaxIs`, `MinIs`).

### Heads and chains (`TrustTokenProofs`)

`OverlayInv` is the joint inductive invariant: a head belongs to an open case of
its family which names it (`HeadsOwned`, `CasesOwn`), live effects belong to the
case of the head (`LiveBelongs`), a restriction is never amended
(`RestrictionsAlone`), and the live freezes of a subject occupy disjoint intervals
from the target they found to the one they set (`FreezeLevels`).
Neither `HeadOwnership` nor `FreezeChain` is inductive alone: that unfreezing
the head of a subject leaves a proper chain needs to know that the parent is live
and in the same case, which follows from where its case got its head; and that
the parent is the *next* live freeze down needs the intervals to be disjoint.
`HeadsAreOwned`, `FreezesChain` and, with solvency and the accounting of
custody, `OpenCasesReversible` follow from it.

### The books (`TrustTokenLedgerProofs`)

`SupplyIsConserved` (`MoveSum`, for transfers to oneself too), `LedgerNeverWraps`
(with `BackingSolvency`), and `CustodyAccounted`, which takes from `OverlayInv`
that a case has an active custody record exactly while it is an open custody
case, so that a seizure adds a summand and never replaces one.

### The past (`TrustTokenLedgerProofs`)

`GovernanceInv` has the root in force ahead of every root of the log, in its own
epoch or in that of some binding, and the epochs reached bounded by the
governance nonces spent, which are counted although an authorization identifier
may be the key of another nonce. `RootsNeverRecur` and `GovernanceSpentOnce`
follow. `CommandInv` has the receipts of a case as a chain of as many steps as
the case took, as many used nonces as receipts, entitlements named once, the
evidence of a receipt bound under the root it names, and for each action its
reversal or none; `ReceiptsChain`, `SpentForGood`, `EvidenceIsCommitted` and
`ReversedOnlyOnce` follow. `AuthoritiesInForce` is the action property
`AuthorityInForce`: the one nonce a command spends is fresh and of the epoch in
force of an active authority, its records name that epoch, and whatever changes
an authority, a rotation or a revocation, takes it to a new epoch, so that a
command overtaken by it stays void. It needs the type invariant only. TLC checked the
strengthened invariants before they were proved, on the instances of `mixed`
(`OverlayInv`, `CommandInv`), `custody` and `governance`.

### The refinement (`TrustTokenLedgerProofs`)

`EndpointImplementsKernel`: `Spec => ImplementsKernel`, for every step and every
value of the constants. `KernelCase` reads a case of the kernel off the records
of the endpoint. One lemma per command says what the kernel's record of its case
becomes, from `OverlayInv` (the set of targets gains the amount that was set or
loses the largest one); `CaseMoves` that no other case changes; and `StateIsDerived`
that the guards of the kernel, which speak of derived totals, are those of the
code, which speak of running totals. For the backing this is `CustodyAccounted`.

### The adapters (`SealedProfileProofs`)

For arbitrary holders, cases, nonces, targets and amounts, under the assumptions
of `SealedProfile`: the adapter is no holder (`AccountAssumption`), balances and
targets are naturals (`BalanceAssumption`, `TargetAssumption`), there are finitely
many holders and cases (`FinitenessAssumption`) and the mark for no custody is
no custody record (`CustodyAssumption`).

`ProfileInv` is the joint inductive invariant (`ProfileHolds`). `RecordsInv` is about
the adapter: a head is an effect in force and the head of an open case of its
kind (`HeadsMatch`), what is owned is what the heads say (`OwnedMatches`), each
freeze in force on an account found either nothing or the freeze in force just
below it, of the same case, with the amount to fall back to (`FreezesNest`), and
backing is the sum of the open custody cases (`Backed`, `CasesOwn`).
`OwnedIsAccounted` is not inductive without the nesting: unfreezing makes the
parent the head, and it must be known that the parent is still in force, that
its amount is the prior the reversal restores, and that nothing in force lies
above it. Nor is `CustodyBacked`
without `SeizedFromHolders`, for a release must leave the adapter.
Before the seal nothing is recorded (`FreshBefore`), which is what makes the
imported effects the only ones; the seal numbers them by the library's
enumeration of a finite set (`Enumerated`, `SealingIs`), and each is a head.

About the token, what a command does is summarised before the records are
looked at: whatever the token does when told to transfer, a command that passes
the checks leaves each account as it was, or in the state the adapter owns,
from which it started (`Closes`). `CommandsFailClosed` is that, and
`FloorAlwaysShown` follows because a settled account is at its floor or keeps what it
showed and its target (`ClosingKeepsFloor`); a holder's transfer can lower the
balance to what is frozen and no further. TLC checked every
conjunct of `ProfileInv` on the instance of `profile` before it was proved.

### The proof workflow (`ProofCIProofs`)

For every set of pull requests, forks and driver changes and any number of
revisions and attempts: `ProofCIAssumption` is the only assumption, and no step of
the proof uses what it says of the bounds. `CIInv` is the inductive invariant
(`WorkflowHolds`); TLC checked it on the instance of `proofci` first.

`ReuseExact` speaks of a build that has already started from heaps of a pull
request; why these heaps are the right ones was decided three steps earlier, by
`selectPrArtifact`, and since then pull requests may have advanced, runs been
repeated, artifacts expired or been damaged, permissions been taken away. The
invariant therefore follows the selection: from the download to the build
the run that was selected is one of the final head of the pull request whose
merge made this commit, of this very tree (`Exact`, `Reuses`). It is established by
`SelectedIsExact`, which needs that an artifact describes the tree of the run it
names (`Uploaded`) and that the identity compared is one over *all* sources. It
lasts (`ExactStays`) because a merged pull request is frozen, main only
grows and no run changes what it is for, a repeated one included (`Grows`).
Note what the proof does not use: the inventory of the download is compared again
(`validateState`), but exactness would survive without it; what needs it is
`NativeBuild`, through `Orderly`, which says what each step of an attempt has
established for the ones after it.

`SharedStateIsOwned` follows from `ArtifactsOK` and `CachesOK`: an entry is the tree of
the push that saved it, which is that of its commit (`OfCommit`), and under its
own key because it is appended only where no entry has it; entries expire from
the front, which renumbers them and changes nothing else.

### The waves (`WaveRunnerProofs`)

For any number of replays, of workers and of faults; `WaveAssumption` says that
there is at least one worker, that each side calls for exit 0 or 1, and that
`None` is neither an exit code nor an outcome. `WaveInv` is the inductive
invariant (`WavesHold`), in five parts.

* `TypeOK`.
* `JobsOK`, for each replay what its worker, launcher, session and output root
  may be at the same time. Before a replay is taken there is nothing of it; a
  launcher looks at the outcome only when its session is gone; once it has
  written its exit code nothing of the replay moves any more; and when that
  code says that all went as expected, the proof read no drifted input that had not
  drifted when the launcher began, which is what the acceptance looks at.
* `PoolOK`: all replays are queued before the pool opens and completed when the
  whole is sealed, and what is taken and not completed never exceeds the workers,
  because no worker takes another replay after one has failed.
* `TerminationOK`: how far the coordinator has come in stopping what it started,
  and what that leaves alive.
* `EndOK`: what is left when the coordinator has exited, with `CreditSound`.

Neither property is inductive alone. `CreditSound` speaks of the state in which
credit is written, but why the replays it counts were proved with pinned inputs
was decided when each launcher wrote its exit code, and since then inputs may
have drifted, launchers been killed and other replays failed; `JobsOK` carries
it there. `SessionsOwned` bounds the sessions that run by `MaxHeavy`, which
nothing in the state counts: it is the size of the set of replays that were taken
and not completed, and the proof is about when that set may grow
(`PoolOK`). `CreditIsSound` and `SessionsAreOwned` follow from `WaveInv`, which
TLC checked on the instance of `wave` first.

### The evidence chain (`EvidenceChainProofs`)

For any number of edits, removals and runs, in any order and cut off anywhere:
the bounds of `EvidenceAssumption` are not used, only that `None` is none of the
contents of a file.

`AcceptanceIsCurrent` is `Spec => []NoStaleCredit`. Most of what `NoStaleCredit`
asks for is compared by `Accepts` at the moment of acceptance. Two receipts have
verifiers that do not look at what was run: the Isabelle receipt, whose digest of
the run must be that of the theories, and the deterministic replay. For them the
invariant `TreeInv` remembers that a recorder writes only what it
compared (`Honest`), and that no command writes a source. It is preserved by any
prefix of any command because each of the writes keeps it (`HonestWrites`), and a
file holds the last write to it (`AppliedIs`, from `MaxIs`).

`RefreshIsAccepted` is `Spec => []RefreshAccepted`: a pass of all the commands,
from any tree that can be reached and has the baseline sources, ends accepted.
It is a statement about the composition of the commands of `Order`, each reading
what the ones before it wrote, and about digests that must not form a circle.
`Fresh(v)` describes the tree that such a pass aims at, with every
file a rendering of the sources or a receipt of a run on them; one exists for
any sources (`FreshExists`). Each command is then shown to *fill in* the
files it writes: if what it reads agrees with `v`, what it writes agrees with `v`
(`Agrees`, `Fills`, one lemma per command). The manifest is written twice, the
first time in the middle when later files are still old; only its record of the
runtimes matters there (`ManifestIs`, `WithManifest`). After the last command the
tree is `v` with its manifest, and `FreshAccepted` evaluates `Accepts` on it. A
pass is a recursive function of the number of commands done; what it has carried
through so far is shown by induction over an interval (`Throughout`, `CarriedIs`).

### The reproduction (`EndpointReproductionProofs`)

For arbitrary subjects, cases, shapes, reversals and any number of commands,
under `ReproductionAssumption`: zero and the custodian are no subjects, nobody
disposes of tokens to the custodian, `None` is neither an action nor a record.

The ladders of checks are sequences, of which the verdict is the first that
fails; `AnswerAfter` says what is known when all before a given rule have passed,
and is what every lemma about a verdict rests on.

`ReproductionInv` is the inductive invariant (`ReproductionInvariant`): types;
the freezes in force on a subject occupy disjoint intervals from the target they
found to the one they set, with the head on top (`FreezesNest`); one restriction
per subject (`RestrictedOnce`); a case has a custody record exactly while it is
open for a seizure, whose record it is (`CustodyOf`); the case of an overlay is or
was one of its family (`OverlayCases`); and what the custodian received is what
it passed on and what is held (`CustodyBalanced`, with the sums of
`FiniteSums`). `ReceiptsAlwaysExplain` (`Spec => []ReceiptsExplain`) follows,
since the receipts no other one names as its parent are those of the actions in
force (`UnreversedAre`). It needs no hypothesis about the shapes: also where the
program accepts more than the tables, its receipts explain the state it is in.

`VerdictsAgree` is `Regular(Shapes, Pairs)` implies `Spec => []SameVerdict`.
`TableInv` relates the program to the tables, which have been given the same
commands: phases are the same; in an open case the live actions are a chain of
amendments on one subject whose last is the program's head (`CaseTold`,
`HeadTold`); each recorded action is of a shape that was offered, and is of the
family its case has (`ActionTold`); the spent nonces and entitlements are those
of the commands applied. Given that, the order of validation is followed step by
step (`StepAfter`), beside the ladder of the code (`ActionAgrees`,
`ReversalAgrees`), for a command of any kind in a case of any phase. That the
commands both sides accept keep `TableInv` is shown for what opens or amends a
case (`Opens`), closes it (`Closes`) and takes a step of it back (`TakesBack`).
The hypothesis is not for the proof's convenience: section 3 lists, for commands
outside `Regular`, where the two sides differ.

### Only model-checked

* The wire format and the candidate 2 binding: `Reproduces`, `SdkTests` and
  `Replays` are evaluated, not reasoned about; their worth is in the concrete
  fixture values, field lists and files of the program.
* Liveness (`EveryRunConcludes`, `WaveEnds`), and whatever needs `ENABLED`: out
  of the prover's reach.
* `FreezeSound` and `QuietRunPasses` of `AbiProduct`: an
  artifact records the history of what it was made from, to the depth of the
  graph of eleven generators, and the claims are about folds over that fixed
  graph. The model has the generators, files and gates of the program
  itself; only the number of disturbances is bounded.
* `AloneOnChain`, `FixtureWhole` and `PassReachedCode` of `FixtureCapture`: these
  are about the plans of `CapturePlans`, in which two captures at most are on a
  port. They are not claimed of arbitrary plans: with a third capture a chain may
  be replaced, or an emptied address deployed to again, between two steps of the
  first one.

## 6. Not modelled

The exact-use route and the pilot are planned (section 2). Of the native
endpoint, which of several failing checks a rejected command reports. Of the hook profile,
the factory's and the deployment's own checks; of the waves, the plan and
preflight modes and the graph contract an analyzer compares with; of the static
product, the text of its claims and the plan-only modes; of the captures, traces,
storage maps and logs beyond whether a call reached code; of the reproduction,
its report; of the evidence chain,
negative self-tests, link, surface and health checks, which keep no state; the
release policy (`lib/trust12-policy.mjs`, `verify-trust12-required.mjs`), whose
ledgers and closures people write; of the SDK, version 1's receipts. The row-bundle pipelines of the other KEVM rows are left out as
generators of fixed archives. The
Isabelle and KEVM developments, tests, vectors and evidence archives are data
or proofs, not programs that run. View functions and ERC-165 only read.
