--------------------------- MODULE FixtureCapture ---------------------------
(***************************************************************************)
(* The programs that run contracts on a local chain and record what they   *)
(* see (scripts/capture-runtime-fixture.mjs with its verifier, and the     *)
(* captures of rows SEP-04, ABI-04 and ACT-01 under                        *)
(* evidence/candidate-2/formal/kevm/row-bundles).                          *)
(*                                                                         *)
(* Each looks whether its port is free, starts a node (Anvil, through a    *)
(* wrapper), waits until something on the port answers with the block it   *)
(* expects, deploys, observes, writes, and kills what it started.  Nothing *)
(* ties the node that answers to the node that was started: two captures   *)
(* begun together drive one chain, from the same account, and a node may   *)
(* outlive the program that started it.                                    *)
(*                                                                         *)
(* A chain is the sequence of its transactions, one to a block, all of one *)
(* sender: its length is the block number and the nonce, and the place of  *)
(* a creation is the address of what it created.                           *)
(***************************************************************************)
EXTENDS Naturals, Sequences, SequencesExt

CONSTANTS
  None,
  Plans,             \* the captures that are run, in the order they start:
                     \* a set of sequences of kinds
  RuntimeContracts,  \* how many contracts the runtime capture deploys
  MaxEdits           \* bound on edits and recompilations

VARIABLES
  node,      \* for each kind of capture, what listens on its port
  driver,    \* the captures
  hex,       \* the resolved runtimes on disk
  fixture,   \* the runtime fixture on disk
  compiler,  \* versions of the sources, the compiler output, the manifest
  edits

vars == <<node, driver, hex, fixture, compiler, edits>>

Contracts == 1 .. RuntimeContracts

(* The steps of each capture that touch anything shared.  The seven        *)
(* contracts of the high-bits run are one here, and so are its 45 cases    *)
(* and the topology transactions of the runtime capture.                   *)
Times(n, steps) == FlattenSeq([i \in 1 .. n |-> steps])

Script ==
  [runtime   |-> <<"port", "wait">>
                   \o Times(RuntimeContracts, <<"nonce", "create", "save">>)
                   \o <<"topology", "write">>,
   sep04     |-> <<"port", "wait">> \o Times(2, <<"nonce", "create">>)
                   \o <<"before", "dump", "send", "post", "after">>,
   highBits  |-> <<"port", "wait", "create", "resolved", "setup", "control",
                   "malformed", "snapshot", "stutter", "receipt", "revert",
                   "legalized", "result">>,
   act01     |-> <<"port", "wait", "create", "create", "create", "resolved",
                   "dump", "before", "send", "post", "after", "control",
                   "result">>,
   footprint |-> <<"port", "wait", "before", "replay", "report">>]

Kinds == DOMAIN Script

Tx(d, does, n) ==
  [by |-> d, does |-> does, n |-> n, version |-> compiler.sources]

Listening(d, txs) == [by |-> d, txs |-> txs, snapshots |-> <<>>]

(* "reached" are the calls of a case that found the contract's code.       *)
Fresh(kind) ==
  [kind |-> kind, state |-> "off", at |-> 1, server |-> "none",
   outputs |-> 0, root |-> 0, nonce |-> 0, own |-> <<>>, pre |-> <<>>,
   post |-> <<>>, ok |-> FALSE, reached |-> {}, captured |-> 0,
   result |-> None]

-----------------------------------------------------------------------------
K(d) == driver[d].kind
At(d, step) ==
  driver[d].state = "running" /\ Script[K(d)][driver[d].at] = step

Reach(d) == node[K(d)] # None
Chain(d) == node[K(d)].txs
Sent(d, tx) == [node[K(d)] EXCEPT !.txs = Append(@, tx)]

(* The contract d created as its i-th is the one at its address.  It is    *)
(* not after another driver has set the chain back, or on a later chain.   *)
Live(d, i) ==
  /\ driver[d].own[i] <= Len(Chain(d))
  /\ Chain(d)[driver[d].own[i]].does = "create"
  /\ Chain(d)[driver[d].own[i]].n = i

Goes(d, r) ==
  driver' = [driver EXCEPT ![d] = [r EXCEPT !.at = @ + 1]]

Files == <<hex, fixture, compiler, edits>>

(* Of a process that has ended its node is left, which may not have loaded *)
(* its state yet.                                                          *)
Over(d, state) ==
  [Fresh(K(d)) EXCEPT !.state = state, !.server = driver[d].server,
                      !.pre = IF K(d) = "footprint" THEN driver[d].pre ELSE @]

(* The end of a capture, "finally" included.  Killing the wrapper may or   *)
(* may not reach the node.  The replay of ACT-01 kills whatever node runs  *)
(* on its port, its own or not.                                            *)
Ends(d, chain, state, result) ==
  \E survives \in BOOLEAN :
    LET stopped ==
          IF survives \/ driver[d].server \in {"none", "dead"} THEN {}
          ELSE IF K(d) = "footprint"
               THEN {e \in DOMAIN driver : K(e) = K(d)}
          ELSE {d}
        Server(e) ==
          IF e \in stopped /\ driver[e].server # "none" THEN "dead"
                                                        ELSE driver[e].server
    IN  /\ driver' = [e \in DOMAIN driver |->
                        IF e = d
                        THEN [Over(d, state) EXCEPT !.result = result,
                                                    !.server = Server(d)]
                        ELSE [driver[e] EXCEPT !.server = Server(e)]]
        /\ node' = [node EXCEPT ![K(d)] =
                      IF chain # None /\ chain.by \in stopped THEN None
                                                              ELSE chain]

Fails(d) == Ends(d, node[K(d)], "failed", None)

(* A step that asks the node: on when the answer is as expected, else over.*)
Expect(d, ok, r) ==
  /\ \/ ok /\ Goes(d, r) /\ UNCHANGED node
     \/ ~ok /\ Fails(d)
  /\ UNCHANGED Files

(* A step that sends a transaction.                                        *)
Sends(d, tx, r) ==
  /\ node' = [node EXCEPT ![K(d)] = Sent(d, tx)]
  /\ Goes(d, r)
  /\ UNCHANGED Files

-----------------------------------------------------------------------------
(* Starting.  The replay of ACT-01 needs a capture that passed.            *)

Start(d) ==
  /\ driver[d].state = "off"
  /\ \A e \in 1 .. d - 1 : driver[e].state # "off"
  /\ \E c \in DOMAIN driver :
       /\ IF K(d) = "footprint"
          THEN K(c) = "act01" /\ driver[c].result # None
          ELSE c = d
       /\ driver' = [driver EXCEPT ![d] =
                       [@ EXCEPT !.state = "running",
                                 !.outputs = compiler.outputs,
                                 !.root = compiler.manifest,
                                 !.captured = c,
                                 !.pre = IF K(d) = "footprint"
                                         THEN driver[c].result.pre ELSE @]]
  /\ UNCHANGED <<node, Files>>

CheckPort(d) ==
  /\ At(d, "port")
  /\ Expect(d, ~Reach(d), [driver[d] EXCEPT !.server = "starting"])

(* The node: it binds the port, or finds it taken and exits.               *)
Genesis(d) == IF K(d) = "footprint" THEN driver[d].pre ELSE <<>>

Bind(d) ==
  /\ driver[d].server = "starting"
  /\ IF Reach(d)
     THEN /\ driver' = [driver EXCEPT ![d].server = "dead"]
          /\ UNCHANGED node
     ELSE /\ driver' = [driver EXCEPT ![d].server = "up"]
          /\ node' = [node EXCEPT ![K(d)] = Listening(d, Genesis(d))]
  /\ UNCHANGED Files

(* Whoever answers with the expected block will do.  The wait may run out, *)
(* and the captures that wait asynchronously may see that their node is    *)
(* gone; those that block their event loop cannot.                         *)
WaitForAnvil(d) ==
  /\ At(d, "wait")
  /\ \/ /\ Reach(d)
        /\ Len(Chain(d)) = Len(Genesis(d))
        /\ Goes(d, driver[d])
        /\ UNCHANGED node
     \/ Fails(d)
  /\ UNCHANGED Files

(* No node, no answer.                                                     *)
LosesNode(d) ==
  /\ driver[d].state = "running"
  /\ ~At(d, "port") /\ ~At(d, "wait")
  /\ ~Reach(d)
  /\ Fails(d)
  /\ UNCHANGED Files

Killed(d) ==
  /\ driver[d].state = "running"
  /\ driver' = [driver EXCEPT ![d] = Over(d, "killed")]
  /\ UNCHANGED <<node, Files>>

-----------------------------------------------------------------------------
(* Deployments.                                                            *)

ReadNonce(d) ==
  /\ At(d, "nonce")
  /\ Reach(d)
  /\ Expect(d, TRUE, [driver[d] EXCEPT !.nonce = Len(Chain(d))])

(* A runtime as written to disk: the version that was compiled, with the   *)
(* addresses of the contracts before it in its immutables.                 *)
Resolved(i, version, own) ==
  [version |-> version, addresses |-> SubSeq(own, 1, i - 1)]

(* What is asked at once: the address the nonce promised and, of SEP-04,   *)
(* the bytecode of the resolved file.                                      *)
DeploymentExact(d, i) ==
  /\ K(d) \in {"runtime", "sep04"} => driver[d].nonce = Len(Chain(d))
  /\ K(d) = "sep04" => hex[i].version = compiler.sources

Deploy(d) ==
  LET i == Len(driver[d].own) + 1
      chain == Sent(d, Tx(d, "create", i))
  IN  /\ At(d, "create")
      /\ Reach(d)
      /\ IF DeploymentExact(d, i)
         THEN /\ Goes(d, [driver[d] EXCEPT !.own =
                            Append(@, Len(Chain(d)) + 1)])
              /\ node' = [node EXCEPT ![K(d)] = chain]
         ELSE Ends(d, chain, "failed", None)
      /\ UNCHANGED Files

(* The deployed code is the patched compiler output, and is written out.   *)
RuntimeExact(d, i) ==
  /\ Live(d, i)
  /\ Chain(d)[driver[d].own[i]].version = driver[d].outputs

SaveRuntime(d) ==
  LET own == driver[d].own
      i == Len(own)
  IN  /\ At(d, "save")
      /\ Reach(d)
      /\ IF RuntimeExact(d, i)
         THEN /\ Goes(d, driver[d])
              /\ hex' = [hex EXCEPT ![i] =
                           Resolved(i, driver[d].outputs, own)]
              /\ UNCHANGED node
         ELSE Fails(d) /\ UNCHANGED hex
      /\ UNCHANGED <<fixture, compiler, edits>>

(* The deployed token is the resolved runtime on disk: of the contracts    *)
(* ACT-01 creates, as of those of the runtime capture, it is the second.   *)
Token(k) == IF k = "act01" THEN 2 ELSE 1

CheckResolved(d) ==
  LET token == Token(K(d))
  IN  /\ At(d, "resolved")
      /\ Reach(d)
      /\ Expect(d, Live(d, token)
                   /\ Chain(d)[driver[d].own[token]].version = hex[2].version,
                driver[d])

-----------------------------------------------------------------------------
(* The runtime fixture and its verifier.                                   *)

Topology(d) ==
  /\ At(d, "topology")
  /\ Reach(d)
  /\ Sends(d, Tx(d, "call", 0), driver[d])

(* The compiler output and the root were read at the start, the digest of  *)
(* the manifest is taken now.                                              *)
WriteFixture(d) ==
  LET own == driver[d].own
  IN  /\ At(d, "write")
      /\ Reach(d)
      /\ IF \A i \in Contracts : Live(d, i)
         THEN /\ fixture' =
                   [own |-> own, chain |-> Chain(d), root |-> driver[d].root,
                    manifest |-> compiler.manifest,
                    files |-> [i \in Contracts |->
                                 Resolved(i, driver[d].outputs, own)]]
              /\ Ends(d, node[K(d)], "passed", None)
         ELSE Fails(d) /\ UNCHANGED fixture
      /\ UNCHANGED <<hex, compiler, edits>>

(* The verifier patches the compiler output of now with the immutables of  *)
(* the fixture and compares that and the digests with the files.           *)
FaultyVerifierAccepts ==
  /\ fixture.manifest = compiler.manifest
  /\ fixture.root = compiler.manifest
  /\ \A i \in Contracts :
       /\ hex[i].version = fixture.files[i].version
       /\ fixture.files[i].version = compiler.outputs
VerifierAccepts ==
  /\ fixture.manifest = compiler.manifest
  /\ fixture.root = compiler.manifest
  /\ \A i \in Contracts :
       /\ hex[i] = fixture.files[i]
       /\ fixture.files[i].version = compiler.outputs

-----------------------------------------------------------------------------
(* One transaction, observed: SEP-04 and ACT-01.                           *)

ReadNonceBefore(d) ==
  /\ At(d, "before")
  /\ Reach(d)
  /\ Expect(d, K(d) = "sep04" => Len(Chain(d)) = 2,
            [driver[d] EXCEPT !.nonce = Len(Chain(d))])

DumpBefore(d) ==
  /\ At(d, "dump")
  /\ Reach(d)
  /\ Expect(d, TRUE, [driver[d] EXCEPT !.pre = Chain(d)])

SendAction(d) ==
  /\ At(d, "send")
  /\ Reach(d)
  /\ Sends(d, Tx(d, "call", 0), driver[d])

DumpAfter(d) ==
  /\ At(d, "post")
  /\ Reach(d)
  /\ Expect(d, TRUE, [driver[d] EXCEPT !.post = Chain(d)])

FaultyNonceExact(before, after) == after >= before + 1
NonceExact(before, after) == after = before + 1

Observed(d, pass) ==
  [pass |-> pass, pre |-> driver[d].pre, post |-> driver[d].post,
   nonce |-> driver[d].nonce, captured |-> driver[d].captured]

(* SEP-04 writes its fixture when everything was exact.  ACT-01 notes it   *)
(* and goes on with the control contract.                                  *)
ReadNonceAfter(d) ==
  LET last == Len(driver[d].own)
      exact == NonceExact(driver[d].nonce, Len(Chain(d)))
  IN  /\ At(d, "after")
      /\ Reach(d)
      /\ \/ /\ K(d) = "sep04" /\ exact /\ Live(d, last)
            /\ Ends(d, node[K(d)], "passed", Observed(d, TRUE))
         \/ /\ K(d) = "sep04" /\ ~(exact /\ Live(d, last))
            /\ Fails(d)
         \/ /\ K(d) = "act01"
            /\ Goes(d, [driver[d] EXCEPT !.ok = exact /\ Live(d, 2)])
            /\ UNCHANGED node
      /\ UNCHANGED Files

SendControl(d) ==
  /\ At(d, "control") /\ K(d) = "act01"
  /\ Reach(d)
  /\ Sends(d, Tx(d, "call", 0), driver[d])

(* A result that says FAIL is written too; nobody takes it.                *)
WriteCapture(d) ==
  /\ At(d, "result") /\ K(d) = "act01"
  /\ Reach(d)
  /\ IF driver[d].ok THEN Ends(d, node[K(d)], "passed", Observed(d, TRUE))
                     ELSE Fails(d)
  /\ UNCHANGED Files

-----------------------------------------------------------------------------
(* The replay of an ACT-01 capture on its state.  The request is spent by  *)
(* the first replay that succeeds.                                         *)

Replay(d) ==
  LET first == Len(Chain(d)) = Len(driver[d].pre)
  IN  /\ At(d, "replay")
      /\ Reach(d)
      /\ Sends(d, Tx(d, IF first THEN "call" ELSE "revert", 0),
               [driver[d] EXCEPT !.ok = first])

(* The state was loaded after three blocks, with the nonce of the capture, *)
(* and the replay succeeded with the captured effects.                     *)
ReplayExact(d) ==
  LET capture == driver[driver[d].captured].result
  IN  /\ Len(driver[d].pre) = 3
      /\ driver[d].nonce = capture.nonce
      /\ driver[d].ok

WriteReport(d) ==
  /\ At(d, "report")
  /\ Reach(d)
  /\ Ends(d, node[K(d)], "passed", Observed(d, ReplayExact(d)))
  /\ UNCHANGED Files

-----------------------------------------------------------------------------
(* The high-bits cases: a canonical control, the malformed call traced and *)
(* then mined between a snapshot and its revert, a legalized control.  A   *)
(* call to an address without code succeeds.                               *)

Setup(d) ==
  /\ At(d, "setup")
  /\ Reach(d)
  /\ IF Live(d, 1) THEN Sends(d, Tx(d, "call", 0), driver[d])
                   ELSE Fails(d) /\ UNCHANGED Files

Note(d, call) ==
  [driver[d] EXCEPT !.reached = IF Live(d, 1) THEN @ \cup {call} ELSE @]

TraceCall(d, call) ==
  /\ At(d, call) /\ K(d) = "highBits"
  /\ Reach(d)
  /\ Expect(d, TRUE, Note(d, call))

Snapshot(d) ==
  /\ At(d, "snapshot")
  /\ Reach(d)
  /\ node' = [node EXCEPT ![K(d)].snapshots =
                Append(@, [by |-> d, length |-> Len(Chain(d))])]
  /\ Goes(d, driver[d])
  /\ UNCHANGED Files

SendMalformed(d) ==
  /\ At(d, "stutter")
  /\ Reach(d)
  /\ Sends(d, Tx(d, IF Live(d, 1) THEN "revert" ELSE "call", 0),
           [Note(d, "stutter") EXCEPT !.nonce = Len(Chain(d)) + 1])

(* Setting the chain back forgets the snapshots taken since.               *)
Mine(d) ==
  {j \in DOMAIN node[K(d)].snapshots : node[K(d)].snapshots[j].by = d}

Reverted(d) ==
  IF Mine(d) = {} THEN node[K(d)]
  ELSE LET j == CHOOSE j \in Mine(d) : TRUE
           old == node[K(d)]
       IN  [old EXCEPT !.txs = SubSeq(@, 1, old.snapshots[j].length),
                       !.snapshots = SubSeq(@, 1, j - 1)]

(* A receipt that another driver's revert took away does not come back;    *)
(* the wait runs out, and the chain is set back before the run fails.      *)
WaitReceipt(d) ==
  LET place == driver[d].nonce
  IN  /\ At(d, "receipt")
      /\ Reach(d)
      /\ IF place <= Len(Chain(d)) /\ Chain(d)[place].by = d
         THEN Goes(d, driver[d]) /\ UNCHANGED node
         ELSE Ends(d, Reverted(d), "failed", None)
      /\ UNCHANGED Files

Revert(d) ==
  /\ At(d, "revert")
  /\ Reach(d)
  /\ IF Mine(d) # {}
     THEN /\ node' = [node EXCEPT ![K(d)] = Reverted(d)]
          /\ Goes(d, driver[d])
     ELSE Fails(d)
  /\ UNCHANGED Files

(* On the native endpoint an identifier is derived first, which needs the  *)
(* contract to be there.                                                   *)
Legalized(d, native) ==
  /\ At(d, "legalized")
  /\ Reach(d)
  /\ Expect(d, native => Live(d, 1), driver[d])

(* The malformed call reverted in the trace and in the block.              *)
FaultyMalformedPass(d) == "malformed" \in driver[d].reached
MalformedPass(d) == {"malformed", "stutter"} \subseteq driver[d].reached

WriteResult(d) ==
  /\ At(d, "result") /\ K(d) = "highBits"
  /\ Reach(d)
  /\ LET pass == MalformedPass(d)
     IN  Ends(d, node[K(d)], IF pass THEN "passed" ELSE "failed",
              [pass |-> pass, reached |-> driver[d].reached])
  /\ UNCHANGED Files

-----------------------------------------------------------------------------
(* Sources, compiler output and manifest are edited and rendered at any    *)
(* time.                                                                   *)
Edit(file) ==
  /\ edits < MaxEdits
  /\ edits' = edits + 1
  /\ compiler' = [compiler EXCEPT ![file] = 3 - @]
  /\ UNCHANGED <<node, driver, hex, fixture>>

(* The repository holds a fixture captured before.                         *)
Init ==
  LET files == [i \in Contracts |-> Resolved(i, 1, [j \in Contracts |-> j])]
  IN  /\ node = [k \in Kinds |-> None]
      /\ \E plan \in Plans :
           driver = [d \in DOMAIN plan |-> Fresh(plan[d])]
      /\ compiler = [sources |-> 1, outputs |-> 1, manifest |-> 1]
      /\ hex = files
      /\ fixture = [own |-> [j \in Contracts |-> j],
                    chain |-> [j \in Contracts |-> Tx(0, "create", j)],
                    root |-> 1, manifest |-> 1, files |-> files]
      /\ edits = 0

Next ==
  \/ \E d \in DOMAIN driver :
       \/ Start(d) \/ CheckPort(d) \/ Bind(d) \/ WaitForAnvil(d)
       \/ LosesNode(d) \/ Killed(d)
       \/ ReadNonce(d) \/ Deploy(d) \/ SaveRuntime(d) \/ CheckResolved(d)
       \/ Topology(d) \/ WriteFixture(d)
       \/ ReadNonceBefore(d) \/ DumpBefore(d) \/ SendAction(d)
       \/ DumpAfter(d) \/ ReadNonceAfter(d)
       \/ SendControl(d) \/ WriteCapture(d)
       \/ Replay(d) \/ WriteReport(d)
       \/ Setup(d) \/ Snapshot(d) \/ SendMalformed(d) \/ WaitReceipt(d)
       \/ Revert(d) \/ WriteResult(d)
       \/ \E call \in {"control", "malformed"} : TraceCall(d, call)
       \/ \E native \in BOOLEAN : Legalized(d, native)
  \/ \E file \in DOMAIN compiler : Edit(file)

Spec == Init /\ [][Next]_vars

-----------------------------------------------------------------------------
(* However captures overlap on a port, what SEP-04 records is a chain on   *)
(* which nobody else sent anything, up to and with its own transaction;    *)
(* and the replay of an ACT-01 capture passes only for a capture of which  *)
(* the same is true.                                                       *)
Alone(r) ==
  /\ \A i \in DOMAIN r.post : r.post[i].by = r.post[1].by
  /\ r.post = Append(r.pre, Last(r.post))

AloneOnChain ==
  \A d \in DOMAIN driver :
    LET r == driver[d].result
    IN  r # None =>
          /\ K(d) = "sep04" => Alone(r)
          /\ K(d) = "footprint" /\ r.pass => Alone(driver[r.captured].result)

(* Whenever the verifier accepts the runtime fixture, the files on disk    *)
(* are the code that stood at their addresses on the chain of one capture, *)
(* each with the addresses of the others in it, and what was deployed is   *)
(* the compiler output of now.  Captures that overlap, fail or are killed  *)
(* between two files leave mixtures, and none is accepted.                 *)
FixtureWhole ==
  VerifierAccepts =>
    \A i \in Contracts :
      LET tx == fixture.chain[fixture.own[i]]
      IN  /\ tx.does = "create" /\ tx.n = i
          /\ tx.by = fixture.chain[fixture.own[1]].by
          /\ tx.version = compiler.outputs
          /\ hex[i] = Resolved(i, tx.version, fixture.own)

(* A high-bits case passes only if the canonical and the malformed call,   *)
(* traced and mined, reached the contract: calls to an address that        *)
(* another run's revert has emptied succeed, and are no evidence.          *)
PassReachedCode ==
  \A d \in DOMAIN driver :
    LET r == driver[d].result
    IN  K(d) = "highBits" /\ r # None =>
          (r.pass => r.reached = {"control", "malformed", "stutter"})

=============================================================================
