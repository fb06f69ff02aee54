------------------------------ MODULE WireFormat ------------------------------
(***************************************************************************)
(* The wire format of the kernel and what holds it in place.               *)
(*                                                                         *)
(* One file, spec/erc-trust-kernel-v2.json, orders the fields of requests  *)
(* and receipts and numbers the kinds.  A generator renders from it the    *)
(* interface the endpoints are compiled from, the SDK authors complete     *)
(* commands with, and the vectors.  Two transcriptions made by hand stand  *)
(* beside it: the tables of the independent reproduction, and the raw      *)
(* words of the tests of the SDK.  The schema is edited, the files are     *)
(* generated, a generation that passes is published, endpoints and authors *)
(* take one each, and commands travel between them.                        *)
(*                                                                         *)
(* A word is a number, however it is typed.  A digest is the sequence of   *)
(* the words it was taken of: two are equal when all the words are.        *)
(***************************************************************************)
EXTENDS Integers, Sequences, FiniteSets, SequencesExt, FiniteSetsExt

CONSTANTS
  Places,       \* where endpoints can be: an address on a chain, as words
  MaxEdits,     \* bound on the edits of the schema
  MaxCommands   \* bound on the commands completed

ASSUME WireAssumption ==
  /\ \A at \in Places : at.address.word \in Nat /\ at.chain.word \in Nat
  /\ MaxEdits \in Nat /\ MaxCommands \in Nat

VARIABLES
  schema,     \* the format the schema states, and the literals beside it
  solidity,   \* the generated interface the endpoints are compiled from
  sdk,        \* the generated SDK
  vectors,    \* the format the generated vectors were computed from
  passed,     \* the generated files the gate has passed
  published,  \* the formats an SDK has been published with
  deployed,   \* endpoint -> the format it was compiled from
  completed,  \* the commands authors have completed
  accepted,   \* the commands endpoints have accepted, as they decoded them
  edits

vars == <<schema, solidity, sdk, vectors, passed, published, deployed, completed, accepted, edits>>

-----------------------------------------------------------------------------
(* Words and digests.                                                      *)

(* s with its values at i and j exchanged.                                 *)
SwapAt(s, i, j) == [s EXCEPT ![i] = s[j], ![j] = s[i]]

(* A word of an encoding.                                                  *)
Word(n) == [word |-> n]
Zero == Word(0)
(* The keccak of some words.                                               *)
Digest(ws) == [digest |-> ws]

(* The case of fixture n.                                                  *)
Case(n) == Digest(<<Word(901), Word(n)>>)

(* The transcribed tables.                                                 *)
ACTION_REQUEST_FIELDS ==
  <<"domain", "actionId", "action", "subject", "source", "destination",
    "custodian", "amount", "caseId", "dependencyRoot", "dependencyEpoch",
    "provenanceCommitment", "settlementCommitment", "proceedsCommitment",
    "entitlementCommitment", "authorityRef", "authorityEpoch", "nonce",
    "validAfter", "validBefore">>

REVERSAL_REQUEST_FIELDS ==
  <<"domain", "reversalId", "actionId", "reversal", "dependencyRoot",
    "dependencyEpoch", "provenanceCommitment", "authorityRef",
    "authorityEpoch", "nonce", "validAfter", "validBefore">>

RECEIPT_PREIMAGE_FIELDS ==
  <<"receiptKind", "commandId", "commandKind", "parentCommandId", "subject",
    "source", "destination", "amount", "caseId", "authorityRef",
    "dependencyRoot", "provenanceCommitment", "assessmentEvidence",
    "preState", "postState", "externalCommitment">>

(* The Solidity type of a field.                                           *)
FieldType(f) ==
  CASE f \in {"action", "reversal", "receiptKind", "commandKind"} -> "uint8"
    [] f \in {"subject", "source", "destination", "custodian"} -> "address"
    [] f \in {"amount", "nonce"} -> "uint256"
    [] f \in {"dependencyEpoch", "authorityEpoch", "policyEpoch"} -> "uint64"
    [] f \in {"validAfter", "validBefore"} -> "uint48"
    [] OTHER -> "bytes32"

Structs == {"ActionRequest", "ReversalRequest", "Receipt"}
Enums == {"ActionKind", "ReversalKind", "ReceiptKind", "BindingKind"}

(* A format: the domain, the order of each struct, the numbers of the kinds *)
Transcribed ==
  [domain          |-> Word(2),
   ActionRequest   |-> ACTION_REQUEST_FIELDS,
   ReversalRequest |-> REVERSAL_REQUEST_FIELDS,
   Receipt         |-> RECEIPT_PREIMAGE_FIELDS,
   ActionKind      |-> [FREEZE |-> 0, SEIZE |-> 1, CONFISCATE |-> 2,
                        LIQUIDATE |-> 3, RESTRICT |-> 4, RECOVER |-> 5],
   ReversalKind    |-> [UNFREEZE |-> 0, RELEASE |-> 1, UNRESTRICT |-> 2],
   ReceiptKind     |-> "NONE" :> 0 @@ "ACTION" :> 1 @@ "REVERSAL" :> 2,
   BindingKind     |-> [POLICY |-> 0, IDENTITY |-> 1, SETTLEMENT |-> 2,
                        ENTITLEMENT |-> 3]]

(* The helpers of version 1, still in the package, with their own domain.  *)
Version1 ==
  [Transcribed EXCEPT
    !.domain = Word(1),
    !.ActionRequest =
       SubSeq(ACTION_REQUEST_FIELDS, 1, 9)
         \o <<"scopeHash", "policyCommitment">>
         \o SubSeq(ACTION_REQUEST_FIELDS, 12, 17)
         \o <<"policyEpoch">> \o SubSeq(ACTION_REQUEST_FIELDS, 18, 20),
    !.ReversalRequest =
       SubSeq(REVERSAL_REQUEST_FIELDS, 1, 4) \o SubSeq(REVERSAL_REQUEST_FIELDS, 8, 12)]

-----------------------------------------------------------------------------
(* Encoding under a format.                                                *)

(* A request in the order of its struct.                                   *)
WordsOf(order, r) == [i \in DOMAIN order |-> r[order[i]]]

(* The types of the tuple make up the signature, hence the selector.       *)
Signature(f, struct) == [i \in DOMAIN f[struct] |-> FieldType(f[struct][i])]

(* The selectors of the functions over the two requests.                   *)
interfaceIdOf(f) == {Signature(f, s) : s \in {"ActionRequest", "ReversalRequest"}}

(* Words after the selector.                                               *)
calldataLengths(f) == [s \in {"ActionRequest", "ReversalRequest"} |-> Len(f[s])]

(* Mutant: a command is not bound to the chain.                            *)
FaultyPrefix(f, at) == <<f.domain, at.address>>

Prefix(f, at) == <<f.domain, at.address, at.chain>>

(* commandHash, reversalHash: domain, endpoint, chain, request.            *)
encodeCommand(f, struct, at, r) == Digest(Prefix(f, at) \o WordsOf(f[struct], r))

(* The field that holds the identifier of a command.                       *)
IdField(struct) == IF struct = "ActionRequest" THEN "actionId" ELSE "reversalId"

(* deriveActionId, deriveReversalId                                        *)
deriveId(f, struct, at, r) ==
  encodeCommand(f, struct, at, [r EXCEPT ![IdField(struct)] = Zero])

(* A request with the identifier its author derives.                       *)
Complete(f, struct, at, r) ==
  [r EXCEPT ![IdField(struct)] = deriveId(f, struct, at, r)]

(* encodeAction, encodeReversal                                            *)
encodeCalldata(f, struct, r) ==
  [selector |-> Signature(f, struct), words |-> WordsOf(f[struct], r)]

(* The domain and the fields of the receipt.                               *)
receiptHash(f, receipt) == Digest(<<f.domain>> \o WordsOf(f.Receipt, receipt))

(* What a dependency is bound by.                                          *)
bindingHash(f, kind, dep) ==
  Digest(<<f.domain, Word(f.BindingKind[kind]), dep.dependency,
           dep.runtimeCodeId, dep.configurationDigest, dep.schema, dep.epoch>>)

(* The key a nonce is spent under.                                         *)
nonceKey(f, ref, epoch, nonce) == Digest(<<f.domain, ref, epoch, nonce>>)

(* What a receipt commits to outside the ledger.                           *)
externalCommitmentFor(f, r) ==
  CASE r.action = Word(f.ActionKind.LIQUIDATE) ->
         Digest(<<r.settlementCommitment, r.proceedsCommitment>>)
    [] r.action = Word(f.ActionKind.RECOVER) -> r.entitlementCommitment
    [] OTHER -> Zero

-----------------------------------------------------------------------------
(* The fixture of the vectors.                                             *)

Endpoint == [address |-> Word(1111), chain |-> Word(1)]
Subject == Word(2222)
Custodian == Word(3333)
Buyer == Word(4444)
Recovered == Word(5555)
Forever == Word(281474)

Kinds == <<"POLICY", "IDENTITY", "SETTLEMENT", "ENTITLEMENT">>
(* The dependencies of the fixture, one of each kind.                      *)
Dependency(i) ==
  [dependency |-> Word(10000 + i), runtimeCodeId |-> Word(20000 + i),
   configurationDigest |-> Word(30000 + i), schema |-> Word(40000),
   epoch |-> Word(1)]

bindings(f) == [i \in 1 .. 4 |-> bindingHash(f, Kinds[i], Dependency(i))]
rootOf(f, bs) == Digest(<<f.domain, Word(3)>> \o bs)
dependencyRoot(f) == rootOf(f, bindings(f))

(* What every action of the fixture starts from.                           *)
baseRequest(f, kind, nonce) ==
  [domain |-> f.domain, actionId |-> Zero, action |-> Word(f.ActionKind[kind]),
   subject |-> Subject, source |-> Subject, destination |-> Zero,
   custodian |-> Zero, amount |-> Zero, caseId |-> Case(nonce),
   dependencyRoot |-> dependencyRoot(f), dependencyEpoch |-> Word(1),
   provenanceCommitment |-> Word(6666), settlementCommitment |-> Zero,
   proceedsCommitment |-> Zero, entitlementCommitment |-> Zero,
   authorityRef |-> Word(7777), authorityEpoch |-> Word(1),
   nonce |-> Word(nonce), validAfter |-> Zero, validBefore |-> Forever]

actionKinds ==
  <<"FREEZE", "SEIZE", "CONFISCATE", "LIQUIDATE", "RESTRICT", "RECOVER",
    "CONFISCATE">>

(* The seven actions, before they are completed.                           *)
actionFixtures(f) ==
  LET r(i) == baseRequest(f, actionKinds[i], i) IN
  <<[r(1) EXCEPT !.amount = Word(123)],
    [r(2) EXCEPT !.destination = Custodian, !.custodian = Custodian,
                 !.amount = Word(500)],
    [r(3) EXCEPT !.destination = Buyer, !.amount = Word(700)],
    [r(4) EXCEPT !.destination = Buyer, !.amount = Word(800),
                 !.settlementCommitment = Word(8801),
                 !.proceedsCommitment = Word(8802)],
    r(5),
    [r(6) EXCEPT !.destination = Recovered, !.amount = Word(900),
                 !.entitlementCommitment = Word(8803)],
    [r(7) EXCEPT !.source = Custodian, !.destination = Buyer,
                 !.amount = Word(500), !.caseId = Case(2),
                 !.authorityEpoch = Word(3)]>>

(* What a receipt takes from the profile.                                  *)
Opaque ==
  [assessmentEvidence |-> Word(7711), preState |-> Word(8888),
   postState |-> Word(9999)]

(* The receipt of an action.                                               *)
ActionReceipt(f, r, id) ==
  [receiptKind |-> Word(f.ReceiptKind["ACTION"]), commandId |-> id,
   commandKind |-> r.action, parentCommandId |-> Zero, subject |-> r.subject,
   source |-> r.source,
   destination |-> IF r.action = Word(f.ActionKind.SEIZE)
                   THEN r.custodian ELSE r.destination,
   amount |-> r.amount, caseId |-> r.caseId, authorityRef |-> r.authorityRef,
   dependencyRoot |-> r.dependencyRoot,
   provenanceCommitment |-> r.provenanceCommitment,
   assessmentEvidence |-> Opaque.assessmentEvidence,
   preState |-> Opaque.preState, postState |-> Opaque.postState,
   externalCommitment |-> externalCommitmentFor(f, r)]

(* Request, identifier, hash, calldata and receipt of each action.         *)
actionVectors(f) ==
  [i \in 1 .. 7 |->
     LET r == Complete(f, "ActionRequest", Endpoint, actionFixtures(f)[i])
         receipt == ActionReceipt(f, r, r.actionId)
     IN  [kind |-> actionKinds[i], request |-> r, id |-> r.actionId,
          hash |-> encodeCommand(f, "ActionRequest", Endpoint, r),
          calldata |-> encodeCalldata(f, "ActionRequest", r),
          receiptInput |-> receipt, receiptHash |-> receiptHash(f, receipt)]]

reversalKinds == <<"UNFREEZE", "RELEASE", "UNRESTRICT">>
reversed == <<1, 2, 5>>

(* The receipt of a reversal, from the action it reverses.                 *)
ReversalReceipt(f, r, id, parent) ==
  [receiptKind |-> Word(f.ReceiptKind["REVERSAL"]), commandId |-> id,
   commandKind |-> r.reversal, parentCommandId |-> r.actionId,
   subject |-> parent.subject,
   source |-> IF r.reversal = Word(f.ReversalKind.RELEASE)
              THEN parent.custodian ELSE parent.subject,
   destination |-> parent.subject, amount |-> parent.amount,
   caseId |-> parent.caseId, authorityRef |-> r.authorityRef,
   dependencyRoot |-> r.dependencyRoot,
   provenanceCommitment |-> r.provenanceCommitment,
   assessmentEvidence |-> Opaque.assessmentEvidence,
   preState |-> Opaque.preState, postState |-> Opaque.postState,
   externalCommitment |-> Zero]

(* A reversal, before it is completed.                                     *)
baseReversal(f, kind, nonce, of) ==
  [domain |-> f.domain, reversalId |-> Zero, actionId |-> of,
   reversal |-> Word(f.ReversalKind[kind]),
   dependencyRoot |-> dependencyRoot(f), dependencyEpoch |-> Word(1),
   provenanceCommitment |-> Word(6767), authorityRef |-> Word(7777),
   authorityEpoch |-> Word(1), nonce |-> Word(nonce), validAfter |-> Zero,
   validBefore |-> Forever]

(* The same of each reversal.                                              *)
reversalVectors(f) ==
  LET acts == actionVectors(f) IN
  [i \in 1 .. 3 |->
     LET of == acts[reversed[i]]
         r == Complete(f, "ReversalRequest", Endpoint,
                baseReversal(f, reversalKinds[i], 99 + i, of.id))
         receipt == ReversalReceipt(f, r, r.reversalId, of.request)
     IN  [kind |-> reversalKinds[i], request |-> r, id |-> r.reversalId,
          hash |-> encodeCommand(f, "ReversalRequest", Endpoint, r),
          calldata |-> encodeCalldata(f, "ReversalRequest", r),
          receiptInput |-> receipt, receiptHash |-> receiptHash(f, receipt)]]

(* NEG-FIELD-BINDING: each field but the identifier changed by itself.     *)
Mutations(f) ==
  [x \in Range(ACTION_REQUEST_FIELDS) \ {"actionId"} |->
     CASE x = "action" -> Word(f.ActionKind.RESTRICT)
       [] x \in {"subject", "source", "destination"} -> Buyer
       [] x = "custodian" -> Custodian
       [] x = "amount" -> Word(124)
       [] x \in {"dependencyEpoch", "authorityEpoch", "nonce"} -> Word(2)
       [] x = "validAfter" -> Word(1)
       [] x = "validBefore" -> Word(281473)
       [] OTHER -> Word(50000 + CHOOSE i \in 1 .. 20 : ACTION_REQUEST_FIELDS[i] = x)]

(* The identifier each changed request would have.                         *)
mutatedIds(f, request) ==
  [x \in DOMAIN Mutations(f) |->
     deriveId(f, "ActionRequest", Endpoint,
              [request EXCEPT ![x] = Mutations(f)[x]])]

(* NEG-RECEIPT-KIND: the receipt of a reversal, passed off as an action's.  *)
AsAction(f, receipt) ==
  receiptHash(f, [receipt EXCEPT !.receiptKind = Word(f.ReceiptKind["ACTION"])])

(* conformance-v2.json                                                     *)
Vectors(f) ==
  LET acts == actionVectors(f) IN
  [domain |-> f.domain,
   selectors |-> [s \in {"ActionRequest", "ReversalRequest"} |-> Signature(f, s)],
   interface |-> interfaceIdOf(f), calldataLength |-> calldataLengths(f),
   bindings |-> bindings(f), root |-> dependencyRoot(f),
   nonceKey |-> nonceKey(f, Word(7777), Word(1), Word(1)),
   actions |-> acts, reversals |-> reversalVectors(f),
   asAction |-> AsAction(f, reversalVectors(f)[1].receiptInput),
   mutatedIds |-> mutatedIds(f, acts[1].request),
   mutations |-> Mutations(f)]

-----------------------------------------------------------------------------
(* What reads the vectors.                                                 *)

(* The constants of the vectors under a format.                            *)
ConstantsMatch(f, V) ==
  /\ V.domain = f.domain
  /\ \A s \in DOMAIN V.selectors : V.selectors[s] = Signature(f, s)
  /\ V.interface = interfaceIdOf(f) /\ V.calldataLength = calldataLengths(f)

(* One vector under a format: identifier, completed hash, calldata, receipt *)
Matches(f, struct, v) ==
  /\ v.id = deriveId(f, struct, Endpoint, v.request)
  /\ v.request[IdField(struct)] = v.id
  /\ v.hash = encodeCommand(f, struct, Endpoint, v.request)
  /\ v.calldata = encodeCalldata(f, struct, v.request)
  /\ v.receiptHash = receiptHash(f, v.receiptInput)

(* The negative vectors: what is changed changes the digest.               *)
NegativeMatch(f, V) ==
  /\ \A x \in DOMAIN V.mutatedIds :
       /\ V.mutatedIds[x]
            = deriveId(f, "ActionRequest", Endpoint,
                       [V.actions[1].request EXCEPT ![x] = V.mutations[x]])
       /\ V.mutatedIds[x] # V.actions[1].id
  /\ V.asAction = AsAction(f, V.reversals[1].receiptInput)
  /\ V.asAction # V.reversals[1].receiptHash

(* The independent reproduction: everything again from its own tables.     *)
Reproduces(V) ==
  LET T == Transcribed IN
  /\ ConstantsMatch(T, V)
  /\ V.bindings = bindings(T) /\ V.root = dependencyRoot(T)
  /\ V.nonceKey = nonceKey(T, Word(7777), Word(1), Word(1))
  /\ \A i \in DOMAIN V.actions :
       LET v == V.actions[i] IN
       /\ Matches(T, "ActionRequest", v)
       /\ v.request.domain = T.domain /\ v.request.dependencyRoot = V.root
       /\ v.request.action = Word(T.ActionKind[v.kind])
       /\ v.receiptInput = ActionReceipt(T, v.request, v.id)
  /\ \A i \in DOMAIN V.reversals :
       LET v == V.reversals[i]
           parent == V.actions[reversed[i]]
       IN
       /\ Matches(T, "ReversalRequest", v)
       /\ v.request.actionId = parent.id
       /\ v.request.reversal = Word(T.ReversalKind[v.kind])
       /\ v.receiptInput = ReversalReceipt(T, v.request, v.id, parent.request)
  /\ NegativeMatch(T, V)

(* The synthetic requests of the tests of the SDK.                         *)
SyntheticAction(f) ==
  [domain |-> f.domain, actionId |-> Zero, action |-> Word(f.ActionKind.RECOVER),
   subject |-> Word(2577), source |-> Word(2578), destination |-> Word(2579),
   custodian |-> Word(2580), amount |-> Word(21), caseId |-> Word(3131),
   dependencyRoot |-> Word(3232), dependencyEpoch |-> Word(41),
   provenanceCommitment |-> Word(3333), settlementCommitment |-> Word(3434),
   proceedsCommitment |-> Word(3535), entitlementCommitment |-> Word(3636),
   authorityRef |-> Word(3737), authorityEpoch |-> Word(42),
   nonce |-> Word(43), validAfter |-> Word(44), validBefore |-> Word(45)]

(* Mutant: both epochs of the reversal are one number.                     *)
FaultySyntheticReversal(f, of) ==
  [domain |-> f.domain, reversalId |-> Zero, actionId |-> of,
   reversal |-> Word(f.ReversalKind.UNRESTRICT), dependencyRoot |-> Word(5151),
   dependencyEpoch |-> Word(61), provenanceCommitment |-> Word(5252),
   authorityRef |-> Word(5353), authorityEpoch |-> Word(61),
   nonce |-> Word(63), validAfter |-> Word(64), validBefore |-> Word(65)]

SyntheticReversal(f, of) ==
  [domain |-> f.domain, reversalId |-> Zero, actionId |-> of,
   reversal |-> Word(f.ReversalKind.UNRESTRICT), dependencyRoot |-> Word(5151),
   dependencyEpoch |-> Word(61), provenanceCommitment |-> Word(5252),
   authorityRef |-> Word(5353), authorityEpoch |-> Word(62),
   nonce |-> Word(63), validAfter |-> Word(64), validBefore |-> Word(65)]

(* ... and their receipt, whose kind of command is the number 2.           *)
SyntheticReceipt(f, id, parent) ==
  [receiptKind |-> Word(f.ReceiptKind["REVERSAL"]), commandId |-> id,
   commandKind |-> Word(2), parentCommandId |-> parent,
   subject |-> Word(2833), source |-> Word(2834), destination |-> Word(2835),
   amount |-> Word(71), caseId |-> Word(7171), authorityRef |-> Word(7272),
   dependencyRoot |-> Word(7373), provenanceCommitment |-> Word(7474),
   assessmentEvidence |-> Word(7575), preState |-> Word(7676),
   postState |-> Word(7779), externalCommitment |-> Word(7878)]

(* Raw words: the tables written out by hand, with the constants of the SDK *)
Raw(f) ==
  [f EXCEPT !.ActionRequest = ACTION_REQUEST_FIELDS,
            !.ReversalRequest = REVERSAL_REQUEST_FIELDS,
            !.Receipt = RECEIPT_PREIMAGE_FIELDS]

(* "helpers agree with raw words on synthetic requests"                    *)
SyntheticAgrees(f) ==
  LET a == Complete(Raw(f), "ActionRequest", Endpoint, SyntheticAction(f))
      r == Complete(Raw(f), "ReversalRequest", Endpoint, SyntheticReversal(f, a.actionId))
      receipt == SyntheticReceipt(f, r.reversalId, a.actionId)
  IN
  /\ deriveId(f, "ActionRequest", Endpoint, a) = a.actionId
  /\ encodeCommand(f, "ActionRequest", Endpoint, a)
       = encodeCommand(Raw(f), "ActionRequest", Endpoint, a)
  /\ deriveId(f, "ReversalRequest", Endpoint, r) = r.reversalId
  /\ encodeCommand(f, "ReversalRequest", Endpoint, r)
       = encodeCommand(Raw(f), "ReversalRequest", Endpoint, r)
  /\ receiptHash(f, receipt) = receiptHash(Raw(f), receipt)

(* Bindings, root and nonce key again, with the kinds as plain numbers,    *)
(* and a root of swapped bindings told apart.                              *)
BindingsAgree(f, V) ==
  LET g == [f EXCEPT !.BindingKind = Transcribed.BindingKind] IN
  /\ V.bindings = bindings(g)
  /\ V.root = rootOf(f, V.bindings)
  /\ V.root # rootOf(f, SwapAt(V.bindings, 1, 2))
  /\ V.nonceKey = nonceKey(f, Word(7777), Word(1), Word(1))

(* Three actions and a reversal again in raw words, whose values are       *)
(* unlike where two words could be swapped.                                *)
RawCommandsAgree(f, V) ==
  LET raw == Raw(f)
      liquidate == V.actions[4].request
      custody == V.actions[7].request
  IN
  /\ \A i \in {1, 4, 7} :
       V.actions[i].id = deriveId(raw, "ActionRequest", Endpoint, V.actions[i].request)
  /\ \A i \in {4, 7} :
       V.actions[i].hash = encodeCommand(raw, "ActionRequest", Endpoint, V.actions[i].request)
  /\ liquidate.settlementCommitment # liquidate.proceedsCommitment
  /\ liquidate.destination # liquidate.subject
  /\ custody.subject # custody.source
  /\ custody.authorityEpoch # custody.dependencyEpoch
  /\ V.reversals[2].id
       = deriveId(raw, "ReversalRequest", Endpoint, V.reversals[2].request)
  /\ V.reversals[2].hash
       = encodeCommand(raw, "ReversalRequest", Endpoint, V.reversals[2].request)

(* The receipts of a liquidation and of a release again in raw words.      *)
RawReceiptsAgree(f, V) ==
  LET liquidate == V.actions[4].receiptInput
      release == V.reversals[2].receiptInput
  IN
  /\ liquidate.externalCommitment # Zero
  /\ liquidate.preState # liquidate.postState
  /\ V.actions[4].receiptHash = receiptHash(Raw(f), liquidate)
  /\ release.receiptKind = Word(f.ReceiptKind["REVERSAL"])
  /\ release.parentCommandId # Zero
  /\ release.source # release.destination
  /\ V.reversals[2].receiptHash = receiptHash(Raw(f), release)

(* One binding, the root and the nonce key again in raw words.             *)
RawBindingsAgree(f, V) ==
  LET settlement == Dependency(3) IN
  /\ V.bindings[3]
       = Digest(<<f.domain, Word(2), settlement.dependency,
                  settlement.runtimeCodeId, settlement.configurationDigest,
                  settlement.schema, settlement.epoch>>)
  /\ V.root = Digest(<<f.domain, Word(3)>> \o V.bindings)
  /\ V.nonceKey = Digest(<<f.domain, Word(7777), Word(1), Word(1)>>)

(* The tests of the SDK, over its generated file and the vectors.          *)
SdkTests(f, V) ==
  /\ ConstantsMatch(f, V)
  /\ \A i \in DOMAIN V.actions :
       Matches(f, "ActionRequest", V.actions[i])
         /\ V.actions[i].hash # V.actions[i].id
  /\ \A i \in DOMAIN V.reversals : Matches(f, "ReversalRequest", V.reversals[i])
  /\ BindingsAgree(f, V) /\ RawCommandsAgree(f, V) /\ RawReceiptsAgree(f, V)
  /\ RawBindingsAgree(f, V) /\ SyntheticAgrees(f)
  /\ NegativeMatch(f, V) /\ IsInjective(V.mutatedIds)
  /\ V.reversals[1].receiptInput.commandKind = Word(f.ReversalKind.UNFREEZE)
  /\ f.ActionKind.FREEZE = f.ReversalKind.UNFREEZE

-----------------------------------------------------------------------------
(* The schema, the generated files and their release.                      *)

(* Literals of the schema the generator compares: the interface identifier *)
(* (the types of the tuples) and the preimage list of the receipt.         *)
Literals(f) ==
  [interface |-> interfaceIdOf(f), preimage |-> f.Receipt]

(* What the generator refuses to render: a kind that has a number twice,   *)
(* or numbers that are not those from zero on, and stale literals.         *)
Contiguous(numbers) ==
  {numbers[k] : k \in DOMAIN numbers} = 0 .. (Cardinality(DOMAIN numbers) - 1)

Renderable ==
  /\ \A e \in Enums : Contiguous(schema.format[e])
  /\ schema.literals = Literals(schema.format)

(* Solidity has no numbers: the members of a kind, in their order.         *)
renderEnum(numbers) ==
  SetToSortSeq(DOMAIN numbers, LAMBDA k, l : numbers[k] < numbers[l])

(* IERCTrustKernel.sol                                                     *)
renderSolidity(f) ==
  [x \in DOMAIN f |-> IF x \in Enums THEN renderEnum(f[x]) ELSE f[x]]

(* TypeScript has the number beside each member.                           *)
renderTsEnum(numbers) ==
  LET members == renderEnum(numbers) IN
  [i \in DOMAIN members |-> [member |-> members[i], value |-> numbers[members[i]]]]

(* kernel-v2.ts                                                            *)
renderTypescript(f) ==
  [x \in DOMAIN f |-> IF x \in Enums THEN renderTsEnum(f[x]) ELSE f[x]]

(* The format of its helpers.                                              *)
Helpers(file) ==
  [x \in DOMAIN file |->
     IF x \in Enums
     THEN [k \in {e.member : e \in Range(file[x])} |->
             (CHOOSE e \in Range(file[x]) : e.member = k).value]
     ELSE file[x]]

(* The compiler numbers the members of a kind from zero.                   *)
Compiled(file) ==
  [x \in DOMAIN file |->
     IF x \in Enums
     THEN [k \in Range(file[x]) |-> (CHOOSE i \in DOMAIN file[x] : file[x][i] = k) - 1]
     ELSE file[x]]

Init ==
  /\ schema = [format |-> Transcribed, literals |-> Literals(Transcribed)]
  /\ solidity = renderSolidity(Transcribed)
  /\ sdk = renderTypescript(Transcribed) /\ vectors = Transcribed
  /\ passed = {} /\ published = {Version1}
  /\ deployed = [at \in {} |-> Transcribed]
  /\ completed = {} /\ accepted = {} /\ edits = 0

(* Two fields of a struct, or two members of a kind, change places.        *)
Edit(part, i, j) ==
  /\ edits < MaxEdits
  /\ edits' = edits + 1
  /\ schema' = [schema EXCEPT !.format[part] = SwapAt(@, i, j)]
  /\ UNCHANGED <<solidity, sdk, vectors, passed, published, deployed, completed, accepted>>

(* A member of a kind gets another number, one that is taken or the first  *)
(* that is free.                                                           *)
Renumber(e, k, n) ==
  /\ edits < MaxEdits
  /\ edits' = edits + 1
  /\ schema' = [schema EXCEPT !.format[e][k] = n]
  /\ UNCHANGED <<solidity, sdk, vectors, passed, published, deployed, completed, accepted>>

(* The literals are brought up to the edited format.                       *)
Restate ==
  /\ schema' = [schema EXCEPT !.literals = Literals(schema.format)]
  /\ UNCHANGED <<solidity, sdk, vectors, passed, published, deployed, completed, accepted, edits>>

(* generate-normative-kernel.mjs writes the interface, the SDK and the     *)
(* vectors, in this order, or is cut off after the first or the second.    *)
Generate ==
  /\ Renderable
  /\ solidity' = renderSolidity(schema.format)
  /\ sdk' \in {sdk, renderTypescript(schema.format)}
  /\ vectors' \in {vectors, schema.format}
  /\ vectors' = schema.format => sdk' = renderTypescript(schema.format)
  /\ UNCHANGED <<schema, passed, published, deployed, completed, accepted, edits>>

(* generate-normative-kernel.mjs --check                                   *)
Checked ==
  /\ Renderable
  /\ solidity = renderSolidity(schema.format)
  /\ sdk = renderTypescript(schema.format) /\ vectors = schema.format

(* The job of continuous integration passes the files on disk: the check   *)
(* of the generation, the tests of the SDK and the reproduction.           *)
Pass ==
  LET files == [solidity |-> solidity, sdk |-> sdk] IN
  /\ files \notin passed
  /\ Checked
  /\ \E V \in {Vectors(vectors)} : SdkTests(Helpers(sdk), V) /\ Reproduces(V)
  /\ passed' = passed \cup {files}
  /\ UNCHANGED <<schema, solidity, sdk, vectors, published, deployed, completed, accepted, edits>>

(* The SDK of a generation that has passed is published.                   *)
Publish ==
  \E g \in passed :
    /\ published' = published \cup {Helpers(g.sdk)}
    /\ UNCHANGED <<schema, solidity, sdk, vectors, passed, deployed, completed, accepted, edits>>

(* An endpoint is compiled from the interface of one that has.             *)
Deploy(at) ==
  /\ at \notin DOMAIN deployed
  /\ \E g \in passed : deployed' = at :> Compiled(g.solidity) @@ deployed
  /\ UNCHANGED <<schema, solidity, sdk, vectors, passed, published, completed, accepted, edits>>

-----------------------------------------------------------------------------
(* Commands.                                                               *)

(* What an author asks for through helpers of format f.                    *)
Commands(f) ==
  IF f.domain = Version1.domain
  THEN {[struct |-> "ActionRequest", kind |-> "FREEZE",
         request |-> [x \in Range(f.ActionRequest) |->
                        IF x \in DOMAIN baseRequest(f, "FREEZE", 1)
                        THEN actionFixtures(f)[1][x] ELSE Word(4455)]]}
  ELSE {[struct |-> "ActionRequest", kind |-> actionKinds[7],
         request |-> actionFixtures(f)[7]],
        [struct |-> "ReversalRequest", kind |-> "UNFREEZE",
         request |-> [baseReversal(f, "UNFREEZE", 100, Word(31))
                        EXCEPT !.authorityEpoch = Word(3)]]}

(* An author completes a command for one endpoint on one chain.            *)
Author(f, at, c) ==
  /\ Cardinality(completed) < MaxCommands
  /\ completed' = completed \cup
       {[via |-> f, at |-> at, struct |-> c.struct, kind |-> c.kind,
         request |-> Complete(f, c.struct, at, c.request)]}
  /\ UNCHANGED <<schema, solidity, sdk, vectors, passed, published, deployed, accepted, edits>>

(* The words of a call, read by the struct of the endpoint.                *)
Decoded(f, struct, words) ==
  [x \in Range(f[struct]) |->
     words[CHOOSE i \in DOMAIN f[struct] : f[struct][i] = x]]

(* The kind an endpoint of format f reads in a request.                    *)
KindOf(f, struct, r) ==
  IF struct = "ActionRequest"
  THEN CHOOSE k \in DOMAIN f.ActionKind : Word(f.ActionKind[k]) = r.action
  ELSE CHOOSE k \in DOMAIN f.ReversalKind : Word(f.ReversalKind[k]) = r.reversal

(* A call reaches an endpoint, not always the one it was meant for, with   *)
(* one word changed on the way or none.  The endpoint dispatches on the    *)
(* selector, and refuses another domain, an identifier that is not the     *)
(* request's own, and a command it has taken before.                       *)
Submit(c, at, i, w) ==
  LET f == deployed[at]
      call == encodeCalldata(c.via, c.struct, c.request)
      r == Decoded(f, c.struct, [call.words EXCEPT ![i] = w])
      id == r[IdField(c.struct)]
  IN
  /\ call.selector = Signature(f, c.struct)
  /\ r.domain = f.domain
  /\ id # Zero /\ id = deriveId(f, c.struct, at, r)
  /\ \A a \in accepted : a.at = at => a.request[IdField(a.struct)] # id
  /\ accepted' = accepted \cup
       {[at |-> at, struct |-> c.struct, kind |-> KindOf(f, c.struct, r),
         request |-> r]}
  /\ UNCHANGED <<schema, solidity, sdk, vectors, passed, published, deployed, completed, edits>>

Next ==
  \/ \E s \in Structs : \E i, j \in DOMAIN schema.format[s] :
       i < j /\ Edit(s, i, j)
  \/ \E e \in Enums : \E k, l \in DOMAIN schema.format[e] :
       schema.format[e][k] < schema.format[e][l] /\ Edit(e, k, l)
  \/ \E e \in Enums : \E k \in DOMAIN schema.format[e] :
       \E n \in 0 .. Cardinality(DOMAIN schema.format[e]) :
         n # schema.format[e][k] /\ Renumber(e, k, n)
  \/ Restate \/ Generate \/ Pass \/ Publish
  \/ \E at \in Places : Deploy(at)
  \/ \E f \in published, at \in Places : \E c \in Commands(f) : Author(f, at, c)
  \/ \E c \in completed, at \in DOMAIN deployed :
       \E i \in DOMAIN c.via[c.struct] :
         \E w \in {c.request[c.via[c.struct][i]], Buyer} : Submit(c, at, i, w)

Spec == Init /\ [][Next]_vars

-----------------------------------------------------------------------------
(* Properties.                                                             *)

(* Two generations that were ever published or deployed under one domain   *)
(* are one format: reproduction and tests of the SDK let no other through. *)
OneFormat ==
  \A f, g \in published \cup {deployed[at] : at \in DOMAIN deployed} :
    f.domain = g.domain => f = g

(* Whatever an endpoint accepts was completed for that endpoint on that    *)
(* chain, and the endpoint reads in it, name by name, what the author      *)
(* wrote, whichever generations of the files the two of them use.          *)
MeaningKept ==
  \A a \in accepted : \E c \in completed :
    /\ c.at = a.at /\ c.struct = a.struct
    /\ c.kind = a.kind /\ c.request = a.request

=============================================================================
