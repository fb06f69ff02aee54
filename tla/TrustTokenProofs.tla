-------------------------- MODULE TrustTokenProofs --------------------------
(***************************************************************************)
(* Type correctness of the native endpoint, custody solvency, protection   *)
(* of encumbered tokens and finality of closed cases; its heads, freeze    *)
(* chains and open cases: the records of a subject, of its effects and of  *)
(* the case agree in every reachable state.  For every set of accounts,    *)
(* cases, identifiers and requests, whatever commands were interleaved.    *)
(***************************************************************************)
EXTENDS TrustToken, TLAPS

USE ZeroAssumption, DeploymentAssumption, InputAssumption
-----------------------------------------------------------------------------
(* Type correctness *)

\* _move keeps balances natural when the sender holds the amount.
LEMMA MoveType ==
  ASSUME balances \in [Accounts -> Nat], NEW from, NEW to, NEW amount \in Nat,
         amount <= balances[from]
  PROVE  Move(from, to, amount) \in [Accounts -> Nat]
<1> DEFINE debited == [balances EXCEPT ![from] = @ - amount]
<1>1. from \in Accounts => balances[from] - amount \in Nat
  OBVIOUS
<1>2. debited \in [Accounts -> Nat]
  BY <1>1
<1>3. [debited EXCEPT ![to] = @ + amount] \in [Accounts -> Nat]
  <2> HIDE DEF debited
  <2>1. to \in Accounts => debited[to] + amount \in Nat
    BY <1>2
  <2> QED
    BY <1>2, <2>1
<1> QED
  BY <1>3 DEF Move

\* The constructor leaves every variable in its type.
LEMMA InitTypeOK == Init => TypeOK
<1> SUFFICES ASSUME Init PROVE TypeOK
  OBVIOUS
<1>1. LedgerTypeOK
  BY DEF Init, LedgerTypeOK
<1>2. OverlayTypeOK
  BY DEF Init, OverlayTypeOK, NoHead, NoEffect, Head, Effect
<1>3. CaseTypeOK
  BY DEF Init, CaseTypeOK, NoCase, NoCustody, Case, Custody, Address
<1>4. CommandTypeOK
  BY DEF Init, CommandTypeOK
<1>5. EnvironmentTypeOK
  BY DEF Init, EnvironmentTypeOK
<1>6. GovernanceTypeOK
  <2>1. bindings \in Root
    BY DEF Init, BindingOf, Root, Binding, Version, Bindable
  <2>2. authorities \in [AuthorityRefs -> Authority]
    BY DEF Init, Authority, Address
  <2>3. dependencyRoot \in Root /\ dependencyEpoch \in Nat
    BY <2>1 DEF Init, RootOf
  <2>4. rootLog \subseteq [root: Root, epoch: Nat]
    BY <2>3 DEF Init
  <2> QED
    BY <2>1, <2>2, <2>3, <2>4 DEF GovernanceTypeOK
<1> QED
  BY <1>1, <1>2, <1>3, <1>4, <1>5, <1>6 DEF TypeOK

\* What an accepted request may be assumed to hold.
LEMMA ShapeFacts ==
  ASSUME NEW req \in ActionRequest, ActionShape(req)
  PROVE  /\ req.subject \in Accounts /\ req.source \in Accounts
         /\ req.caseId \in CaseIds
         /\ req.action # "FREEZE" /\ req.action # "RESTRICT" =>
              /\ req.destination \in Accounts
              /\ req.source # req.destination
         /\ req.action = "SEIZE" => req.custodian = req.destination
         /\ req.action = "RECOVER" => req.entitlement \in Entitlements
<1>1. req.subject \in Accounts /\ req.caseId \in CaseIds
  BY DEF ActionShape, ActionRequest, Address
<1>2. req.source \in Address /\ req.destination \in Address
  BY DEF ActionRequest
<1>3. req.source \in Accounts
  BY <1>1, <1>2 DEF ActionShape, FreezeShape, RestrictShape, SeizeShape,
                    DispositionShape, ForcedTransferShape, Address
<1>4. req.action # "FREEZE" /\ req.action # "RESTRICT" =>
        req.destination \in Accounts /\ req.source # req.destination
  BY <1>2 DEF ActionShape, SeizeShape, DispositionShape, ForcedTransferShape, Address
<1>5. req.action = "SEIZE" => req.custodian = req.destination
  BY DEF ActionShape, SeizeShape, Disposition
<1>6. req.action = "RECOVER" => req.entitlement \in Entitlements
  BY DEF ActionShape, CommitmentShape, ActionRequest
<1> QED
  BY <1>1, <1>3, <1>4, <1>5, <1>6

\* The case table writes case records.
LEMMA CaseSteps ==
  ASSUME NEW case \in Case, NEW id \in ActionIds \cup {Zero},
         NEW family \in {"FREEZE", "RESTRICT", "DISPOSITION"}
  PROVE  /\ OpenOverlay(case, family, id) \in Case
         /\ CloseCase(case) \in Case
         /\ CloseCase([case EXCEPT !.family = family]) \in Case
         /\ FallBack(case, id) \in Case
<1>1. case.generation + 1 \in Nat
  BY DEF Case
<1>2. OpenOverlay(case, family, id) \in Case
  BY <1>1 DEF Case, OpenOverlay
<1>3. ASSUME NEW x \in Case PROVE CloseCase(x) \in Case
  <2>1. x.generation + 1 \in Nat
    BY DEF Case
  <2> QED
    BY <2>1 DEF Case, CloseCase
<1>4. [case EXCEPT !.family = family] \in Case
  BY DEF Case
<1>5. FallBack(case, id) \in Case
  BY <1>1 DEF Case, FallBack
<1> QED
  BY <1>2, <1>3, <1>4, <1>5

\* A freeze keeps the ledger, the overlays and the cases in their types; the
\* lemmas that follow say the same of the other effects.
LEMMA FreezeType ==
  ASSUME TypeOK, NEW id \in ActionIds, NEW req \in ActionRequest,
         ActionShape(req), ApplyFreeze(id, req), UNCHANGED allowances
  PROVE  LedgerTypeOK' /\ OverlayTypeOK' /\ CaseTypeOK'
<1>1. req.subject \in Accounts /\ req.caseId \in CaseIds /\ req.amount \in Nat
  BY ShapeFacts DEF ActionRequest
<1>2. LedgerTypeOK'
  BY DEF TypeOK, LedgerTypeOK, ApplyFreeze, ledgerVars
<1>3. OverlayTypeOK'
  <2>1. EffectOn(freezeHeads[req.subject]) \in Effect
    BY <1>1 DEF TypeOK, OverlayTypeOK, EffectOn, Head, Effect
  <2>2. PushedHead(freezeHeads[req.subject], id) \in Head
    BY <1>1 DEF TypeOK, OverlayTypeOK, PushedHead, Head
  <2> QED
    BY <1>1, <2>1, <2>2 DEF TypeOK, OverlayTypeOK, ApplyFreeze
<1>4. CaseTypeOK'
  <2>1. OpenOverlay(cases[req.caseId], "FREEZE", id) \in Case
    BY <1>1, CaseSteps DEF TypeOK, CaseTypeOK
  <2> QED
    BY <2>1 DEF TypeOK, CaseTypeOK, ApplyFreeze
<1> QED
  BY <1>2, <1>3, <1>4

\* The restriction of a subject.
LEMMA RestrictType ==
  ASSUME TypeOK, NEW id \in ActionIds, NEW req \in ActionRequest,
         ActionShape(req), ApplyRestrict(id, req), UNCHANGED allowances
  PROVE  LedgerTypeOK' /\ OverlayTypeOK' /\ CaseTypeOK'
<1>1. req.subject \in Accounts /\ req.caseId \in CaseIds
  BY ShapeFacts
<1>2. LedgerTypeOK'
  BY DEF TypeOK, LedgerTypeOK, ApplyRestrict, ledgerVars
<1>3. OverlayTypeOK'
  <2>1. EffectOn(restrictionHeads[req.subject]) \in Effect
    BY <1>1 DEF TypeOK, OverlayTypeOK, EffectOn, Head, Effect
  <2>2. PushedHead(restrictionHeads[req.subject], id) \in Head
    BY <1>1 DEF TypeOK, OverlayTypeOK, PushedHead, Head
  <2> QED
    BY <1>1, <2>1, <2>2 DEF TypeOK, OverlayTypeOK, ApplyRestrict
<1>4. CaseTypeOK'
  <2>1. OpenOverlay(cases[req.caseId], "RESTRICT", id) \in Case
    BY <1>1, CaseSteps DEF TypeOK, CaseTypeOK
  <2> QED
    BY <2>1 DEF TypeOK, CaseTypeOK, ApplyRestrict
<1> QED
  BY <1>2, <1>3, <1>4

\* The seizure into custody.
LEMMA SeizeType ==
  ASSUME TypeOK, NEW id \in ActionIds, NEW req \in ActionRequest,
         ActionShape(req), ApplySeize(id, req), UNCHANGED allowances
  PROVE  LedgerTypeOK' /\ OverlayTypeOK' /\ CaseTypeOK'
<1>1. /\ req.source \in Accounts /\ req.custodian \in Accounts
      /\ req.caseId \in CaseIds /\ req.amount \in Nat
  BY ShapeFacts DEF ActionRequest, ApplySeize
<1>2. LedgerTypeOK'
  <2>1. balances' \in [Accounts -> Nat]
    BY <1>1, MoveType DEF TypeOK, LedgerTypeOK, ApplySeize
  <2> QED
    BY <1>1, <2>1 DEF TypeOK, LedgerTypeOK, ApplySeize
<1>3. OverlayTypeOK'
  BY DEF TypeOK, OverlayTypeOK, ApplySeize, overlayVars
<1>4. CaseTypeOK'
  <2>1. cases[req.caseId].generation + 1 \in Nat
    BY <1>1 DEF TypeOK, CaseTypeOK, Case
  <2>2. cases' \in [CaseIds -> Case]
    BY <1>1, <2>1 DEF TypeOK, CaseTypeOK, ApplySeize, Case
  <2>3. custody' \in [CaseIds -> Custody]
    BY <1>1 DEF TypeOK, CaseTypeOK, ApplySeize, Custody, Address
  <2> QED
    BY <2>2, <2>3 DEF TypeOK, CaseTypeOK, ApplySeize
<1> QED
  BY <1>2, <1>3, <1>4

\* A closed custody record is a custody record.
LEMMA ClosedType == ASSUME NEW held \in Custody PROVE Closed(held) \in Custody
BY DEF Custody, Closed

\* The three dispositions, by either path.
LEMMA DispositionType ==
  ASSUME TypeOK, NEW id \in ActionIds, NEW req \in ActionRequest,
         ActionShape(req), ApplyDisposition(id, req), UNCHANGED allowances
  PROVE  LedgerTypeOK' /\ OverlayTypeOK' /\ CaseTypeOK'
<1> DEFINE held == custody[req.caseId]
<1>1. /\ req.source \in Accounts /\ req.destination \in Accounts
      /\ req.caseId \in CaseIds /\ req.amount \in Nat
      /\ req.action = "RECOVER" => req.entitlement \in Entitlements
  BY ShapeFacts DEF ActionRequest, ApplyDisposition, Disposition
<1>2. held \in Custody /\ cases[req.caseId] \in Case
  BY <1>1 DEF TypeOK, CaseTypeOK
<1>3. balances' \in [Accounts -> Nat]
  BY <1>1, MoveType DEF TypeOK, LedgerTypeOK, ApplyDisposition
<1>4. consumedEntitlements' \subseteq Entitlements
  BY <1>1 DEF TypeOK, CaseTypeOK, ApplyDisposition
<1>5. OverlayTypeOK'
  BY DEF TypeOK, OverlayTypeOK, ApplyDisposition, overlayVars
<1>6. CASE held.active
  <2>1. /\ CustodyMatches(req)
        /\ custodyBacking' =
             [custodyBacking EXCEPT ![held.custodian] = @ - held.encumberedAmount]
        /\ custody' = [custody EXCEPT ![req.caseId] = Closed(@)]
        /\ cases' = [cases EXCEPT ![req.caseId] = CloseCase(@)]
    BY <1>6 DEF ApplyDisposition
  <2>2. /\ held.custodian \in Accounts /\ held.encumberedAmount \in Nat
        /\ held.encumberedAmount <= custodyBacking[held.custodian]
    BY <2>1, <1>1, <1>2 DEF CustodyMatches, Custody
  <2>3. custodyBacking' \in [Accounts -> Nat]
    <3>1. custodyBacking[held.custodian] - held.encumberedAmount \in Nat
      BY <2>2 DEF TypeOK, LedgerTypeOK
    <3> QED
      BY <3>1, <2>1 DEF TypeOK, LedgerTypeOK
  <2>4. custody' \in [CaseIds -> Custody]
    BY <2>1, <1>2, ClosedType DEF TypeOK, CaseTypeOK
  <2>5. cases' \in [CaseIds -> Case]
    BY <2>1, <1>2, CaseSteps DEF TypeOK, CaseTypeOK
  <2>6. allowances' \in [Accounts -> [Accounts -> 0 .. MaxUint]]
    BY DEF TypeOK, LedgerTypeOK
  <2> QED
    BY <1>3, <1>4, <1>5, <2>3, <2>4, <2>5, <2>6 DEF LedgerTypeOK, CaseTypeOK
<1>7. CASE ~ held.active
  <2>1. /\ cases' = [cases EXCEPT ![req.caseId] =
                       CloseCase([@ EXCEPT !.family = "DISPOSITION"])]
        /\ custodyBacking' = custodyBacking /\ custody' = custody
    BY <1>7 DEF ApplyDisposition
  <2>2. cases' \in [CaseIds -> Case]
    BY <2>1, <1>2, CaseSteps DEF TypeOK, CaseTypeOK
  <2> QED
    BY <1>3, <1>4, <1>5, <2>1, <2>2 DEF TypeOK, LedgerTypeOK, CaseTypeOK
<1> QED
  BY <1>6, <1>7

\* The reversal of a freeze.
LEMMA UnfreezeType ==
  ASSUME TypeOK, NEW aid \in ActionIds, actions[aid] \in Action,
         ApplyUnfreeze(aid), UNCHANGED <<allowances, effects, consumedEntitlements>>
  PROVE  LedgerTypeOK' /\ OverlayTypeOK' /\ CaseTypeOK'
<1>1. /\ actions[aid].subject \in Accounts /\ actions[aid].caseId \in CaseIds
      /\ actions[aid].priorAmount \in Nat
  BY DEF Action
<1>2. effects[aid] \in Effect
  BY DEF TypeOK, OverlayTypeOK
<1>3. PoppedHead(freezeHeads[actions[aid].subject], effects[aid]) \in Head
  BY <1>1, <1>2 DEF TypeOK, OverlayTypeOK, PoppedHead, Head, Effect
<1>4. /\ FallBack(cases[actions[aid].caseId], effects[aid].parentActionId) \in Case
      /\ CloseCase(cases[actions[aid].caseId]) \in Case
  BY <1>1, <1>2, CaseSteps DEF TypeOK, CaseTypeOK, Effect
<1>5. LedgerTypeOK'
  BY DEF TypeOK, LedgerTypeOK, ApplyUnfreeze, ledgerVars
<1>6. OverlayTypeOK'
  BY <1>1, <1>3 DEF TypeOK, OverlayTypeOK, ApplyUnfreeze
<1>7. CaseTypeOK'
  BY <1>4 DEF TypeOK, CaseTypeOK, ApplyUnfreeze
<1> QED
  BY <1>5, <1>6, <1>7

\* The reversal of a restriction.
LEMMA UnrestrictType ==
  ASSUME TypeOK, NEW aid \in ActionIds, actions[aid] \in Action,
         ApplyUnrestrict(aid), UNCHANGED <<allowances, effects, consumedEntitlements>>
  PROVE  LedgerTypeOK' /\ OverlayTypeOK' /\ CaseTypeOK'
<1>1. /\ actions[aid].subject \in Accounts /\ actions[aid].caseId \in CaseIds
      /\ actions[aid].priorFlag \in BOOLEAN
  BY DEF Action
<1>2. PoppedHead(restrictionHeads[actions[aid].subject], effects[aid]) \in Head
  BY <1>1 DEF TypeOK, OverlayTypeOK, PoppedHead, Head, Effect
<1>3. CloseCase(cases[actions[aid].caseId]) \in Case
  BY <1>1, CaseSteps DEF TypeOK, CaseTypeOK
<1>4. LedgerTypeOK'
  BY DEF TypeOK, LedgerTypeOK, ApplyUnrestrict, ledgerVars
<1>5. OverlayTypeOK'
  BY <1>1, <1>2 DEF TypeOK, OverlayTypeOK, ApplyUnrestrict
<1>6. CaseTypeOK'
  BY <1>3 DEF TypeOK, CaseTypeOK, ApplyUnrestrict
<1> QED
  BY <1>4, <1>5, <1>6

\* The release of a custody.
LEMMA ReleaseType ==
  ASSUME TypeOK, NEW aid \in ActionIds, actions[aid] \in Action,
         actions[aid].action = "SEIZE", CurrentEffect(aid), ApplyRelease(aid),
         UNCHANGED <<allowances, effects, consumedEntitlements>>
  PROVE  LedgerTypeOK' /\ OverlayTypeOK' /\ CaseTypeOK'
<1> DEFINE held == custody[actions[aid].caseId]
<1>1. actions[aid].caseId \in CaseIds /\ actions[aid].amount \in Nat
  BY DEF Action
<1>2. held \in Custody /\ Closed(held) \in Custody
  BY <1>1, ClosedType DEF TypeOK, CaseTypeOK
<1>3. actions[aid].amount <= custodyBacking[held.custodian]
  BY DEF CurrentEffect
<1>4. balances' \in [Accounts -> Nat]
  BY <1>1, MoveType DEF TypeOK, LedgerTypeOK, ApplyRelease
<1>5. custodyBacking' \in [Accounts -> Nat]
  <2>1. held.custodian \in Accounts =>
          custodyBacking[held.custodian] - actions[aid].amount \in Nat
    BY <1>1, <1>3 DEF TypeOK, LedgerTypeOK
  <2> QED
    BY <2>1 DEF TypeOK, LedgerTypeOK, ApplyRelease
<1>6. OverlayTypeOK'
  BY DEF TypeOK, OverlayTypeOK, ApplyRelease
<1>7. CloseCase(cases[actions[aid].caseId]) \in Case
  BY <1>1, CaseSteps DEF TypeOK, CaseTypeOK
<1>8. CaseTypeOK'
  BY <1>2, <1>7 DEF TypeOK, CaseTypeOK, ApplyRelease
<1> QED
  BY <1>4, <1>5, <1>6, <1>8 DEF TypeOK, LedgerTypeOK

\* What a request envelope contributes to records.
LEMMA ContextType ==
  ASSUME TypeOK, NEW ctx \in Contexts
  PROVE  /\ ctx.authorityRef \in AuthorityRefs /\ ctx.authorityEpoch \in Nat
         /\ ctx.dependencies.root \in Root /\ ctx.dependencies.epoch \in Nat
         /\ ConsumeNonce(ctx) \subseteq AuthorityRefs \X Nat \X Nonces
<1>1. /\ ctx.authorityRef \in AuthorityRefs /\ ctx.authorityEpoch \in Nat
      /\ ctx.nonce \in Nonces /\ ctx.dependencies \in rootLog
  BY DEF Contexts
<1>2. ctx.dependencies.root \in Root /\ ctx.dependencies.epoch \in Nat
  BY <1>1 DEF TypeOK, GovernanceTypeOK
<1> QED
  BY <1>1, <1>2 DEF TypeOK, CommandTypeOK, ConsumeNonce, NonceOf

\* Evidence names what was deployed at the consulted kinds.
LEMMA EvidenceType ==
  ASSUME TypeOK, NEW kinds \in SUBSET BindingKind
  PROVE  EvidenceOf(kinds) \in UNION {[ks -> Version] : ks \in SUBSET BindingKind}
<1>1. \A k \in kinds : deployed[bindings[k].dependency] \in Version
  BY DEF TypeOK, GovernanceTypeOK, EnvironmentTypeOK, Root, Binding
<1>2. EvidenceOf(kinds) \in [kinds -> Version]
  BY <1>1 DEF EvidenceOf
<1> QED
  BY <1>2

\* Observations hold a case record and a custody record.
LEMMA ObservationType ==
  ASSUME CaseTypeOK, NEW c \in CaseIds
  PROVE  Observation(c) \in [case: Case, custody: Custody]
BY DEF CaseTypeOK, Observation

\* The same after the effect.
LEMMA ObservationAfterType ==
  ASSUME CaseTypeOK', NEW c \in CaseIds
  PROVE  ObservationAfter(c) \in [case: Case, custody: Custody]
BY DEF CaseTypeOK, ObservationAfter

\* An accepted action writes a well-formed record and receipt.
LEMMA RecordActionType ==
  ASSUME TypeOK, CaseTypeOK', NEW id \in ActionIds, NEW req \in ActionRequest,
         NEW ctx \in Contexts, ActionShape(req), RecordAction(id, req, ctx)
  PROVE  CommandTypeOK'
<1>1. /\ req.action \in ActionKind
      /\ req.subject \in Accounts /\ req.source \in Accounts
      /\ req.destination \in Address /\ req.custodian \in Address
      /\ req.amount \in Nat /\ req.caseId \in CaseIds
      /\ req.entitlement \in Entitlements \cup {Zero}
  BY ShapeFacts DEF ActionRequest
<1>2. /\ ctx.authorityRef \in AuthorityRefs /\ ctx.authorityEpoch \in Nat
      /\ ctx.dependencies.root \in Root /\ ctx.dependencies.epoch \in Nat
      /\ ConsumeNonce(ctx) \subseteq AuthorityRefs \X Nat \X Nonces
  BY ContextType
<1> DEFINE prior == IF req.action = "FREEZE" THEN frozen[req.subject] ELSE 0
           flag == req.action = "RESTRICT" /\ restricted[req.subject]
           action == [action |-> req.action, lifecycle |-> "APPLIED",
                      subject |-> req.subject, source |-> req.source,
                      destination |-> req.destination, custodian |-> req.custodian,
                      amount |-> req.amount, priorAmount |-> prior,
                      priorFlag |-> flag,
                      caseId |-> req.caseId, authorityRef |-> ctx.authorityRef,
                      authorityEpoch |-> ctx.authorityEpoch,
                      dependencyEpoch |-> ctx.dependencies.epoch]
<1>3. actions' \in [ActionIds -> Action \cup {NoAction}]
  <2>1. prior \in Nat /\ flag \in BOOLEAN
    BY <1>1 DEF TypeOK, OverlayTypeOK
  <2>2. action \in Action
    <3> HIDE DEF prior, flag
    <3> QED
      BY <1>1, <1>2, <2>1 DEF Action
  <2>3. actions' = [actions EXCEPT ![id] = action]
    BY DEF RecordAction
  <2> QED
    BY <2>2, <2>3 DEF TypeOK, CommandTypeOK
<1>4. receipts' \in [ActionIds \cup ReversalIds -> Receipt \cup {NoReceipt}]
  <2> DEFINE evidence == EvidenceOf(ConsultedByAction(req))
             pre == Observation(req.caseId)
             post == ObservationAfter(req.caseId)
             commitment == ExternalCommitment(req)
             receipt == [receiptKind |-> "ACTION", commandKind |-> req.action,
                         parentCommandId |-> Zero, subject |-> req.subject,
                         source |-> req.source, destination |-> req.destination,
                         amount |-> req.amount, caseId |-> req.caseId,
                         authorityRef |-> ctx.authorityRef,
                         dependencyRoot |-> ctx.dependencies.root,
                         assessmentEvidence |-> evidence,
                         preState |-> pre, postState |-> post,
                         externalCommitment |-> commitment]
  <2>1. ConsultedByAction(req) \in SUBSET BindingKind
    BY DEF ConsultedByAction, BindingKind
  <2>2. evidence \in UNION {[ks -> Version] : ks \in SUBSET BindingKind}
    BY <2>1, EvidenceType
  <2>3. pre \in [case: Case, custody: Custody]
    BY <1>1, ObservationType DEF TypeOK
  <2>4. post \in [case: Case, custody: Custody]
    BY <1>1, ObservationAfterType
  <2>c. commitment \in Entitlements \cup {Zero, "SETTLEMENT"}
    BY <1>1 DEF ExternalCommitment
  <2>5. receipt \in Receipt
    <3> HIDE DEF evidence, pre, post, commitment
    <3> QED
      BY <1>1, <1>2, <2>2, <2>3, <2>4, <2>c DEF Receipt, Address
  <2>6. receipts' = [receipts EXCEPT ![id] = receipt]
    BY DEF RecordAction
  <2> QED
    <3> HIDE DEF receipt
    <3> QED
      BY <2>5, <2>6 DEF TypeOK, CommandTypeOK
<1> QED
  BY <1>2, <1>3, <1>4 DEF CommandTypeOK, RecordAction

\* An accepted reversal marks its action and writes a well-formed receipt.
LEMMA RecordReversalType ==
  ASSUME TypeOK, CaseTypeOK', NEW rid \in ReversalIds, NEW aid \in ActionIds,
         NEW reversal \in ReversalKind, NEW ctx \in Contexts,
         actions[aid] \in Action, RecordReversal(rid, aid, reversal, ctx)
  PROVE  CommandTypeOK'
<1> DEFINE original == actions[aid]
           held == custody[original.caseId]
<1>1. /\ original.subject \in Accounts /\ original.caseId \in CaseIds
      /\ original.amount \in Nat
  BY DEF Action
<1>2. held.custodian \in Address /\ held.declaredPriorHolder \in Address
  BY <1>1 DEF TypeOK, CaseTypeOK, Custody
<1>3. /\ ctx.authorityRef \in AuthorityRefs
      /\ ConsumeNonce(ctx) \subseteq AuthorityRefs \X Nat \X Nonces
  BY ContextType
<1>4. actions' \in [ActionIds -> Action \cup {NoAction}]
  <2>1. Reversed(actions[aid]) \in Action
    BY DEF Reversed, Action
  <2> QED
    BY <2>1 DEF TypeOK, CommandTypeOK, RecordReversal
<1>5. receipts' \in [ActionIds \cup ReversalIds -> Receipt \cup {NoReceipt}]
  <2> DEFINE evidence == EvidenceOf({"POLICY"})
             pre == Observation(original.caseId)
             post == ObservationAfter(original.caseId)
             from == IF reversal = "RELEASE" THEN held.custodian ELSE original.subject
             to == IF reversal = "RELEASE" THEN held.declaredPriorHolder
                                           ELSE original.subject
             receipt == [receiptKind |-> "REVERSAL", commandKind |-> reversal,
                         parentCommandId |-> aid, subject |-> original.subject,
                         source |-> from, destination |-> to,
                         amount |-> original.amount, caseId |-> original.caseId,
                         authorityRef |-> ctx.authorityRef,
                         dependencyRoot |-> dependencyRoot,
                         assessmentEvidence |-> evidence,
                         preState |-> pre, postState |-> post,
                         externalCommitment |-> Zero]
  <2>1. evidence \in UNION {[ks -> Version] : ks \in SUBSET BindingKind}
    <3>1. {"POLICY"} \in SUBSET BindingKind
      BY DEF BindingKind
    <3> QED
      BY <3>1, EvidenceType
  <2>2. pre \in [case: Case, custody: Custody]
    BY <1>1, ObservationType DEF TypeOK
  <2>3. post \in [case: Case, custody: Custody]
    BY <1>1, ObservationAfterType
  <2>4. from \in Address /\ to \in Address
    BY <1>1, <1>2 DEF Address
  <2>5. dependencyRoot \in Root
    BY DEF TypeOK, GovernanceTypeOK
  <2>6. receipt \in Receipt
    <3> HIDE DEF evidence, pre, post, from, to, original
    <3> QED
      BY <1>1, <1>3, <2>1, <2>2, <2>3, <2>4, <2>5 DEF Receipt
  <2>7. receipts' = [receipts EXCEPT ![rid] = receipt]
    BY DEF RecordReversal
  <2> QED
    <3> HIDE DEF receipt
    <3> QED
      BY <2>6, <2>7 DEF TypeOK, CommandTypeOK
<1> QED
  BY <1>3, <1>4, <1>5 DEF CommandTypeOK, RecordReversal

\* executeRegulatoryAction as a whole.
LEMMA ActionTypeOK ==
  ASSUME TypeOK, NEW id \in ActionIds, ExecuteRegulatoryAction(id)
  PROVE  TypeOK'
<1>1. PICK ctx \in Contexts, req \in Requests :
        /\ ActionShape(req)
        /\ \/ ApplyFreeze(id, req)
           \/ ApplyRestrict(id, req)
           \/ ApplySeize(id, req)
           \/ ApplyDisposition(id, req)
        /\ RecordAction(id, req, ctx)
  BY DEF ExecuteRegulatoryAction
<1>2. req \in ActionRequest
  OBVIOUS
<1>3. UNCHANGED <<allowances, governanceVars, environmentVars>>
  BY DEF ExecuteRegulatoryAction
<1>4. LedgerTypeOK' /\ OverlayTypeOK' /\ CaseTypeOK'
  BY <1>1, <1>2, <1>3, FreezeType, RestrictType, SeizeType, DispositionType
<1>5. CommandTypeOK'
  BY <1>1, <1>2, <1>4, RecordActionType
<1>6. GovernanceTypeOK' /\ EnvironmentTypeOK'
  BY <1>3 DEF TypeOK, GovernanceTypeOK, EnvironmentTypeOK, governanceVars,
              dependencyVars, environmentVars
<1> QED
  BY <1>4, <1>5, <1>6 DEF TypeOK

\* An action that can be reversed has a record.
LEMMA ReversedActionType ==
  ASSUME TypeOK, NEW aid \in ActionIds, NEW reversal, ReversalAdmissible(aid, reversal)
  PROVE  actions[aid] \in Action
<1>1. actions[aid].lifecycle = "APPLIED"
  BY DEF ReversalAdmissible
<1> QED
  BY <1>1 DEF TypeOK, CommandTypeOK, NoAction

\* executeRegulatoryReversal as a whole.
LEMMA ReversalTypeOK ==
  ASSUME TypeOK, NEW rid \in ReversalIds, ExecuteRegulatoryReversal(rid)
  PROVE  TypeOK'
<1>1. PICK ctx \in Contexts, aid \in ActionIds, reversal \in ReversalKind :
        /\ ReversalAdmissible(aid, reversal)
        /\ \/ reversal = "UNFREEZE" /\ ApplyUnfreeze(aid)
           \/ reversal = "UNRESTRICT" /\ ApplyUnrestrict(aid)
           \/ reversal = "RELEASE" /\ ApplyRelease(aid)
        /\ RecordReversal(rid, aid, reversal, ctx)
  BY DEF ExecuteRegulatoryReversal
<1>2. UNCHANGED <<allowances, effects, consumedEntitlements, governanceVars,
                  environmentVars>>
  BY DEF ExecuteRegulatoryReversal
<1>3. actions[aid] \in Action
  BY <1>1, ReversedActionType
<1>4. LedgerTypeOK' /\ OverlayTypeOK' /\ CaseTypeOK'
  <2>1. CASE reversal = "UNFREEZE" /\ ApplyUnfreeze(aid)
    BY <1>2, <1>3, <2>1, UnfreezeType
  <2>2. CASE reversal = "UNRESTRICT" /\ ApplyUnrestrict(aid)
    BY <1>2, <1>3, <2>2, UnrestrictType
  <2>3. CASE reversal = "RELEASE" /\ ApplyRelease(aid)
    <3>1. actions[aid].action = "SEIZE" /\ CurrentEffect(aid)
      BY <1>1, <2>3 DEF ReversalAdmissible, ReversalMatches
    <3> QED
      BY <1>2, <1>3, <2>3, <3>1, ReleaseType
  <2> QED
    BY <1>1, <2>1, <2>2, <2>3
<1>5. CommandTypeOK'
  BY <1>1, <1>3, <1>4, RecordReversalType
<1>6. GovernanceTypeOK' /\ EnvironmentTypeOK'
  BY <1>2 DEF TypeOK, GovernanceTypeOK, EnvironmentTypeOK, governanceVars,
              dependencyVars, environmentVars
<1> QED
  BY <1>4, <1>5, <1>6 DEF TypeOK

\* The ERC-20 surface.
LEMMA TokenTypeOK == ASSUME TypeOK, TokenStep PROVE TypeOK'
<1>1. ASSUME NEW from \in Accounts, NEW to \in Address, NEW amount \in Amounts,
             OrdinaryTransfer(from, to, amount),
             allowances' \in [Accounts -> [Accounts -> 0 .. MaxUint]]
      PROVE  TypeOK'
  <2>a. amount \in Nat
    BY InputAssumption, DeploymentAssumption
  <2>b. to \in Accounts
    BY <1>1, ZeroAssumption DEF OrdinaryTransfer, Address, CanReceive
  <2>1. amount \in Nat /\ to \in Accounts
    BY <2>a, <2>b
  <2>2. balances' \in [Accounts -> Nat]
    BY <1>1, <2>1, MoveType DEF TypeOK, LedgerTypeOK, OrdinaryTransfer
  <2> QED
    BY <1>1, <2>2 DEF TypeOK, LedgerTypeOK, OverlayTypeOK, CaseTypeOK, CommandTypeOK,
       GovernanceTypeOK, EnvironmentTypeOK, OrdinaryTransfer, overlayVars, caseVars,
       commandVars, governanceVars, dependencyVars, environmentVars
<1>2. ASSUME NEW from \in Accounts, NEW to \in Address, NEW amount \in Amounts,
             Transfer(from, to, amount)
      PROVE  TypeOK'
  BY <1>1, <1>2 DEF Transfer, TypeOK, LedgerTypeOK
<1>3. ASSUME NEW from \in Accounts, NEW to \in Address, NEW amount \in Amounts,
             NEW spender \in Accounts, TransferFrom(spender, from, to, amount)
      PROVE  TypeOK'
  <2>1. allowances[from][spender] \in 0 .. MaxUint /\ amount \in Nat
    BY DEF TypeOK, LedgerTypeOK
  <2>2. amount <= allowances[from][spender] =>
          allowances[from][spender] - amount \in 0 .. MaxUint
    BY <2>1
  <2>3. allowances' \in [Accounts -> [Accounts -> 0 .. MaxUint]]
    BY <1>3, <2>1, <2>2 DEF TransferFrom, TypeOK, LedgerTypeOK
  <2> QED
    BY <1>1, <1>3, <2>3 DEF TransferFrom
<1>4. ASSUME NEW owner \in Accounts, NEW spender \in Address,
             NEW value \in ApprovalValues, Approve(owner, spender, value)
      PROVE  TypeOK'
  <2>1. allowances' \in [Accounts -> [Accounts -> 0 .. MaxUint]]
    BY <1>4 DEF Approve, TypeOK, LedgerTypeOK, Address
  <2> QED
    BY <1>4, <2>1 DEF TypeOK, LedgerTypeOK, OverlayTypeOK, CaseTypeOK, CommandTypeOK,
       GovernanceTypeOK, EnvironmentTypeOK, Approve, ledgerVars, overlayVars, caseVars,
       commandVars, governanceVars, dependencyVars, environmentVars
<1> QED
  BY <1>2, <1>3, <1>4 DEF TokenStep

\* configureAuthority and rebindDependency.
LEMMA GovernanceStepTypeOK == ASSUME TypeOK, GovernanceStep PROVE TypeOK'
<1>1. ASSUME NEW ref \in AuthorityRefs, NEW account \in Address,
             NEW active \in BOOLEAN, NEW gid, NEW nonce,
             ConfigureAuthority(ref, account, active, gid, nonce)
      PROVE  TypeOK'
  <2>1. authorities[ref].epoch + 1 \in Nat
    BY DEF TypeOK, GovernanceTypeOK, Authority
  <2>2. authorities' \in [AuthorityRefs -> Authority]
    BY <1>1, <2>1 DEF ConfigureAuthority, TypeOK, GovernanceTypeOK, Authority
  <2> QED
    BY <1>1, <2>2 DEF TypeOK, LedgerTypeOK, OverlayTypeOK, CaseTypeOK, CommandTypeOK,
       GovernanceTypeOK, EnvironmentTypeOK, ConfigureAuthority, ledgerVars, overlayVars,
       caseVars, commandVars, dependencyVars, environmentVars
<1>2. ASSUME NEW kind \in BindingKind, NEW d \in Dependencies \cup {Zero},
             NEW gid, NEW nonce, RebindDependency(kind, d, gid, nonce)
      PROVE  TypeOK'
  <2>1. d \in Dependencies /\ Bindable(deployed[d])
    BY <1>2 DEF RebindDependency, Bind
  <2>2. bindings[kind].epoch + 1 \in Nat
    BY DEF TypeOK, GovernanceTypeOK, Root, Binding
  <2>3. BindingOf(d, bindings[kind].epoch + 1) \in Binding
    BY <2>1, <2>2 DEF TypeOK, EnvironmentTypeOK, BindingOf, Binding, Bindable, Version
  <2>4. bindings' \in Root
    BY <1>2, <2>3 DEF RebindDependency, Bind, TypeOK, GovernanceTypeOK, Root
  <2>5. dependencyRoot' \in Root /\ dependencyEpoch' \in Nat
    BY <1>2, <2>4 DEF RebindDependency, RootOf, TypeOK, GovernanceTypeOK
  <2>6. rootLog' \subseteq [root: Root, epoch: Nat]
    BY <1>2, <2>5 DEF RebindDependency, TypeOK, GovernanceTypeOK
  <2> QED
    BY <1>2, <2>4, <2>5, <2>6 DEF TypeOK, LedgerTypeOK, OverlayTypeOK, CaseTypeOK,
       CommandTypeOK, GovernanceTypeOK, EnvironmentTypeOK, RebindDependency, ledgerVars,
       overlayVars, caseVars, commandVars, environmentVars
<1> QED
  BY <1>1, <1>2 DEF GovernanceStep

\* Drift of a dependency and the passing of time.
LEMMA EnvironmentTypeOKStep == ASSUME TypeOK, EnvironmentStep PROVE TypeOK'
<1>1. ASSUME NEW d \in Dependencies, DependencyDrifts(d) PROVE TypeOK'
  BY <1>1 DEF TypeOK, LedgerTypeOK, OverlayTypeOK, CaseTypeOK, CommandTypeOK,
     GovernanceTypeOK, EnvironmentTypeOK, DependencyDrifts, ledgerVars, overlayVars,
     caseVars, commandVars, governanceVars, dependencyVars
<1>2. ASSUME Tick PROVE TypeOK'
  BY <1>2 DEF TypeOK, LedgerTypeOK, OverlayTypeOK, CaseTypeOK, CommandTypeOK,
     GovernanceTypeOK, EnvironmentTypeOK, Tick, ledgerVars, overlayVars,
     caseVars, commandVars, governanceVars, dependencyVars
<1> QED
  BY <1>1, <1>2 DEF EnvironmentStep

\* Type correctness is inductive.
LEMMA NextTypeOK == TypeOK /\ [Next]_vars => TypeOK'
<1> SUFFICES ASSUME TypeOK, [Next]_vars PROVE TypeOK'
  OBVIOUS
<1>1. CASE TokenStep
  BY <1>1, TokenTypeOK
<1>2. CASE CommandStep
  BY <1>2, ActionTypeOK, ReversalTypeOK DEF CommandStep
<1>3. CASE GovernanceStep
  BY <1>3, GovernanceStepTypeOK
<1>4. CASE EnvironmentStep
  BY <1>4, EnvironmentTypeOKStep
<1>5. CASE UNCHANGED vars
  BY <1>5 DEF TypeOK, LedgerTypeOK, OverlayTypeOK, CaseTypeOK, CommandTypeOK,
     GovernanceTypeOK, EnvironmentTypeOK, vars, ledgerVars, overlayVars, caseVars,
     commandVars, governanceVars, dependencyVars, environmentVars
<1> QED
  BY <1>1, <1>2, <1>3, <1>4, <1>5 DEF Next

\* Every storage variable keeps its declared type in every reachable state.
THEOREM TypeCorrect == Spec => []TypeOK
BY InitTypeOK, NextTypeOK, PTL DEF Spec
-----------------------------------------------------------------------------
(* Custody solvency, protection and finality *)

\* What _move does to any account: one debit and one credit, which cancel for
\* a transfer to oneself.
LEMMA MoveAt ==
  ASSUME balances \in [Accounts -> Nat], NEW from, NEW to, NEW amount \in Nat,
         NEW a \in Accounts
  PROVE  Move(from, to, amount)[a] =
           balances[a] - (IF a = from THEN amount ELSE 0)
                       + (IF a = to THEN amount ELSE 0)
<1> DEFINE debited == [balances EXCEPT ![from] = @ - amount]
<1>1. debited \in [Accounts -> Int]
  <2>1. from \in Accounts => balances[from] - amount \in Int
    OBVIOUS
  <2>2. \A b \in Accounts : debited[b] \in Int
    BY <2>1
  <2> QED
    BY <2>2
<1>2. debited[a] = balances[a] - (IF a = from THEN amount ELSE 0)
  OBVIOUS
<1>3. [debited EXCEPT ![to] = @ + amount][a] =
        debited[a] + (IF a = to THEN amount ELSE 0)
  <2> HIDE DEF debited
  <2> QED
    BY <1>1
<1> QED
  BY <1>2, <1>3 DEF Move
-----------------------------------------------------------------------------
(* Custody solvency *)

\* The seized amount arrives at the custodian together with its backing, and
\* is taken only from the unbacked part of the source.
LEMMA SeizeSolvent ==
  ASSUME TypeOK, BackingSolvency, NEW id, NEW req \in ActionRequest,
         ActionShape(req), ApplySeize(id, req)
  PROVE  BackingSolvency'
<1>1. /\ req.source \in Accounts /\ req.custodian \in Accounts
      /\ req.source # req.custodian /\ req.amount \in Nat
  BY ShapeFacts DEF ActionRequest, ApplySeize
<1>2. balances \in [Accounts -> Nat] /\ custodyBacking \in [Accounts -> Nat]
  BY DEF TypeOK, LedgerTypeOK
<1> SUFFICES ASSUME NEW a \in Accounts PROVE custodyBacking'[a] <= balances'[a]
  BY DEF BackingSolvency
<1>3. balances'[a] = balances[a] - (IF a = req.source THEN req.amount ELSE 0)
                                 + (IF a = req.custodian THEN req.amount ELSE 0)
  BY <1>1, <1>2, MoveAt DEF ApplySeize
<1>4. custodyBacking'[a] =
        custodyBacking[a] + (IF a = req.custodian THEN req.amount ELSE 0)
  BY <1>1, <1>2 DEF ApplySeize
<1>5. custodyBacking[a] <= balances[a]
  BY DEF BackingSolvency
<1>6. req.amount <= balances[req.source] - custodyBacking[req.source]
  BY DEF ApplySeize, RequireUnbacked
<1>7. balances[a] \in Nat /\ custodyBacking[a] \in Nat
  BY <1>2
<1> QED
  BY <1>1, <1>3, <1>4, <1>5, <1>6, <1>7

\* A disposition takes a whole custody record out of the custodian, backing and
\* tokens alike, or only unbacked tokens of the holder.
LEMMA DispositionSolvent ==
  ASSUME TypeOK, BackingSolvency, NEW id, NEW req \in ActionRequest,
         ActionShape(req), ApplyDisposition(id, req)
  PROVE  BackingSolvency'
<1> DEFINE held == custody[req.caseId]
<1>1. /\ req.source \in Accounts /\ req.destination \in Accounts
      /\ req.source # req.destination /\ req.amount \in Nat
  BY ShapeFacts DEF ActionRequest, ApplyDisposition, Disposition
<1>2. balances \in [Accounts -> Nat] /\ custodyBacking \in [Accounts -> Nat]
  BY DEF TypeOK, LedgerTypeOK
<1> SUFFICES ASSUME NEW a \in Accounts PROVE custodyBacking'[a] <= balances'[a]
  BY DEF BackingSolvency
<1>3. balances'[a] = balances[a] - (IF a = req.source THEN req.amount ELSE 0)
                                 + (IF a = req.destination THEN req.amount ELSE 0)
  BY <1>1, <1>2, MoveAt DEF ApplyDisposition
<1>4. custodyBacking[a] <= balances[a]
  BY DEF BackingSolvency
<1>5. balances[a] \in Nat /\ custodyBacking[a] \in Nat
  BY <1>2
<1>6. CASE held.active
  <2>1. /\ held.custodian = req.source /\ held.encumberedAmount = req.amount
        /\ custodyBacking' =
             [custodyBacking EXCEPT ![held.custodian] = @ - held.encumberedAmount]
    BY <1>6 DEF ApplyDisposition, CustodyMatches
  <2>2. custodyBacking'[a] =
          custodyBacking[a] - (IF a = req.source THEN req.amount ELSE 0)
    BY <1>2, <2>1
  <2> QED
    BY <1>1, <1>3, <1>4, <1>5, <2>2
<1>7. CASE ~ held.active
  <2>1. /\ req.amount <= balances[req.source] - custodyBacking[req.source]
        /\ custodyBacking' = custodyBacking
    BY <1>7 DEF ApplyDisposition, RequireUnbacked
  <2> QED
    BY <1>1, <1>3, <1>4, <1>5, <2>1
<1> QED
  BY <1>6, <1>7

\* A release takes the same amount off the custodian's backing and balance.
LEMMA ReleaseSolvent ==
  ASSUME TypeOK, BackingSolvency, NEW aid \in ActionIds, actions[aid] \in Action,
         ApplyRelease(aid)
  PROVE  BackingSolvency'
<1> DEFINE held == custody[actions[aid].caseId]
           amount == actions[aid].amount
<1>1. amount \in Nat
  BY DEF Action
<1>2. balances \in [Accounts -> Nat] /\ custodyBacking \in [Accounts -> Nat]
  BY DEF TypeOK, LedgerTypeOK
<1> SUFFICES ASSUME NEW a \in Accounts PROVE custodyBacking'[a] <= balances'[a]
  BY DEF BackingSolvency
<1>3. balances'[a] = balances[a] - (IF a = held.custodian THEN amount ELSE 0)
                                 + (IF a = held.declaredPriorHolder THEN amount ELSE 0)
  BY <1>1, <1>2, MoveAt DEF ApplyRelease
<1>4. custodyBacking'[a] =
        custodyBacking[a] - (IF a = held.custodian THEN amount ELSE 0)
  BY <1>1, <1>2 DEF ApplyRelease
<1>5. custodyBacking[a] <= balances[a]
  BY DEF BackingSolvency
<1>6. balances[a] \in Nat /\ custodyBacking[a] \in Nat
  BY <1>2
<1> QED
  BY <1>1, <1>3, <1>4, <1>5, <1>6

\* An ordinary transfer moves only what is neither backing nor frozen, between
\* unrestricted accounts.
LEMMA OrdinaryProtects ==
  ASSUME TypeOK, NEW from \in Accounts, NEW to \in Address, NEW amount \in Amounts,
         OrdinaryTransfer(from, to, amount), NEW a \in Accounts
  PROVE  /\ balances'[a] # balances[a] => ~ restricted[a]
         /\ custodyBacking'[a] = custodyBacking[a] /\ frozen'[a] = frozen[a]
         /\ balances'[a] < balances[a] =>
              custodyBacking'[a] + frozen'[a] <= balances'[a]
<1>1. amount \in Nat /\ to \in Accounts
  <2>1. amount \in Nat
    OBVIOUS
  <2>2. to \in Accounts
    BY DEF OrdinaryTransfer, Address
  <2> QED
    BY <2>1, <2>2
<1>2. balances \in [Accounts -> Nat] /\ custodyBacking \in [Accounts -> Nat]
      /\ frozen \in [Accounts -> Nat]
  BY DEF TypeOK, LedgerTypeOK, OverlayTypeOK
<1>3. balances'[a] = balances[a] - (IF a = from THEN amount ELSE 0)
                                 + (IF a = to THEN amount ELSE 0)
  BY <1>1, <1>2, MoveAt DEF OrdinaryTransfer
<1>4. custodyBacking' = custodyBacking /\ frozen' = frozen
  BY DEF OrdinaryTransfer, overlayVars
<1>5. amount # 0 => amount <= balances[from] - custodyBacking[from] - frozen[from]
  BY <1>1, <1>2 DEF OrdinaryTransfer, OrdinaryAvailable
<1>6. ~ restricted[from] /\ ~ restricted[to]
  BY DEF OrdinaryTransfer, CanSend, CanReceive
<1>7. balances[a] \in Nat /\ custodyBacking[a] \in Nat /\ frozen[a] \in Nat
  BY <1>2
<1>8. balances'[a] # balances[a] => a = from \/ a = to
  BY <1>1, <1>3, <1>7
<1>9. balances'[a] < balances[a] =>
        a = from /\ amount # 0 /\ balances'[a] = balances[a] - amount
  BY <1>1, <1>3, <1>7
<1>10. balances'[a] < balances[a] =>
         custodyBacking[a] + frozen[a] <= balances'[a]
  BY <1>1, <1>5, <1>7, <1>9
<1> QED
  BY <1>4, <1>6, <1>8, <1>10

\* No transfer digs into custody backing.
LEMMA TokenSolvent ==
  ASSUME TypeOK, BackingSolvency, TokenStep
  PROVE  BackingSolvency'
<1>1. ASSUME NEW from \in Accounts, NEW to \in Address, NEW amount \in Amounts,
             OrdinaryTransfer(from, to, amount)
      PROVE  BackingSolvency'
  <2> SUFFICES ASSUME NEW a \in Accounts PROVE custodyBacking'[a] <= balances'[a]
    BY DEF BackingSolvency
  <2>1. custodyBacking'[a] = custodyBacking[a] /\ frozen'[a] = frozen[a]
        /\ (balances'[a] < balances[a] =>
              custodyBacking'[a] + frozen'[a] <= balances'[a])
    BY <1>1, OrdinaryProtects
  <2>2. balances[a] \in Nat /\ custodyBacking[a] \in Nat /\ frozen[a] \in Nat
    BY DEF TypeOK, LedgerTypeOK, OverlayTypeOK
  <2>3. balances'[a] \in Nat
    BY TokenTypeOK DEF TypeOK, LedgerTypeOK
  <2>4. custodyBacking[a] <= balances[a]
    BY DEF BackingSolvency
  <2> QED
    BY <2>1, <2>2, <2>3, <2>4
<1>2. ASSUME NEW owner \in Accounts, NEW spender \in Address,
             NEW value \in ApprovalValues, Approve(owner, spender, value)
      PROVE  BackingSolvency'
  BY <1>2 DEF Approve, ledgerVars, BackingSolvency
<1> QED
  BY <1>1, <1>2 DEF TokenStep, Transfer, TransferFrom

\* The induction step of custody solvency, one case per command.
LEMMA NextSolvent == TypeOK /\ BackingSolvency /\ [Next]_vars => BackingSolvency'
<1> SUFFICES ASSUME TypeOK, BackingSolvency, [Next]_vars PROVE BackingSolvency'
  OBVIOUS
<1> DEFINE Kept == UNCHANGED ledgerVars
<1>0. ASSUME Kept PROVE BackingSolvency'
  BY <1>0 DEF ledgerVars, BackingSolvency
<1>1. CASE TokenStep
  BY <1>1, TokenSolvent
<1>2. ASSUME NEW id \in ActionIds, ExecuteRegulatoryAction(id)
      PROVE  BackingSolvency'
  <2>1. PICK req \in Requests :
          /\ ActionShape(req)
          /\ \/ ApplyFreeze(id, req)
             \/ ApplyRestrict(id, req)
             \/ ApplySeize(id, req)
             \/ ApplyDisposition(id, req)
    BY <1>2 DEF ExecuteRegulatoryAction
  <2>2. req \in ActionRequest
    OBVIOUS
  <2>3. ApplyFreeze(id, req) \/ ApplyRestrict(id, req) => Kept
    BY DEF ApplyFreeze, ApplyRestrict
  <2> QED
    BY <1>0, <2>1, <2>2, <2>3, SeizeSolvent, DispositionSolvent
<1>3. ASSUME NEW rid \in ReversalIds, ExecuteRegulatoryReversal(rid)
      PROVE  BackingSolvency'
  <2>1. PICK aid \in ActionIds, reversal \in ReversalKind :
          /\ ReversalAdmissible(aid, reversal)
          /\ \/ ApplyUnfreeze(aid)
             \/ ApplyUnrestrict(aid)
             \/ ApplyRelease(aid)
    BY <1>3 DEF ExecuteRegulatoryReversal
  <2>2. actions[aid] \in Action
    BY <2>1, ReversedActionType
  <2>3. ApplyUnfreeze(aid) \/ ApplyUnrestrict(aid) => Kept
    BY DEF ApplyUnfreeze, ApplyUnrestrict
  <2> QED
    BY <1>0, <2>1, <2>2, <2>3, ReleaseSolvent
<1>4. CASE GovernanceStep
  <2>1. Kept
    BY <1>4 DEF GovernanceStep, ConfigureAuthority, RebindDependency, ledgerVars
  <2> QED
    BY <1>0, <2>1
<1>5. CASE EnvironmentStep
  <2>1. Kept
    BY <1>5 DEF EnvironmentStep, DependencyDrifts, Tick, ledgerVars
  <2> QED
    BY <1>0, <2>1
<1>6. CASE UNCHANGED vars
  BY <1>0, <1>6 DEF vars
<1> QED
  BY <1>1, <1>2, <1>3, <1>4, <1>5, <1>6 DEF Next, CommandStep

\* At every account and in every reachable state, the tokens held cover the
\* custody backing recorded against them (_requireUnbacked,
\* _consumeMatchingCustody and _ordinaryAvailable together).
THEOREM CustodiansSolvent == Spec => []BackingSolvency
<1>1. Init => BackingSolvency
  BY DEF Init, BackingSolvency
<1>2. TypeOK /\ BackingSolvency /\ [Next]_vars => BackingSolvency'
  BY NextSolvent
<1> QED
  BY <1>1, <1>2, TypeCorrect, PTL DEF Spec
-----------------------------------------------------------------------------
(* Receipts tell commands from ordinary transfers *)

\* An action identifier that has a receipt has a record.
ReceiptedAction ==
  \A id \in ActionIds :
    receipts[id].receiptKind # "NONE" => actions[id].lifecycle # "NONE"

\* What each kind of command does to records and receipts.
LEMMA ActionReceipt ==
  ASSUME TypeOK, ReceiptedAction, NEW id \in ActionIds, ExecuteRegulatoryAction(id)
  PROVE  /\ receipts' # receipts
         /\ ReceiptedAction'
<1>1. actions[id].lifecycle = "NONE"
  BY DEF ExecuteRegulatoryAction
<1>2. PICK ctx \in Contexts, req \in Requests : RecordAction(id, req, ctx)
  BY DEF ExecuteRegulatoryAction
<1>3. receipts \in [ActionIds \cup ReversalIds -> Receipt \cup {NoReceipt}]
      /\ actions \in [ActionIds -> Action \cup {NoAction}]
  BY DEF TypeOK, CommandTypeOK
<1>4. receipts'[id].receiptKind = "ACTION" /\ actions'[id].lifecycle = "APPLIED"
  BY <1>2, <1>3 DEF RecordAction
<1>5. receipts[id].receiptKind = "NONE"
  BY <1>1 DEF ReceiptedAction
<1>6. ASSUME NEW other \in ActionIds, other # id
      PROVE  receipts'[other] = receipts[other] /\ actions'[other] = actions[other]
  BY <1>2, <1>3, <1>6 DEF RecordAction
<1> QED
  BY <1>4, <1>5, <1>6 DEF ReceiptedAction

\* The same for a reversal: identifiers of actions and reversals are disjoint.
LEMMA ReversalReceipt ==
  ASSUME TypeOK, ReceiptedAction, NEW rid \in ReversalIds,
         ExecuteRegulatoryReversal(rid)
  PROVE  /\ receipts' # receipts
         /\ ReceiptedAction'
<1>1. receipts[rid].receiptKind = "NONE"
  BY DEF ExecuteRegulatoryReversal
<1>2. PICK ctx \in Contexts, aid \in ActionIds, reversal \in ReversalKind :
        RecordReversal(rid, aid, reversal, ctx) /\ ReversalAdmissible(aid, reversal)
  BY DEF ExecuteRegulatoryReversal
<1>3. receipts \in [ActionIds \cup ReversalIds -> Receipt \cup {NoReceipt}]
      /\ actions \in [ActionIds -> Action \cup {NoAction}]
  BY DEF TypeOK, CommandTypeOK
<1>4. receipts'[rid].receiptKind = "REVERSAL"
  BY <1>2, <1>3 DEF RecordReversal
<1>5. \A id \in ActionIds : receipts'[id] = receipts[id]
  BY <1>2, <1>3, IdentifierAssumption DEF RecordReversal
<1>6. actions'[aid].lifecycle = "REVERSED"
  <2>1. actions[aid] \in Action
    BY <1>2, ReversedActionType
  <2> QED
    BY <1>2, <1>3, <2>1 DEF RecordReversal, Reversed, Action
<1>7. \A id \in ActionIds : id # aid => actions'[id] = actions[id]
  BY <1>2, <1>3 DEF RecordReversal
<1> QED
  BY <1>1, <1>4, <1>5, <1>6, <1>7 DEF ReceiptedAction

\* ReceiptedAction is inductive.
LEMMA NextReceipted ==
  TypeOK /\ ReceiptedAction /\ [Next]_vars => ReceiptedAction'
<1> SUFFICES ASSUME TypeOK, ReceiptedAction, [Next]_vars PROVE ReceiptedAction'
  OBVIOUS
<1>1. CASE CommandStep
  BY <1>1, ActionReceipt, ReversalReceipt DEF CommandStep
<1>2. CASE UNCHANGED commandVars
  BY <1>2 DEF commandVars, ReceiptedAction
<1>3. TokenStep \/ GovernanceStep \/ EnvironmentStep => UNCHANGED commandVars
  BY DEF TokenStep, Transfer, TransferFrom, OrdinaryTransfer, Approve,
     GovernanceStep, ConfigureAuthority, RebindDependency, EnvironmentStep,
     DependencyDrifts, Tick
<1> QED
  BY <1>1, <1>2, <1>3 DEF Next, vars

\* Only ordinary transfers move tokens without a receipt, and they leave alone
\* what is backing, what is frozen and who is restricted (_ordinaryTransfer,
\* _ordinaryAvailable).
THEOREM EncumberedProtected == Spec => OrdinaryTransferProtects
<1>1. Init => ReceiptedAction
  BY DEF Init, ReceiptedAction, NoReceipt
<1>2. ASSUME TypeOK, ReceiptedAction, [Next]_vars, receipts' = receipts,
             NEW a \in Accounts
      PROVE  /\ balances'[a] # balances[a] => ~ restricted[a]
             /\ balances'[a] < balances[a] =>
                  custodyBacking'[a] + frozen'[a] <= balances'[a]
  <2>1. balances[a] \in Nat
    BY <1>2 DEF TypeOK, LedgerTypeOK
  <2>2. CASE balances' = balances
    BY <2>1, <2>2
  <2>3. CASE TokenStep
    <3>1. CASE \E owner \in Accounts, spender \in Address, value \in ApprovalValues :
                 Approve(owner, spender, value)
      BY <2>2, <3>1 DEF Approve, ledgerVars
    <3>2. CASE \E from \in Accounts, to \in Address, amount \in Amounts :
                 OrdinaryTransfer(from, to, amount)
      BY <1>2, <3>2, OrdinaryProtects
    <3> QED
      BY <2>3, <3>1, <3>2 DEF TokenStep, Transfer, TransferFrom
  <2>4. ~ CommandStep
    BY <1>2, ActionReceipt, ReversalReceipt DEF CommandStep
  <2>5. GovernanceStep \/ EnvironmentStep => balances' = balances
    BY DEF GovernanceStep, ConfigureAuthority, RebindDependency, EnvironmentStep,
       DependencyDrifts, Tick, ledgerVars
  <2>6. UNCHANGED vars => balances' = balances
    BY DEF vars, ledgerVars
  <2> QED
    BY <1>2, <2>2, <2>3, <2>4, <2>5, <2>6 DEF Next
<1>3. TypeOK /\ ReceiptedAction /\ [Next]_vars =>
        [receipts' = receipts =>
           \A a \in Accounts :
             /\ balances'[a] # balances[a] => ~ restricted[a]
             /\ balances'[a] < balances[a] =>
                  custodyBacking'[a] + frozen'[a] <= balances'[a]]_vars
  BY <1>2
<1> QED
  BY <1>1, <1>3, NextReceipted, TypeCorrect, PTL DEF Spec, OrdinaryTransferProtects
-----------------------------------------------------------------------------
(* Finality *)

\* An untouched case has no family, and an open custody case has its record.
CaseFamily ==
  \A c \in CaseIds :
    /\ cases[c].phase = "NONE" => cases[c].family = "NONE"
    /\ cases[c].phase = "OPEN" /\ cases[c].family = "CUSTODY" => custody[c].active

\* What a step may do to a case and its custody record.
FinalStep(c) ==
  /\ cases[c].phase = "TERMINAL" => cases'[c] = cases[c] /\ custody'[c] = custody[c]
  /\ cases[c].family # "NONE" => cases'[c].family = cases[c].family

\* The same as one case: the next value of a case is final and keeps CaseFamily.
CaseMove(c) ==
  /\ cases[c].phase # "TERMINAL"
  /\ cases[c].family # "NONE" => cases'[c].family = cases[c].family
  /\ cases'[c].phase = "NONE" => cases'[c].family = "NONE"
  /\ cases'[c].phase = "OPEN" /\ cases'[c].family = "CUSTODY" => custody'[c].active

\* A command changes one case, and that case by a CaseMove.
OneCaseMoves ==
  \E c \in CaseIds :
    /\ CaseMove(c)
    /\ \A other \in CaseIds \ {c} :
         cases'[other] = cases[other] /\ custody'[other] = custody[other]

\* An action opens, amends or closes its own case and no other.
LEMMA ActionMovesOneCase ==
  ASSUME TypeOK, CaseFamily, NEW id \in ActionIds, ExecuteRegulatoryAction(id)
  PROVE  OneCaseMoves
<1>1. PICK req \in Requests :
        /\ ActionShape(req)
        /\ \/ ApplyFreeze(id, req)
           \/ ApplyRestrict(id, req)
           \/ ApplySeize(id, req)
           \/ ApplyDisposition(id, req)
  BY DEF ExecuteRegulatoryAction
<1> DEFINE c == req.caseId
<1>2. c \in CaseIds
  BY <1>1, ShapeFacts
<1>3. cases \in [CaseIds -> Case] /\ custody \in [CaseIds -> Custody]
  BY DEF TypeOK, CaseTypeOK
<1>4. cases[c].phase # "TERMINAL" /\ cases[c].phase \in {"NONE", "OPEN", "TERMINAL"}
  BY <1>1, <1>2, <1>3 DEF ActionShape, NotTerminal, Case
<1>5. /\ cases[c].phase = "NONE" => cases[c].family = "NONE"
      /\ cases[c].phase = "OPEN" /\ cases[c].family = "CUSTODY" => custody[c].active
  BY <1>2 DEF CaseFamily
<1> HIDE DEF c
<1>6. CASE ApplyFreeze(id, req)
  <2>1. /\ cases' = [cases EXCEPT ![c] = OpenOverlay(@, "FREEZE", id)]
        /\ custody' = custody
    BY <1>6 DEF ApplyFreeze, c
  <2>2. cases'[c] = OpenOverlay(cases[c], "FREEZE", id)
    BY <1>2, <1>3, <2>1
  <2>3. CaseMove(c)
    BY <1>4, <1>5, <2>1, <2>2 DEF CaseMove, OpenOverlay
  <2> QED
    BY <1>2, <1>3, <2>1, <2>3 DEF OneCaseMoves
<1>7. CASE ApplyRestrict(id, req)
  <2>1. /\ cases' = [cases EXCEPT ![c] = OpenOverlay(@, "RESTRICT", id)]
        /\ custody' = custody
    BY <1>7 DEF ApplyRestrict, c
  <2>2. cases'[c] = OpenOverlay(cases[c], "RESTRICT", id)
    BY <1>2, <1>3, <2>1
  <2>3. CaseMove(c)
    BY <1>4, <1>5, <2>1, <2>2 DEF CaseMove, OpenOverlay
  <2> QED
    BY <1>2, <1>3, <2>1, <2>3 DEF OneCaseMoves
<1>8. CASE ApplySeize(id, req)
  <2>1. cases[c].phase = "NONE"
    BY <1>1, <1>4, <1>8 DEF ApplySeize, ActionShape, SeizeShape, FreezeShape,
       RestrictShape, Disposition, c
  <2>2. /\ cases'[c].phase = "OPEN" /\ cases'[c].family = "CUSTODY"
        /\ custody'[c].active
        /\ \A other \in CaseIds \ {c} :
             cases'[other] = cases[other] /\ custody'[other] = custody[other]
    BY <1>2, <1>3, <1>8 DEF ApplySeize, c
  <2>3. CaseMove(c)
    BY <1>5, <2>1, <2>2 DEF CaseMove
  <2> QED
    BY <1>2, <2>2, <2>3 DEF OneCaseMoves
<1>9. CASE ApplyDisposition(id, req)
  <2>1. cases[c].phase = "OPEN" => custody[c].active
    BY <1>1, <1>5, <1>9 DEF ApplyDisposition, ActionShape, DispositionShape, SeizeShape,
       FreezeShape, RestrictShape, Disposition, c
  <2>2. \A other \in CaseIds \ {c} :
          cases'[other] = cases[other] /\ custody'[other] = custody[other]
    BY <1>2, <1>3, <1>9 DEF ApplyDisposition, c
  <2>3. CASE custody[c].active
    <3>1. cases'[c] = CloseCase(cases[c])
      BY <1>2, <1>3, <1>9, <2>3 DEF ApplyDisposition, c
    <3>2. CaseMove(c)
      BY <1>2, <1>3, <1>4, <3>1 DEF CaseMove, CloseCase, Case
    <3> QED
      BY <1>2, <2>2, <3>2 DEF OneCaseMoves
  <2>4. CASE ~ custody[c].active
    <3>1. cases'[c] = CloseCase([cases[c] EXCEPT !.family = "DISPOSITION"])
      BY <1>2, <1>3, <1>9, <2>4 DEF ApplyDisposition, c
    <3>2. cases[c].family = "NONE"
      BY <1>4, <1>5, <2>1, <2>4
    <3>3. cases'[c].phase = "TERMINAL"
      BY <1>2, <1>3, <3>1 DEF CloseCase, Case
    <3>4. CaseMove(c)
      BY <1>4, <3>2, <3>3 DEF CaseMove
    <3> QED
      BY <1>2, <2>2, <3>4 DEF OneCaseMoves
  <2> QED
    BY <2>3, <2>4
<1> QED
  BY <1>1, <1>6, <1>7, <1>8, <1>9

\* A reversal amends or closes the case of the action it reverses.
LEMMA ReversalMovesOneCase ==
  ASSUME TypeOK, CaseFamily, NEW rid \in ReversalIds, ExecuteRegulatoryReversal(rid)
  PROVE  OneCaseMoves
<1>1. PICK aid \in ActionIds, reversal \in ReversalKind :
        /\ ReversalAdmissible(aid, reversal)
        /\ \/ ApplyUnfreeze(aid)
           \/ ApplyUnrestrict(aid)
           \/ ApplyRelease(aid)
  BY DEF ExecuteRegulatoryReversal
<1> DEFINE c == actions[aid].caseId
<1>2. c \in CaseIds /\ actions[aid] \in Action
  <2>1. actions[aid] \in Action
    BY <1>1, ReversedActionType
  <2> QED
    BY <2>1 DEF Action
<1>3. cases \in [CaseIds -> Case] /\ custody \in [CaseIds -> Custody]
  BY DEF TypeOK, CaseTypeOK
<1>4. cases[c].phase # "TERMINAL"
  BY <1>1 DEF ReversalAdmissible, NotTerminal
<1>5. /\ cases[c].phase = "NONE" => cases[c].family = "NONE"
      /\ cases[c].phase = "OPEN" /\ cases[c].family = "CUSTODY" => custody[c].active
  BY <1>2 DEF CaseFamily
<1>6. ASSUME cases' = [cases EXCEPT ![c] = CloseCase(@)],
             \A other \in CaseIds \ {c} : custody'[other] = custody[other]
      PROVE  OneCaseMoves
  <2>1. cases'[c].phase = "TERMINAL" /\ cases'[c].family = cases[c].family
    BY <1>2, <1>3, <1>6 DEF CloseCase, Case
  <2>2. \A other \in CaseIds \ {c} : cases'[other] = cases[other]
    BY <1>3, <1>6
  <2>3. CaseMove(c)
    BY <1>4, <2>1 DEF CaseMove
  <2> QED
    BY <1>2, <1>6, <2>2, <2>3 DEF OneCaseMoves
<1>7. CASE ApplyUnfreeze(aid)
  <2> DEFINE parent == effects[aid].parentActionId
  <2>1. custody' = custody
    BY <1>7 DEF ApplyUnfreeze
  <2>2. CASE parent = Zero
    BY <1>6, <1>7, <2>1, <2>2 DEF ApplyUnfreeze
  <2>3. CASE parent # Zero
    <3>1. cases' = [cases EXCEPT ![c] = FallBack(@, parent)]
      BY <1>7, <2>3 DEF ApplyUnfreeze
    <3>2. /\ cases'[c].phase = cases[c].phase /\ cases'[c].family = cases[c].family
          /\ \A other \in CaseIds \ {c} : cases'[other] = cases[other]
      <4> HIDE DEF parent, c
      <4> QED
        BY <1>2, <1>3, <3>1 DEF FallBack, Case
    <3>3. CaseMove(c)
      BY <1>4, <1>5, <2>1, <3>2 DEF CaseMove
    <3> QED
      BY <1>2, <2>1, <3>2, <3>3 DEF OneCaseMoves
  <2> QED
    BY <2>2, <2>3
<1>8. CASE ApplyUnrestrict(aid)
  BY <1>6, <1>8 DEF ApplyUnrestrict
<1>9. CASE ApplyRelease(aid)
  <2>1. \A other \in CaseIds \ {c} : custody'[other] = custody[other]
    BY <1>3, <1>9 DEF ApplyRelease
  <2> QED
    BY <1>6, <1>9, <2>1 DEF ApplyRelease
<1> QED
  BY <1>1, <1>7, <1>8, <1>9

\* CaseFamily is inductive, and every step is final for every case.
LEMMA NextFinal ==
  ASSUME TypeOK, CaseFamily, [Next]_vars
  PROVE  CaseFamily' /\ \A c \in CaseIds : FinalStep(c)
<1>1. CASE OneCaseMoves
  <2>1. PICK c \in CaseIds :
          /\ CaseMove(c)
          /\ \A other \in CaseIds \ {c} :
               cases'[other] = cases[other] /\ custody'[other] = custody[other]
    BY <1>1 DEF OneCaseMoves
  <2> QED
    BY <2>1 DEF CaseMove, CaseFamily, FinalStep
<1>2. CASE UNCHANGED <<cases, custody>>
  BY <1>2 DEF CaseFamily, FinalStep
<1>3. CommandStep => OneCaseMoves
  BY ActionMovesOneCase, ReversalMovesOneCase DEF CommandStep
<1>4. TokenStep \/ GovernanceStep \/ EnvironmentStep => UNCHANGED <<cases, custody>>
  BY DEF TokenStep, Transfer, TransferFrom, OrdinaryTransfer, Approve,
     GovernanceStep, ConfigureAuthority, RebindDependency, EnvironmentStep,
     DependencyDrifts, Tick, caseVars
<1>5. UNCHANGED vars => UNCHANGED <<cases, custody>>
  BY DEF vars, caseVars
<1> QED
  BY <1>1, <1>2, <1>3, <1>4, <1>5 DEF Next

\* A terminal case and its custody record never change again, and a case keeps
\* the family it opened with (_validateActionShape, _validateAndAuthorizeReversal
\* and the case table).
THEOREM TerminalIsForever == Spec => TerminalForever
<1>1. Init => CaseFamily
  BY DEF Init, CaseFamily, NoCase
<1>2. TypeOK /\ CaseFamily /\ [Next]_vars => CaseFamily'
  BY NextFinal
<1>3. TypeOK /\ CaseFamily /\ [Next]_vars =>
        [\A c \in CaseIds :
           /\ cases[c].phase = "TERMINAL" =>
                cases'[c] = cases[c] /\ custody'[c] = custody[c]
           /\ cases[c].family # "NONE" => cases'[c].family = cases[c].family]_vars
  BY NextFinal DEF FinalStep
<1> QED
  BY <1>1, <1>2, <1>3, TypeCorrect, PTL DEF Spec, TerminalForever
-----------------------------------------------------------------------------
(* The inductive invariant of heads, chains and open cases *)

\* The live head of a subject in an overlay family, Zero when there is none.
HeadOf(kind, s) ==
  IF kind = "FREEZE" THEN freezeHeads[s].actionId ELSE restrictionHeads[s].actionId

\* A subject's head is an effect of its own, and an open case of the family
\* names it.
HeadsOwned ==
  \A kind \in Overlay, s \in Accounts :
    HeadOf(kind, s) # Zero => OwnedHead(kind, s, HeadOf(kind, s))

\* The live effects of a subject belong to the case of its head.
LiveBelongs ==
  \A kind \in Overlay, s \in Accounts : \A a \in LiveEffects(kind, s) :
    /\ HeadOf(kind, s) # Zero
    /\ actions[a].caseId = actions[HeadOf(kind, s)].caseId

\* What the head of an open case is.
OpenHead(c, head) ==
  /\ head \in ActionIds
  /\ actions[head].lifecycle = "APPLIED"
  /\ actions[head].caseId = c
  /\ \/ /\ cases[c].family \in Overlay
        /\ actions[head].action = cases[c].family
        /\ HeadOf(cases[c].family, actions[head].subject) = head
     \/ /\ cases[c].family = "CUSTODY"
        /\ actions[head].action = "SEIZE"
        /\ custody[c].active
        /\ custody[c].actionId = head
        /\ custody[c].custodian = actions[head].custodian
        /\ custody[c].custodian # Zero
        /\ custody[c].declaredPriorHolder = actions[head].source
        /\ custody[c].encumberedAmount = actions[head].amount

\* Only an open case has a head, only an untouched one has no family, and
\* active custody is that of an open custody case.
CaseOwns(c) ==
  /\ IF cases[c].phase = "OPEN" THEN OpenHead(c, cases[c].headActionId)
                                ELSE cases[c].headActionId = Zero
  /\ cases[c].phase = "NONE" => cases[c].family = "NONE"
  /\ custody[c].active => cases[c].phase = "OPEN" /\ cases[c].family = "CUSTODY"

\* Every case owns what it says.
CasesOwn == \A c \in CaseIds : CaseOwns(c)

\* A restriction is never amended.
RestrictionsAlone ==
  \A s \in Accounts :
    /\ restricted[s] = (HeadOf("RESTRICT", s) # Zero)
    /\ \A a \in LiveEffects("RESTRICT", s) :
         /\ a = HeadOf("RESTRICT", s)
         /\ effects[a].parentActionId = Zero
         /\ effects[a].generation # 0
         /\ ~ actions[a].priorFlag

\* The freezes of a subject occupy disjoint intervals from the target they
\* found to the one they set, none above the target in force.
FreezeLevels ==
  \A s \in Accounts :
    /\ HeadOf("FREEZE", s) = Zero => frozen[s] = 0
    /\ \A a \in LiveEffects("FREEZE", s) :
         /\ actions[a].amount <= frozen[s]
         /\ effects[a].generation \in 1 .. freezeHeads[s].generation
         /\ \A b \in LiveEffects("FREEZE", s) \ {a} :
              \/ actions[a].amount <= actions[b].priorAmount
              \/ actions[b].amount <= actions[a].priorAmount

\* The inductive invariant of the overlays.
OverlayInv ==
  /\ HeadsOwned /\ LiveBelongs /\ CasesOwn
  /\ RestrictionsAlone /\ FreezeLevels /\ FreezeChain
-----------------------------------------------------------------------------
(* Facts the steps share *)

\* A command that was accepted has a record.
LEMMA RecordOf ==
  ASSUME TypeOK, NEW a \in ActionIds, actions[a].lifecycle = "APPLIED"
  PROVE  actions[a] \in Action
BY DEF TypeOK, CommandTypeOK, NoAction

\* What the invariant says of the head of a subject.
LEMMA HeadFacts ==
  ASSUME TypeOK, HeadsOwned, NEW kind \in Overlay, NEW s \in Accounts,
         HeadOf(kind, s) # Zero
  PROVE  LET h == HeadOf(kind, s) IN
         /\ h \in ActionIds /\ actions[h] \in Action
         /\ actions[h].lifecycle = "APPLIED" /\ actions[h].action = kind
         /\ actions[h].subject = s /\ actions[h].caseId \in CaseIds
         /\ cases[actions[h].caseId].phase = "OPEN"
         /\ cases[actions[h].caseId].family = kind
         /\ cases[actions[h].caseId].headActionId = h
<1> DEFINE h == HeadOf(kind, s)
<1>1. OwnedHead(kind, s, h)
  BY DEF HeadsOwned
<1>2. /\ h \in ActionIds /\ actions[h].lifecycle = "APPLIED"
      /\ actions[h].action = kind /\ actions[h].subject = s
  BY <1>1 DEF OwnedHead, LiveEffects
<1>3. actions[h] \in Action
  BY <1>2, RecordOf
<1>4. actions[h].caseId \in CaseIds
  BY <1>3 DEF Action
<1> HIDE DEF h
<1> QED
  BY <1>1, <1>2, <1>3, <1>4 DEF OwnedHead, h

\* A case with a head is open, and the head is an applied action of the case.
LEMMA CaseHeadFacts ==
  ASSUME CasesOwn, NEW c \in CaseIds, cases[c].headActionId # Zero
  PROVE  cases[c].phase = "OPEN" /\ OpenHead(c, cases[c].headActionId)
BY DEF CasesOwn, CaseOwns

\* What executeRegulatoryAction does to the heads and cases when it pushes an
\* effect of either family: action id on subject s in case c.
Pushes(kind, s, c, id) ==
  /\ actions[id].lifecycle = "NONE"
  /\ actions'[id].lifecycle = "APPLIED" /\ actions'[id].action = kind
  /\ actions'[id].subject = s /\ actions'[id].caseId = c
  /\ \A a \in ActionIds \ {id} : actions'[a] = actions[a]
  /\ IF HeadOf(kind, s) = Zero THEN cases[c].phase = "NONE"
                               ELSE cases[c].headActionId = HeadOf(kind, s)
  /\ HeadOf(kind, s)' = id
  /\ \A k \in Overlay, t \in Accounts :
       <<k, t>> # <<kind, s>> => HeadOf(k, t)' = HeadOf(k, t)
  /\ cases'[c].phase = (IF cases[c].phase = "NONE" THEN "OPEN" ELSE cases[c].phase)
  /\ cases'[c].family = (IF cases[c].phase = "NONE" THEN kind ELSE cases[c].family)
  /\ cases'[c].headActionId = id
  /\ \A d \in CaseIds \ {c} : cases'[d] = cases[d]
  /\ custody' = custody

\* The case a push is admitted in: a fresh one, or that of the live head.
LEMMA PushedCase ==
  ASSUME TypeOK, HeadsOwned, CasesOwn, NEW kind \in Overlay, NEW s \in Accounts,
         NEW c \in CaseIds, NEW id \in ActionIds, Pushes(kind, s, c, id)
  PROVE  \/ /\ HeadOf(kind, s) = Zero
            /\ cases[c].phase = "NONE"
         \/ /\ HeadOf(kind, s) # Zero /\ cases[c].headActionId = HeadOf(kind, s)
            /\ cases[c].phase = "OPEN" /\ cases[c].family = kind
            /\ actions[HeadOf(kind, s)].caseId = c
<1>1. CASE HeadOf(kind, s) = Zero
  BY <1>1 DEF Pushes
<1>2. CASE HeadOf(kind, s) # Zero
  <2>1. cases[c].headActionId = HeadOf(kind, s)
    BY <1>2 DEF Pushes
  <2>2. cases[c].phase = "OPEN" /\ OpenHead(c, HeadOf(kind, s))
    BY <1>2, <2>1, CaseHeadFacts
  <2>3. actions[HeadOf(kind, s)].caseId = c
    BY <2>2 DEF OpenHead
  <2>4. cases[c].family = kind
    BY <1>2, <2>3, HeadFacts
  <2> QED
    BY <1>2, <2>1, <2>2, <2>3, <2>4
<1> QED
  BY <1>1, <1>2

\* A push keeps heads, cases and live effects together.
LEMMA PushKeeps ==
  ASSUME TypeOK, HeadsOwned, LiveBelongs, CasesOwn,
         NEW kind \in Overlay, NEW s \in Accounts, NEW c \in CaseIds,
         NEW id \in ActionIds, Pushes(kind, s, c, id)
  PROVE  HeadsOwned' /\ LiveBelongs' /\ CasesOwn'
<1> DEFINE old == HeadOf(kind, s)
<1>1. \/ old = Zero /\ cases[c].phase = "NONE"
      \/ /\ old # Zero /\ cases[c].headActionId = old
         /\ cases[c].phase = "OPEN" /\ cases[c].family = kind
         /\ actions[old].caseId = c
  BY PushedCase
<1>2. /\ cases'[c].phase = "OPEN" /\ cases'[c].family = kind
      /\ cases'[c].headActionId = id
  BY <1>1 DEF Pushes
<1>3. ASSUME NEW k \in Overlay, NEW t \in Accounts, <<k, t>> # <<kind, s>>,
             HeadOf(k, t) # Zero
      PROVE  /\ HeadOf(k, t) # id /\ actions[HeadOf(k, t)].caseId # c
             /\ HeadOf(k, t)' = HeadOf(k, t)
  <2> DEFINE h == HeadOf(k, t)
  <2>1. /\ h \in ActionIds /\ actions[h].lifecycle = "APPLIED"
        /\ actions[h].action = k /\ actions[h].subject = t
        /\ cases[actions[h].caseId].phase = "OPEN"
        /\ cases[actions[h].caseId].headActionId = h
    BY <1>3, HeadFacts
  <2>2. h # id /\ h' = h
    BY <1>3, <2>1 DEF Pushes
  <2>3. ASSUME actions[h].caseId = c PROVE FALSE
    <3>1. old = h /\ old # Zero
      BY <1>1, <1>3, <2>1, <2>3
    <3>2. actions[old].action = kind /\ actions[old].subject = s
      BY <3>1, HeadFacts
    <3> QED
      BY <1>3, <2>1, <3>1, <3>2
  <2> QED
    BY <2>2, <2>3
<1>4. HeadsOwned'
  <2> SUFFICES ASSUME NEW k \in Overlay, NEW t \in Accounts, HeadOf(k, t)' # Zero
               PROVE  OwnedHead(k, t, HeadOf(k, t))'
    BY DEF HeadsOwned
  <2>1. CASE <<k, t>> = <<kind, s>>
    BY <1>2, <2>1 DEF Pushes, OwnedHead, LiveEffects
  <2>2. CASE <<k, t>> # <<kind, s>>
    <3> DEFINE h == HeadOf(k, t)
    <3>1. h' = h /\ h # Zero /\ h # id /\ actions[h].caseId # c
      BY <1>3, <2>2 DEF Pushes
    <3>2. OwnedHead(k, t, h) /\ h \in ActionIds /\ actions[h].caseId \in CaseIds
      BY <3>1, HeadFacts DEF HeadsOwned
    <3>3. actions'[h] = actions[h] /\ cases'[actions[h].caseId] = cases[actions[h].caseId]
      BY <3>1, <3>2 DEF Pushes
    <3> HIDE DEF h
    <3>4. OwnedHead(k, t, h)'
      BY <3>1, <3>2, <3>3 DEF OwnedHead, LiveEffects
    <3> QED
      BY <3>4 DEF h
  <2> QED
    BY <2>1, <2>2
<1>5. LiveBelongs'
  <2> SUFFICES ASSUME NEW k \in Overlay, NEW t \in Accounts,
                      NEW a \in LiveEffects(k, t)'
               PROVE  /\ HeadOf(k, t)' # Zero
                      /\ actions'[a].caseId = actions'[HeadOf(k, t)'].caseId
    BY DEF LiveBelongs
  <2>1. a \in ActionIds
    BY DEF LiveEffects
  <2>2. CASE a = id
    BY <2>2 DEF Pushes, LiveEffects
  <2>3. CASE a # id
    <3>1. a \in LiveEffects(k, t) /\ actions'[a] = actions[a]
      BY <2>1, <2>3 DEF Pushes, LiveEffects
    <3>2. HeadOf(k, t) # Zero /\ actions[a].caseId = actions[HeadOf(k, t)].caseId
      BY <3>1 DEF LiveBelongs
    <3>3. CASE <<k, t>> = <<kind, s>>
      BY <1>1, <3>1, <3>2, <3>3 DEF Pushes
    <3>4. CASE <<k, t>> # <<kind, s>>
      <4>1. HeadOf(k, t)' = HeadOf(k, t) /\ HeadOf(k, t) # id /\ HeadOf(k, t) \in ActionIds
        BY <1>3, <3>2, <3>4, HeadFacts
      <4>2. actions'[HeadOf(k, t)] = actions[HeadOf(k, t)]
        BY <4>1 DEF Pushes
      <4> QED
        BY <3>1, <3>2, <4>1, <4>2
    <3> QED
      BY <3>3, <3>4
  <2> QED
    BY <2>2, <2>3
<1>6. CasesOwn'
  <2> SUFFICES ASSUME NEW d \in CaseIds PROVE CaseOwns(d)'
    BY DEF CasesOwn
  <2>1. CASE d = c
    <3>1. OpenHead(c, id)'
      BY <1>2 DEF Pushes, OpenHead
    <3>2. ~ custody'[c].active
      BY <1>1 DEF Pushes, CasesOwn, CaseOwns, Overlay
    <3> QED
      BY <1>2, <2>1, <3>1, <3>2 DEF CaseOwns
  <2>2. CASE d # c
    <3>1. cases'[d] = cases[d] /\ custody'[d] = custody[d] /\ CaseOwns(d)
      BY <2>2 DEF Pushes, CasesOwn
    <3>2. ASSUME cases[d].phase = "OPEN"
          PROVE  OpenHead(d, cases[d].headActionId)'
      <4> DEFINE h == cases[d].headActionId
      <4>1. OpenHead(d, h)
        BY <3>1, <3>2 DEF CaseOwns
      <4>2. h \in ActionIds /\ h # id /\ actions'[h] = actions[h] /\ actions[h] \in Action
        BY <4>1, RecordOf DEF OpenHead, Pushes
      <4>3. ASSUME NEW k \in Overlay, NEW t \in Accounts,
                   k = cases[d].family, t = actions[h].subject, HeadOf(k, t) = h
            PROVE  HeadOf(k, t)' = h
        <5>1. CASE <<k, t>> = <<kind, s>>
          BY <1>1, <2>2, <4>1, <4>2, <4>3, <5>1 DEF OpenHead
        <5>2. CASE <<k, t>> # <<kind, s>>
          BY <4>3, <5>2 DEF Pushes
        <5> QED
          BY <5>1, <5>2
      <4>4. h' = h
        BY <3>1
      <4> HIDE DEF h
      <4>5. OpenHead(d, h)'
        <5>1. actions[h].subject \in Accounts
          BY <4>2 DEF Action
        <5> QED
          BY <3>1, <4>1, <4>2, <4>3, <4>4, <5>1 DEF OpenHead, HeadOf
      <4> QED
        BY <3>1, <4>5 DEF h
    <3> QED
      BY <3>1, <3>2 DEF CaseOwns
  <2> QED
    BY <2>1, <2>2
<1> QED
  BY <1>4, <1>5, <1>6

\* What executeRegulatoryReversal does when it pops the effect of action aid:
\* the parent becomes the head of the subject and of the case, or the case is
\* closed when there is none.
Pops(kind, s, c, aid, parent) ==
  /\ actions[aid].lifecycle = "APPLIED" /\ actions[aid].action = kind
  /\ actions[aid].subject = s /\ actions[aid].caseId = c
  /\ actions'[aid].lifecycle = "REVERSED"
  /\ \A a \in ActionIds \ {aid} : actions'[a] = actions[a]
  /\ IF parent = Zero THEN LiveEffects(kind, s) = {aid}
                      ELSE parent \in LiveEffects(kind, s) \ {aid}
  /\ HeadOf(kind, s) = aid
  /\ HeadOf(kind, s)' = parent
  /\ \A k \in Overlay, t \in Accounts :
       <<k, t>> # <<kind, s>> => HeadOf(k, t)' = HeadOf(k, t)
  /\ cases'[c].phase = (IF parent = Zero THEN "TERMINAL" ELSE cases[c].phase)
  /\ cases'[c].family = cases[c].family
  /\ cases'[c].headActionId = parent
  /\ \A d \in CaseIds \ {c} : cases'[d] = cases[d]
  /\ custody' = custody

\* A pop keeps heads, cases and live effects together.
LEMMA PopKeeps ==
  ASSUME TypeOK, HeadsOwned, LiveBelongs, CasesOwn,
         NEW kind \in Overlay, NEW s \in Accounts, NEW c \in CaseIds,
         NEW aid \in ActionIds, NEW parent, Pops(kind, s, c, aid, parent)
  PROVE  HeadsOwned' /\ LiveBelongs' /\ CasesOwn'
<1>1. /\ cases[c].phase = "OPEN" /\ cases[c].family = kind
      /\ cases[c].headActionId = aid
  <2>1. HeadOf(kind, s) = aid /\ aid # Zero /\ actions[aid].caseId = c
    BY DEF Pops
  <2> QED
    BY <2>1, HeadFacts
<1>2. parent # Zero => /\ parent \in ActionIds /\ parent # aid
                       /\ actions[parent].lifecycle = "APPLIED"
                       /\ actions[parent].action = kind
                       /\ actions[parent].subject = s
                       /\ actions[parent].caseId = c
                       /\ actions'[parent] = actions[parent]
  BY DEF Pops, LiveBelongs, LiveEffects
<1>3. ASSUME NEW k \in Overlay, NEW t \in Accounts, <<k, t>> # <<kind, s>>,
             HeadOf(k, t) # Zero
      PROVE  /\ HeadOf(k, t) # aid /\ actions[HeadOf(k, t)].caseId # c
             /\ HeadOf(k, t)' = HeadOf(k, t)
  <2> DEFINE h == HeadOf(k, t)
  <2>1. /\ actions[h].action = k /\ actions[h].subject = t
        /\ cases[actions[h].caseId].headActionId = h
    BY <1>3, HeadFacts
  <2>2. h # aid /\ h' = h
    BY <1>3, <2>1 DEF Pops
  <2> QED
    BY <1>1, <2>1, <2>2
<1>4. HeadsOwned'
  <2> SUFFICES ASSUME NEW k \in Overlay, NEW t \in Accounts, HeadOf(k, t)' # Zero
               PROVE  OwnedHead(k, t, HeadOf(k, t))'
    BY DEF HeadsOwned
  <2>1. CASE <<k, t>> = <<kind, s>>
    <3>1. HeadOf(k, t)' = parent /\ parent # Zero
      BY <2>1 DEF Pops
    <3>2. /\ cases'[c].phase = "OPEN" /\ cases'[c].family = kind
          /\ cases'[c].headActionId = parent
      BY <1>1, <3>1 DEF Pops
    <3> QED
      BY <1>2, <2>1, <3>1, <3>2 DEF OwnedHead, LiveEffects
  <2>2. CASE <<k, t>> # <<kind, s>>
    <3> DEFINE h == HeadOf(k, t)
    <3>1. h' = h /\ h # Zero /\ h # aid /\ actions[h].caseId # c
      BY <1>3, <2>2 DEF Pops
    <3>2. OwnedHead(k, t, h) /\ h \in ActionIds /\ actions[h].caseId \in CaseIds
      BY <3>1, HeadFacts DEF HeadsOwned
    <3>3. actions'[h] = actions[h] /\ cases'[actions[h].caseId] = cases[actions[h].caseId]
      BY <3>1, <3>2 DEF Pops
    <3> HIDE DEF h
    <3>4. OwnedHead(k, t, h)'
      BY <3>1, <3>2, <3>3 DEF OwnedHead, LiveEffects
    <3> QED
      BY <3>4 DEF h
  <2> QED
    BY <2>1, <2>2
<1>5. LiveBelongs'
  <2> SUFFICES ASSUME NEW k \in Overlay, NEW t \in Accounts,
                      NEW a \in LiveEffects(k, t)'
               PROVE  /\ HeadOf(k, t)' # Zero
                      /\ actions'[a].caseId = actions'[HeadOf(k, t)'].caseId
    BY DEF LiveBelongs
  <2>1. a \in LiveEffects(k, t) /\ a # aid /\ actions'[a] = actions[a]
    BY DEF Pops, LiveEffects
  <2>2. HeadOf(k, t) # Zero /\ actions[a].caseId = actions[HeadOf(k, t)].caseId
    BY <2>1 DEF LiveBelongs
  <2>3. CASE <<k, t>> = <<kind, s>>
    <3>1. parent # Zero /\ HeadOf(k, t)' = parent /\ actions[a].caseId = c
      BY <2>1, <2>2, <2>3 DEF Pops
    <3> QED
      BY <1>2, <2>1, <3>1
  <2>4. CASE <<k, t>> # <<kind, s>>
    <3>1. HeadOf(k, t)' = HeadOf(k, t) /\ HeadOf(k, t) # aid /\ HeadOf(k, t) \in ActionIds
      BY <1>3, <2>2, <2>4, HeadFacts
    <3>2. actions'[HeadOf(k, t)] = actions[HeadOf(k, t)]
      BY <3>1 DEF Pops
    <3> QED
      BY <2>1, <2>2, <3>1, <3>2
  <2> QED
    BY <2>3, <2>4
<1>6. CasesOwn'
  <2> SUFFICES ASSUME NEW d \in CaseIds PROVE CaseOwns(d)'
    BY DEF CasesOwn
  <2>1. CASE d = c
    <3>1. ~ custody'[c].active
      BY <1>1 DEF Pops, CasesOwn, CaseOwns, Overlay
    <3>2. CASE parent = Zero
      BY <2>1, <3>1, <3>2 DEF Pops, CaseOwns
    <3>3. CASE parent # Zero
      <4>1. /\ cases'[c].phase = "OPEN" /\ cases'[c].family = kind
            /\ cases'[c].headActionId = parent /\ HeadOf(kind, s)' = parent
        BY <1>1, <3>3 DEF Pops
      <4>2. OpenHead(c, parent)'
        BY <1>2, <3>3, <4>1 DEF OpenHead, HeadOf
      <4> QED
        BY <2>1, <3>1, <4>1, <4>2 DEF CaseOwns
    <3> QED
      BY <3>2, <3>3
  <2>2. CASE d # c
    <3>1. cases'[d] = cases[d] /\ custody'[d] = custody[d] /\ CaseOwns(d)
      BY <2>2 DEF Pops, CasesOwn
    <3>2. ASSUME cases[d].phase = "OPEN"
          PROVE  OpenHead(d, cases[d].headActionId)'
      <4> DEFINE h == cases[d].headActionId
      <4>1. OpenHead(d, h)
        BY <3>1, <3>2 DEF CaseOwns
      <4>2. h \in ActionIds /\ h # aid /\ actions'[h] = actions[h] /\ actions[h] \in Action
        BY <2>2, <4>1, RecordOf DEF OpenHead, Pops
      <4>3. ASSUME NEW k \in Overlay, NEW t \in Accounts,
                   k = cases[d].family, t = actions[h].subject, HeadOf(k, t) = h
            PROVE  HeadOf(k, t)' = h
        BY <4>2, <4>3 DEF Pops
      <4>4. h' = h
        BY <3>1
      <4> HIDE DEF h
      <4>5. OpenHead(d, h)'
        <5>1. actions[h].subject \in Accounts
          BY <4>2 DEF Action
        <5> QED
          BY <3>1, <4>1, <4>2, <4>3, <4>4, <5>1 DEF OpenHead, HeadOf
      <4> QED
        BY <3>1, <4>5 DEF h
    <3> QED
      BY <3>1, <3>2 DEF CaseOwns
  <2> QED
    BY <2>1, <2>2
<1> QED
  BY <1>4, <1>5, <1>6

\* What every other command does: no overlay effect comes or goes, and the one
\* case it changes is not open for an overlay.
StepsAside(c) ==
  /\ cases[c].phase = "OPEN" => cases[c].family \notin Overlay
  /\ \A a \in ActionIds :
       \/ actions'[a] = actions[a]
       \/ /\ actions[a].lifecycle = "APPLIED" => actions[a].caseId = c
          /\ actions'[a].lifecycle = "APPLIED" => actions'[a].action \notin Overlay
  /\ \A d \in CaseIds \ {c} : cases'[d] = cases[d] /\ custody'[d] = custody[d]
  /\ UNCHANGED overlayVars

\* Such a step leaves the live effects as they are ...
LEMMA AsideLive ==
  ASSUME TypeOK, HeadsOwned, LiveBelongs, NEW c \in CaseIds, StepsAside(c),
         NEW kind \in Overlay, NEW s \in Accounts
  PROVE  /\ LiveEffects(kind, s)' = LiveEffects(kind, s)
         /\ \A a \in LiveEffects(kind, s) : actions'[a] = actions[a]
<1>1. ASSUME NEW a \in LiveEffects(kind, s) PROVE actions'[a] = actions[a]
  <2>1. HeadOf(kind, s) # Zero /\ actions[a].caseId = actions[HeadOf(kind, s)].caseId
    BY DEF LiveBelongs
  <2>2. actions[a].caseId # c
    BY <2>1, HeadFacts DEF StepsAside
  <2> QED
    BY <2>2 DEF StepsAside, LiveEffects
<1>2. ASSUME NEW a \in LiveEffects(kind, s)' PROVE actions'[a] = actions[a]
  BY DEF StepsAside, LiveEffects
<1>3. LiveEffects(kind, s) \subseteq LiveEffects(kind, s)'
  BY <1>1 DEF LiveEffects
<1>4. LiveEffects(kind, s)' \subseteq LiveEffects(kind, s)
  BY <1>2 DEF LiveEffects
<1> QED
  BY <1>1, <1>3, <1>4

\* ... and keeps the invariant, when it does so for its case.
LEMMA AsideKeeps ==
  ASSUME TypeOK, OverlayInv, NEW c \in CaseIds, StepsAside(c), CaseOwns(c)'
  PROVE  OverlayInv'
<1> USE DEF OverlayInv
<1>1. \A kind \in Overlay, s \in Accounts :
        /\ HeadOf(kind, s)' = HeadOf(kind, s)
        /\ LiveEffects(kind, s)' = LiveEffects(kind, s)
        /\ \A a \in LiveEffects(kind, s) : actions'[a] = actions[a]
  BY AsideLive DEF StepsAside, overlayVars, HeadOf
<1>2. ASSUME NEW kind \in Overlay, NEW s \in Accounts, HeadOf(kind, s) # Zero
      PROVE  /\ HeadOf(kind, s) \in LiveEffects(kind, s)
             /\ actions'[HeadOf(kind, s)] = actions[HeadOf(kind, s)]
             /\ cases'[actions[HeadOf(kind, s)].caseId]
                  = cases[actions[HeadOf(kind, s)].caseId]
  <2>1. HeadOf(kind, s) \in LiveEffects(kind, s)
    BY <1>2 DEF HeadsOwned, OwnedHead
  <2>2. actions[HeadOf(kind, s)].caseId \in CaseIds \ {c}
    BY <1>2, HeadFacts DEF StepsAside
  <2> QED
    BY <1>1, <2>1, <2>2 DEF StepsAside
<1>3. HeadsOwned'
  BY <1>1, <1>2 DEF HeadsOwned, OwnedHead
<1>4. LiveBelongs'
  BY <1>1, <1>2 DEF LiveBelongs
<1>5. CasesOwn'
  <2> SUFFICES ASSUME NEW d \in CaseIds \ {c} PROVE CaseOwns(d)'
    BY DEF CasesOwn
  <2>1. cases'[d] = cases[d] /\ custody'[d] = custody[d] /\ CaseOwns(d)
    BY DEF StepsAside, CasesOwn
  <2>2. ASSUME NEW h \in ActionIds, OpenHead(d, h) PROVE OpenHead(d, h)'
    <3>1. actions'[h] = actions[h]
      BY <2>2 DEF OpenHead, StepsAside
    <3> QED
      BY <2>1, <2>2, <3>1 DEF OpenHead, HeadOf, StepsAside, overlayVars
  <2> QED
    BY <2>1, <2>2 DEF CaseOwns, OpenHead
<1>6. RestrictionsAlone'
  BY <1>1 DEF RestrictionsAlone, StepsAside, overlayVars, Overlay
<1>7. FreezeLevels'
  BY <1>1 DEF FreezeLevels, StepsAside, overlayVars, Overlay
<1>8. FreezeChain'
  <2>1. \A s \in Accounts :
          /\ LiveEffects("FREEZE", s)' = LiveEffects("FREEZE", s)
          /\ \A a \in LiveEffects("FREEZE", s) : actions'[a] = actions[a]
    BY <1>1 DEF Overlay
  <2> QED
    BY <2>1 DEF FreezeChain, StepsAside, overlayVars
<1> QED
  BY <1>3, <1>4, <1>5, <1>6, <1>7, <1>8
-----------------------------------------------------------------------------
(* The effects that push and pop *)

\* A push adds the new effect to those of its subject and changes no other.
LEMMA PushLive ==
  ASSUME NEW kind \in Overlay, NEW s \in Accounts, NEW c, NEW id \in ActionIds,
         Pushes(kind, s, c, id), NEW k \in Overlay, NEW t \in Accounts
  PROVE  /\ LiveEffects(k, t)' = (IF <<k, t>> = <<kind, s>>
                                    THEN LiveEffects(k, t) \cup {id}
                                    ELSE LiveEffects(k, t))
         /\ id \notin LiveEffects(k, t)
         /\ \A a \in LiveEffects(k, t) : actions'[a] = actions[a]
BY DEF Pushes, LiveEffects

\* A pop removes the head from those of its subject.
LEMMA PopLive ==
  ASSUME NEW kind \in Overlay, NEW s \in Accounts, NEW c, NEW aid \in ActionIds,
         NEW parent, Pops(kind, s, c, aid, parent), NEW k \in Overlay, NEW t \in Accounts
  PROVE  /\ LiveEffects(k, t)' = (IF <<k, t>> = <<kind, s>>
                                    THEN LiveEffects(k, t) \ {aid}
                                    ELSE LiveEffects(k, t))
         /\ \A a \in LiveEffects(k, t)' : actions'[a] = actions[a]
<1>1. ASSUME NEW a \in ActionIds PROVE a \in LiveEffects(k, t)' <=>
               a \in LiveEffects(k, t) /\ a # aid
  BY DEF Pops, LiveEffects
<1>2. <<k, t>> # <<kind, s>> => aid \notin LiveEffects(k, t)
  BY DEF Pops, LiveEffects
<1>3. LiveEffects(k, t)' \subseteq ActionIds /\ LiveEffects(k, t) \subseteq ActionIds
  BY DEF LiveEffects
<1>4. \A a \in LiveEffects(k, t)' : actions'[a] = actions[a]
  BY <1>1, <1>3 DEF Pops
<1> QED
  BY <1>1, <1>2, <1>3, <1>4

\* The record an accepted action leaves.
LEMMA RecordedAction ==
  ASSUME TypeOK, NEW id \in ActionIds, NEW req, NEW ctx, RecordAction(id, req, ctx)
  PROVE  /\ actions'[id].lifecycle = "APPLIED" /\ actions'[id].action = req.action
         /\ actions'[id].subject = req.subject /\ actions'[id].source = req.source
         /\ actions'[id].custodian = req.custodian
         /\ actions'[id].amount = req.amount /\ actions'[id].caseId = req.caseId
         /\ actions'[id].priorAmount =
              (IF req.action = "FREEZE" THEN frozen[req.subject] ELSE 0)
         /\ actions'[id].priorFlag = (req.action = "RESTRICT" /\ restricted[req.subject])
         /\ \A a \in ActionIds \ {id} : actions'[a] = actions[a]
BY DEF RecordAction, TypeOK, CommandTypeOK

\* A freeze is a push of the family FREEZE ...
LEMMA FreezePushes ==
  ASSUME TypeOK, NEW id \in ActionIds, NEW req \in ActionRequest, NEW ctx,
         actions[id].lifecycle = "NONE", ActionShape(req), ApplyFreeze(id, req),
         RecordAction(id, req, ctx)
  PROVE  Pushes("FREEZE", req.subject, req.caseId, id)
<1> DEFINE s == req.subject  c == req.caseId
<1>1. s \in Accounts /\ c \in CaseIds
  BY ShapeFacts
<1>2. OverlayAdmissible(c, freezeHeads[s])
  BY DEF ApplyFreeze, ActionShape, FreezeShape, Disposition
<1>3. cases'[c] = OpenOverlay(cases[c], "FREEZE", id)
  BY <1>1 DEF ApplyFreeze, TypeOK, CaseTypeOK
<1>4. \A d \in CaseIds \ {c} : cases'[d] = cases[d]
  BY DEF ApplyFreeze, TypeOK, CaseTypeOK
<1>5. /\ HeadOf("FREEZE", s)' = id
      /\ \A k \in Overlay, t \in Accounts :
           <<k, t>> # <<"FREEZE", s>> => HeadOf(k, t)' = HeadOf(k, t)
  BY <1>1 DEF ApplyFreeze, TypeOK, OverlayTypeOK, HeadOf, PushedHead, Overlay
<1>6. custody' = custody
  BY DEF ApplyFreeze
<1>7. req.action = "FREEZE"
  BY DEF ApplyFreeze
<1> QED
  BY <1>1, <1>2, <1>3, <1>4, <1>5, <1>6, <1>7, RecordedAction
     DEF Pushes, OverlayAdmissible, OpenOverlay, HeadOf

\* ... and a restriction one of the family RESTRICT.
LEMMA RestrictPushes ==
  ASSUME TypeOK, NEW id \in ActionIds, NEW req \in ActionRequest, NEW ctx,
         actions[id].lifecycle = "NONE", ActionShape(req), ApplyRestrict(id, req),
         RecordAction(id, req, ctx)
  PROVE  /\ Pushes("RESTRICT", req.subject, req.caseId, id)
         /\ HeadOf("RESTRICT", req.subject) = Zero
<1> DEFINE s == req.subject  c == req.caseId
<1>1. s \in Accounts /\ c \in CaseIds
  BY ShapeFacts
<1>2. /\ OverlayAdmissible(c, restrictionHeads[s])
      /\ restrictionHeads[s].actionId = Zero
  BY DEF ApplyRestrict, ActionShape, RestrictShape, OverlayAdmissible, Disposition
<1>3. cases'[c] = OpenOverlay(cases[c], "RESTRICT", id)
  BY <1>1 DEF ApplyRestrict, TypeOK, CaseTypeOK
<1>4. \A d \in CaseIds \ {c} : cases'[d] = cases[d]
  BY DEF ApplyRestrict, TypeOK, CaseTypeOK
<1>5. /\ HeadOf("RESTRICT", s)' = id
      /\ \A k \in Overlay, t \in Accounts :
           <<k, t>> # <<"RESTRICT", s>> => HeadOf(k, t)' = HeadOf(k, t)
  BY <1>1 DEF ApplyRestrict, TypeOK, OverlayTypeOK, HeadOf, PushedHead, Overlay
<1>6. custody' = custody
  BY DEF ApplyRestrict
<1>7. req.action = "RESTRICT"
  BY DEF ApplyRestrict
<1> QED
  BY <1>1, <1>2, <1>3, <1>4, <1>5, <1>6, <1>7, RecordedAction
     DEF Pushes, OverlayAdmissible, OpenOverlay, HeadOf
-----------------------------------------------------------------------------
(* Each command keeps the invariant *)

\* FREEZE: the new interval begins where the target in force ends.
LEMMA FreezeKeeps ==
  ASSUME TypeOK, OverlayInv, NEW id \in ActionIds, NEW req \in ActionRequest,
         NEW ctx, actions[id].lifecycle = "NONE", ActionShape(req),
         ApplyFreeze(id, req), RecordAction(id, req, ctx)
  PROVE  OverlayInv'
<1> DEFINE s == req.subject  c == req.caseId  L(t) == LiveEffects("FREEZE", t)
<1>1. /\ s \in Accounts /\ c \in CaseIds /\ req.action = "FREEZE"
      /\ req.amount \in Nat /\ "FREEZE" \in Overlay /\ "RESTRICT" \in Overlay
  BY ShapeFacts DEF ActionRequest, ApplyFreeze, Overlay
<1>2. Pushes("FREEZE", s, c, id)
  BY FreezePushes
<1>3. HeadsOwned' /\ LiveBelongs' /\ CasesOwn'
  BY <1>1, <1>2, PushKeeps DEF OverlayInv
<1>4. /\ actions'[id].amount = req.amount /\ actions'[id].priorAmount = frozen[s]
      /\ actions'[id].caseId = c
  BY <1>1, RecordedAction
<1>5. ASSUME NEW t \in Accounts
      PROVE  /\ L(t)' = IF t = s THEN L(t) \cup {id} ELSE L(t)
             /\ id \notin L(t)
             /\ \A a \in L(t) : actions'[a] = actions[a]
  BY <1>1, <1>2, PushLive
<1>6. /\ frozen' = [frozen EXCEPT ![s] = req.amount]
      /\ effects' = [effects EXCEPT ![id] = EffectOn(freezeHeads[s])]
      /\ freezeHeads' = [freezeHeads EXCEPT ![s] = PushedHead(@, id)]
      /\ UNCHANGED <<restricted, restrictionHeads>>
  BY DEF ApplyFreeze
<1>7. req.amount > frozen[s]
  BY DEF ApplyFreeze, ActionShape, FreezeShape, Disposition
<1>8. /\ frozen \in [Accounts -> Nat] /\ effects \in [ActionIds -> Effect]
      /\ freezeHeads \in [Accounts -> Head]
  BY DEF TypeOK, OverlayTypeOK
<1>9. /\ effects'[id].parentActionId = freezeHeads[s].actionId
      /\ effects'[id].generation = freezeHeads[s].generation + 1
      /\ freezeHeads'[s].actionId = id
      /\ freezeHeads'[s].generation = freezeHeads[s].generation + 1
      /\ freezeHeads[s].generation \in Nat
      /\ \A a \in ActionIds \ {id} : effects'[a] = effects[a]
      /\ \A t \in Accounts \ {s} :
           freezeHeads'[t] = freezeHeads[t] /\ frozen'[t] = frozen[t]
      /\ frozen'[s] = req.amount
  BY <1>1, <1>6, <1>8 DEF EffectOn, PushedHead, Head
<1>10. \A t \in Accounts : \A a \in L(t) :
         a \in ActionIds /\ actions[a].amount \in Nat /\ actions[a].priorAmount \in Nat
  BY RecordOf DEF LiveEffects, Action
<1>11. RestrictionsAlone'
  <2>1. \A t \in Accounts :
          /\ LiveEffects("RESTRICT", t)' = LiveEffects("RESTRICT", t)
          /\ \A a \in LiveEffects("RESTRICT", t) :
               a \in ActionIds \ {id} /\ actions'[a] = actions[a]
          /\ HeadOf("RESTRICT", t)' = HeadOf("RESTRICT", t)
    BY <1>1, <1>2, <1>6, PushLive DEF HeadOf, LiveEffects
  <2> QED
    BY <1>6, <1>9, <2>1 DEF RestrictionsAlone, OverlayInv
<1>12. FreezeLevels'
  <2> SUFFICES ASSUME NEW t \in Accounts
               PROVE  /\ HeadOf("FREEZE", t)' = Zero => frozen'[t] = 0
                      /\ \A a \in L(t)' :
                           /\ actions'[a].amount <= frozen'[t]
                           /\ effects'[a].generation \in 1 .. freezeHeads'[t].generation
                           /\ \A b \in L(t)' \ {a} :
                                \/ actions'[a].amount <= actions'[b].priorAmount
                                \/ actions'[b].amount <= actions'[a].priorAmount
    BY DEF FreezeLevels
  <2>1. CASE t # s
    BY <1>1, <1>5, <1>9, <1>10, <2>1 DEF FreezeLevels, OverlayInv, HeadOf
  <2>2. CASE t = s
    <3>1. HeadOf("FREEZE", t)' # Zero
      BY <1>9, <2>2 DEF HeadOf
    <3>2. ASSUME NEW a \in L(s)
          PROVE  /\ actions[a].amount <= frozen[s] /\ a # id
                 /\ effects[a].generation \in 1 .. freezeHeads[s].generation
                 /\ \A b \in L(s) \ {a} :
                      \/ actions[a].amount <= actions[b].priorAmount
                      \/ actions[b].amount <= actions[a].priorAmount
      BY <1>1, <1>5 DEF FreezeLevels, OverlayInv
    <3>3. ASSUME NEW a \in L(s)' PROVE
            /\ actions'[a].amount <= req.amount
            /\ effects'[a].generation \in 1 .. freezeHeads'[s].generation
      BY <1>1, <1>4, <1>5, <1>7, <1>8, <1>9, <1>10, <3>2
    <3>4. ASSUME NEW a \in L(s)', NEW b \in L(s)' \ {a}
          PROVE  \/ actions'[a].amount <= actions'[b].priorAmount
                 \/ actions'[b].amount <= actions'[a].priorAmount
      BY <1>1, <1>4, <1>5, <3>2, <3>4
    <3> QED
      BY <1>9, <2>2, <3>1, <3>3, <3>4
  <2> QED
    BY <2>1, <2>2
<1>13. FreezeChain'
  <2> DEFINE Chained(t, a) ==
        LET parent == effects[a].parentActionId IN
        /\ IF parent = Zero
             THEN actions[a].priorAmount = 0
             ELSE /\ parent \in L(t)
                  /\ actions[parent].caseId = actions[a].caseId
                  /\ actions[a].priorAmount = actions[parent].amount
        /\ actions[a].priorAmount < actions[a].amount
        /\ IF a = freezeHeads[t].actionId
             THEN frozen[t] = actions[a].amount
             ELSE \E b \in L(t) :
                    /\ effects[b].parentActionId = a
                    /\ effects[b].generation > effects[a].generation
  <2>1. \A t \in Accounts : \A a \in L(t) : Chained(t, a)
    BY DEF OverlayInv, FreezeChain
  <2>2. \A t \in Accounts : \A a \in L(t) : a \in ActionIds \ {id}
    BY <1>5, <1>10
  <2> SUFFICES ASSUME NEW t \in Accounts, NEW a \in L(t)' PROVE Chained(t, a)'
    BY DEF FreezeChain
  <2>3. CASE t # s
    <3>1. L(t)' = L(t) /\ Chained(t, a) /\ a \in L(t)
      BY <1>5, <2>1, <2>3
    <3> QED
      BY <1>5, <1>9, <2>2, <2>3, <3>1
  <2>4. CASE t = s /\ a = id
    <3>1. CASE freezeHeads[s].actionId = Zero
      <4>1. frozen[s] = 0
        BY <1>1, <3>1 DEF OverlayInv, FreezeLevels, HeadOf
      <4> QED
        BY <1>4, <1>7, <1>8, <1>9, <2>4, <3>1, <4>1
    <3>2. CASE freezeHeads[s].actionId # Zero
      <4> DEFINE h == freezeHeads[s].actionId
      <4>1. h \in L(s) /\ actions[h].caseId = c
        BY <1>1, <1>2, <3>2, PushedCase DEF OverlayInv, HeadsOwned, OwnedHead, HeadOf
      <4>2. frozen[s] = actions[h].amount
        BY <1>1, <2>1, <4>1
      <4>3. h # id /\ actions'[h] = actions[h] /\ h \in L(s)'
        BY <1>1, <1>5, <4>1
      <4> QED
        BY <1>4, <1>7, <1>9, <2>4, <3>2, <4>1, <4>2, <4>3
    <3> QED
      BY <3>1, <3>2
  <2>5. CASE t = s /\ a # id
    <3>1. a \in L(s) /\ Chained(s, a) /\ a \in ActionIds /\ actions'[a] = actions[a]
      BY <1>1, <1>5, <2>1, <2>2, <2>5
    <3>2. effects'[a] = effects[a]
      BY <1>9, <2>5, <3>1
    <3>3. LET parent == effects'[a].parentActionId IN
          /\ IF parent = Zero
               THEN actions'[a].priorAmount = 0
               ELSE /\ parent \in L(s)'
                    /\ actions'[parent].caseId = actions'[a].caseId
                    /\ actions'[a].priorAmount = actions'[parent].amount
          /\ actions'[a].priorAmount < actions'[a].amount
      BY <1>1, <1>5, <3>1, <3>2
    <3>4. \E b \in L(s)' :
            /\ effects'[b].parentActionId = a
            /\ effects'[b].generation > effects'[a].generation
      <4>1. CASE a = freezeHeads[s].actionId
        <5>1. effects[a].generation \in 1 .. freezeHeads[s].generation
          BY <1>1, <3>1 DEF OverlayInv, FreezeLevels
        <5>2. id \in L(s)'
          BY <1>1, <1>5
        <5> QED
          BY <1>9, <3>2, <4>1, <5>1, <5>2
      <4>2. CASE a # freezeHeads[s].actionId
        <5>1. PICK b \in L(s) : /\ effects[b].parentActionId = a
                                /\ effects[b].generation > effects[a].generation
          BY <3>1, <4>2
        <5>2. b \in L(s)' /\ effects'[b] = effects[b]
          BY <1>1, <1>5, <1>9, <2>2, <5>1
        <5> QED
          BY <3>2, <5>1, <5>2
      <4> QED
        BY <4>1, <4>2
    <3> QED
      BY <1>9, <2>5, <3>3, <3>4
  <2> QED
    BY <2>3, <2>4, <2>5
<1> QED
  BY <1>3, <1>11, <1>12, <1>13 DEF OverlayInv

\* RESTRICT: the first and only effect of its subject and case.
LEMMA RestrictKeeps ==
  ASSUME TypeOK, OverlayInv, NEW id \in ActionIds, NEW req \in ActionRequest,
         NEW ctx, actions[id].lifecycle = "NONE", ActionShape(req),
         ApplyRestrict(id, req), RecordAction(id, req, ctx)
  PROVE  OverlayInv'
<1> DEFINE s == req.subject  c == req.caseId
<1>1. /\ s \in Accounts /\ c \in CaseIds /\ req.action = "RESTRICT"
      /\ "FREEZE" \in Overlay /\ "RESTRICT" \in Overlay
  BY ShapeFacts DEF ApplyRestrict, Overlay
<1>2. Pushes("RESTRICT", s, c, id) /\ HeadOf("RESTRICT", s) = Zero
  BY RestrictPushes
<1>3. HeadsOwned' /\ LiveBelongs' /\ CasesOwn'
  BY <1>1, <1>2, PushKeeps DEF OverlayInv
<1>4. /\ restricted' = [restricted EXCEPT ![s] = TRUE]
      /\ effects' = [effects EXCEPT ![id] = EffectOn(restrictionHeads[s])]
      /\ restrictionHeads' = [restrictionHeads EXCEPT ![s] = PushedHead(@, id)]
      /\ UNCHANGED <<frozen, freezeHeads>>
  BY DEF ApplyRestrict
<1>5. /\ restricted \in [Accounts -> BOOLEAN] /\ effects \in [ActionIds -> Effect]
      /\ restrictionHeads \in [Accounts -> Head]
  BY DEF TypeOK, OverlayTypeOK
<1>6. /\ effects'[id].parentActionId = Zero /\ effects'[id].generation # 0
      /\ \A a \in ActionIds \ {id} : effects'[a] = effects[a]
  BY <1>1, <1>2, <1>4, <1>5 DEF EffectOn, Head, HeadOf
<1>7. restricted[s] = FALSE
  BY <1>1, <1>2 DEF OverlayInv, RestrictionsAlone
<1>8. ~ actions'[id].priorFlag
  BY <1>1, <1>7, RecordedAction
<1>9. RestrictionsAlone'
  <2> SUFFICES ASSUME NEW t \in Accounts
               PROVE  /\ restricted'[t] = (HeadOf("RESTRICT", t)' # Zero)
                      /\ \A a \in LiveEffects("RESTRICT", t)' :
                           /\ a = HeadOf("RESTRICT", t)'
                           /\ effects'[a].parentActionId = Zero
                           /\ effects'[a].generation # 0
                           /\ ~ actions'[a].priorFlag
    BY DEF RestrictionsAlone
  <2>1. CASE t = s
    <3>1. LiveEffects("RESTRICT", s) = {}
      BY <1>1, <1>2 DEF OverlayInv, LiveBelongs
    <3>2. LiveEffects("RESTRICT", s)' = {id}
      BY <1>1, <1>2, <3>1, PushLive
    <3>3. HeadOf("RESTRICT", s)' = id /\ restricted'[s] = TRUE
      BY <1>1, <1>2, <1>4, <1>5 DEF Pushes
    <3> QED
      BY <1>6, <1>8, <2>1, <3>2, <3>3
  <2>2. CASE t # s
    <3>1. /\ LiveEffects("RESTRICT", t)' = LiveEffects("RESTRICT", t)
          /\ \A a \in LiveEffects("RESTRICT", t) :
               a \in ActionIds \ {id} /\ actions'[a] = actions[a]
          /\ HeadOf("RESTRICT", t)' = HeadOf("RESTRICT", t)
          /\ restricted'[t] = restricted[t]
      BY <1>1, <1>2, <1>4, <1>5, <2>2, PushLive DEF Pushes, LiveEffects
    <3> QED
      BY <1>6, <3>1 DEF OverlayInv, RestrictionsAlone
  <2> QED
    BY <2>1, <2>2
<1>10. \A t \in Accounts :
         /\ LiveEffects("FREEZE", t)' = LiveEffects("FREEZE", t)
         /\ \A a \in LiveEffects("FREEZE", t) :
              a \in ActionIds /\ actions'[a] = actions[a] /\ effects'[a] = effects[a]
  BY <1>1, <1>2, <1>6, PushLive DEF LiveEffects
<1>11. FreezeLevels'
  BY <1>4, <1>10 DEF OverlayInv, FreezeLevels, HeadOf
<1>12. FreezeChain'
  BY <1>4, <1>10 DEF OverlayInv, FreezeChain
<1> QED
  BY <1>3, <1>9, <1>11, <1>12 DEF OverlayInv

\* SEIZE: a fresh case becomes an open custody case, headed by the seizure.
LEMMA SeizeKeeps ==
  ASSUME TypeOK, OverlayInv, NEW id \in ActionIds, NEW req \in ActionRequest,
         NEW ctx, actions[id].lifecycle = "NONE", ActionShape(req),
         ApplySeize(id, req), RecordAction(id, req, ctx)
  PROVE  OverlayInv'
<1> DEFINE c == req.caseId
<1>1. /\ c \in CaseIds /\ req.source \in Accounts /\ req.custodian \in Accounts
      /\ req.action = "SEIZE"
  BY ShapeFacts DEF ApplySeize
<1>2. cases[c].phase = "NONE"
  BY <1>1 DEF ActionShape, NotTerminal, SeizeShape, Disposition, TypeOK, CaseTypeOK, Case
<1>3. /\ cases' = [cases EXCEPT ![c] = [phase |-> "OPEN", family |-> "CUSTODY",
                     headActionId |-> id, generation |-> @.generation + 1]]
      /\ custody' = [custody EXCEPT ![c] =
                       [custodian |-> req.custodian,
                        declaredPriorHolder |-> req.source,
                        encumberedAmount |-> req.amount,
                        actionId |-> id, active |-> TRUE]]
      /\ UNCHANGED overlayVars
  BY DEF ApplySeize
<1>4. cases \in [CaseIds -> Case] /\ custody \in [CaseIds -> Custody]
  BY DEF TypeOK, CaseTypeOK
<1>5. /\ actions'[id].lifecycle = "APPLIED" /\ actions'[id].action = "SEIZE"
      /\ actions'[id].caseId = c /\ actions'[id].custodian = req.custodian
      /\ actions'[id].source = req.source /\ actions'[id].amount = req.amount
      /\ \A a \in ActionIds \ {id} : actions'[a] = actions[a]
  BY <1>1, RecordedAction
<1>6. StepsAside(c)
  BY <1>2, <1>3, <1>4, <1>5 DEF StepsAside, Overlay
<1>7. CaseOwns(c)'
  <2>1. /\ cases'[c].phase = "OPEN" /\ cases'[c].family = "CUSTODY"
        /\ cases'[c].headActionId = id
        /\ custody'[c].custodian = req.custodian
        /\ custody'[c].declaredPriorHolder = req.source
        /\ custody'[c].encumberedAmount = req.amount
        /\ custody'[c].actionId = id /\ custody'[c].active
    BY <1>1, <1>3, <1>4
  <2>2. OpenHead(c, id)'
    BY <1>1, <1>5, <2>1 DEF OpenHead
  <2> QED
    BY <2>1, <2>2 DEF CaseOwns
<1> QED
  BY <1>1, <1>6, <1>7, AsideKeeps

\* A case that is not open for an overlay is left behind closed, with no active
\* custody.
LEMMA CloseKeeps ==
  ASSUME TypeOK, OverlayInv, NEW c \in CaseIds, StepsAside(c),
         cases'[c].phase = "TERMINAL", cases'[c].headActionId = Zero,
         ~ custody'[c].active
  PROVE  OverlayInv'
<1>1. CaseOwns(c)'
  BY DEF CaseOwns
<1> QED
  BY <1>1, AsideKeeps

\* CONFISCATE, LIQUIDATE, RECOVER: only a custody case or a fresh one is closed.
LEMMA DispositionKeeps ==
  ASSUME TypeOK, OverlayInv, NEW id \in ActionIds, NEW req \in ActionRequest,
         NEW ctx, actions[id].lifecycle = "NONE", ActionShape(req),
         ApplyDisposition(id, req), RecordAction(id, req, ctx)
  PROVE  OverlayInv'
<1> DEFINE c == req.caseId
<1>1. c \in CaseIds /\ req.action \in Disposition
  BY ShapeFacts DEF ApplyDisposition
<1>2. /\ cases[c] \in Case /\ custody[c] \in Custody
      /\ cases \in [CaseIds -> Case] /\ custody \in [CaseIds -> Custody]
  BY <1>1 DEF TypeOK, CaseTypeOK
<1>3. cases[c].phase = "OPEN" => cases[c].family = "CUSTODY"
  BY <1>1 DEF ActionShape, DispositionShape, Disposition
<1>4. /\ actions'[id].lifecycle = "APPLIED" /\ actions'[id].action = req.action
      /\ \A a \in ActionIds \ {id} : actions'[a] = actions[a]
  BY RecordedAction
<1>5. UNCHANGED overlayVars
  BY DEF ApplyDisposition
<1> HIDE DEF c
<1>6. CASE custody[c].active
  <2>1. /\ cases' = [cases EXCEPT ![c] = CloseCase(@)]
        /\ custody' = [custody EXCEPT ![c] = Closed(@)]
    BY <1>6 DEF ApplyDisposition, c
  <2>2. /\ cases'[c].phase = "TERMINAL" /\ cases'[c].headActionId = Zero
        /\ ~ custody'[c].active
        /\ \A d \in CaseIds \ {c} : cases'[d] = cases[d] /\ custody'[d] = custody[d]
    BY <1>1, <1>2, <2>1 DEF CloseCase, Closed, Case, Custody
  <2>3. StepsAside(c)
    BY <1>1, <1>3, <1>4, <1>5, <2>2 DEF StepsAside, Overlay, Disposition
  <2> QED
    BY <1>1, <2>2, <2>3, CloseKeeps
<1>7. CASE ~ custody[c].active
  <2>1. /\ cases' = [cases EXCEPT ![c] = CloseCase([@ EXCEPT !.family = "DISPOSITION"])]
        /\ custody' = custody
    BY <1>7 DEF ApplyDisposition, c
  <2>2. /\ cases'[c].phase = "TERMINAL" /\ cases'[c].headActionId = Zero
        /\ ~ custody'[c].active
        /\ \A d \in CaseIds \ {c} : cases'[d] = cases[d] /\ custody'[d] = custody[d]
    BY <1>1, <1>2, <1>7, <2>1 DEF CloseCase, Case
  <2>3. StepsAside(c)
    BY <1>1, <1>3, <1>4, <1>5, <2>2 DEF StepsAside, Overlay, Disposition
  <2> QED
    BY <1>1, <2>2, <2>3, CloseKeeps
<1> QED
  BY <1>6, <1>7

\* What a reversal records of the action it reverses.
LEMMA RecordedReversal ==
  ASSUME TypeOK, NEW rid, NEW aid \in ActionIds, NEW reversal, NEW ctx,
         ReversalAdmissible(aid, reversal), RecordReversal(rid, aid, reversal, ctx)
  PROVE  /\ actions[aid] \in Action /\ actions[aid].lifecycle = "APPLIED"
         /\ actions'[aid].lifecycle = "REVERSED"
         /\ \A a \in ActionIds \ {aid} : actions'[a] = actions[a]
<1>1. actions[aid] \in Action /\ actions[aid].lifecycle = "APPLIED"
  BY ReversedActionType DEF ReversalAdmissible
<1> QED
  BY <1>1 DEF RecordReversal, Reversed, Action, TypeOK, CommandTypeOK

\* UNFREEZE: the target falls back to where the head's interval begins, which
\* is where that of its parent ends.
LEMMA UnfreezeKeeps ==
  ASSUME TypeOK, OverlayInv, NEW rid, NEW aid \in ActionIds, NEW ctx,
         ReversalAdmissible(aid, "UNFREEZE"), ApplyUnfreeze(aid),
         UNCHANGED effects, RecordReversal(rid, aid, "UNFREEZE", ctx)
  PROVE  OverlayInv'
<1> DEFINE L(t) == LiveEffects("FREEZE", t)
<1>0. PICK s, c, parent : /\ s = actions[aid].subject /\ c = actions[aid].caseId
                          /\ parent = effects[aid].parentActionId
  OBVIOUS
<1> USE <1>0
<1>1. /\ actions[aid].lifecycle = "APPLIED" /\ actions[aid].action = "FREEZE"
      /\ s \in Accounts /\ c \in CaseIds
      /\ actions[aid].amount \in Nat /\ actions[aid].priorAmount \in Nat
      /\ freezeHeads[s].actionId = aid /\ frozen[s] = actions[aid].amount
      /\ "FREEZE" \in Overlay /\ "RESTRICT" \in Overlay
  <2>1. actions[aid] \in Action
    BY RecordedReversal
  <2>2. actions[aid].action = "FREEZE"
    BY DEF ReversalAdmissible, ReversalMatches
  <2> QED
    BY <2>1, <2>2 DEF Action, ReversalAdmissible, CurrentEffect, Overlay
<1>2. /\ actions'[aid].lifecycle = "REVERSED"
      /\ \A a \in ActionIds \ {aid} : actions'[a] = actions[a]
  BY RecordedReversal
<1>3. \A t \in Accounts : \A a \in L(t) :
        /\ a \in ActionIds /\ actions[a] \in Action
        /\ actions[a].amount \in Nat /\ actions[a].priorAmount \in Nat
  BY RecordOf DEF LiveEffects, Action
<1>4. aid \in L(s)
  BY <1>1 DEF LiveEffects
<1>5. \A t \in Accounts : \A a \in L(t) :
        /\ IF effects[a].parentActionId = Zero
             THEN actions[a].priorAmount = 0
             ELSE /\ effects[a].parentActionId \in L(t)
                  /\ actions[effects[a].parentActionId].caseId = actions[a].caseId
                  /\ actions[a].priorAmount = actions[effects[a].parentActionId].amount
        /\ actions[a].priorAmount < actions[a].amount
        /\ IF a = freezeHeads[t].actionId
             THEN frozen[t] = actions[a].amount
             ELSE \E b \in L(t) :
                    /\ effects[b].parentActionId = a
                    /\ effects[b].generation > effects[a].generation
  BY DEF OverlayInv, FreezeChain
<1>6. \A a \in L(s) \ {aid} : actions[a].amount <= actions[aid].priorAmount
  <2> SUFFICES ASSUME NEW a \in L(s) \ {aid}
               PROVE  actions[a].amount <= actions[aid].priorAmount
    OBVIOUS
  <2>1. \/ actions[a].amount <= actions[aid].priorAmount
        \/ actions[aid].amount <= actions[a].priorAmount
    BY <1>1, <1>4 DEF OverlayInv, FreezeLevels
  <2>2. /\ actions[a].amount <= actions[aid].amount
        /\ actions[a].priorAmount < actions[a].amount
    BY <1>1, <1>5 DEF OverlayInv, FreezeLevels
  <2> QED
    BY <1>1, <1>3, <2>1, <2>2
<1>7. /\ IF parent = Zero THEN actions[aid].priorAmount = 0
         ELSE parent \in L(s) /\ actions[aid].priorAmount = actions[parent].amount
      /\ actions[aid].priorAmount < actions[aid].amount
  <2>1. effects[aid].parentActionId = parent
    OBVIOUS
  <2> QED
    BY <1>4, <1>5, <1>1, <2>1
<1>8. IF parent = Zero THEN L(s) = {aid} ELSE parent \in L(s) \ {aid}
  <2>1. CASE parent = Zero
    <3>1. actions[aid].priorAmount = 0
      BY <1>7, <2>1
    <3>2. ASSUME NEW a \in L(s) \ {aid} PROVE FALSE
      BY <1>1, <1>3, <1>5, <1>6, <3>1
    <3> QED
      BY <1>4, <2>1, <3>2
  <2>2. CASE parent # Zero
    <3>1. parent \in L(s) /\ actions[aid].priorAmount = actions[parent].amount
      BY <1>7, <2>2
    <3>2. parent # aid
      BY <1>1, <1>7, <3>1
    <3> QED
      BY <2>2, <3>1, <3>2
  <2> QED
    BY <2>1, <2>2
<1>9. /\ frozen' = [frozen EXCEPT ![s] = actions[aid].priorAmount]
      /\ freezeHeads' = [freezeHeads EXCEPT ![s] = PoppedHead(@, effects[aid])]
      /\ cases' = [cases EXCEPT ![c] =
                     IF parent # Zero THEN FallBack(@, parent) ELSE CloseCase(@)]
      /\ UNCHANGED <<restricted, restrictionHeads, custody>>
  BY DEF ApplyUnfreeze
<1>10. /\ frozen \in [Accounts -> Nat] /\ freezeHeads \in [Accounts -> Head]
       /\ cases \in [CaseIds -> Case]
  BY DEF TypeOK, OverlayTypeOK, CaseTypeOK
<1>11. /\ freezeHeads'[s].actionId = parent
       /\ freezeHeads'[s].generation = freezeHeads[s].generation + 1
       /\ freezeHeads[s].generation \in Nat
       /\ frozen'[s] = actions[aid].priorAmount
       /\ \A t \in Accounts \ {s} :
            freezeHeads'[t] = freezeHeads[t] /\ frozen'[t] = frozen[t]
  BY <1>1, <1>9, <1>10 DEF PoppedHead, Head
<1>12. Pops("FREEZE", s, c, aid, parent)
  <2>1. /\ cases'[c].phase = (IF parent = Zero THEN "TERMINAL" ELSE cases[c].phase)
        /\ cases'[c].family = cases[c].family /\ cases'[c].headActionId = parent
        /\ \A d \in CaseIds \ {c} : cases'[d] = cases[d]
    BY <1>1, <1>9, <1>10 DEF FallBack, CloseCase, Case
  <2>2. /\ HeadOf("FREEZE", s) = aid /\ HeadOf("FREEZE", s)' = parent
        /\ \A k \in Overlay, t \in Accounts :
             <<k, t>> # <<"FREEZE", s>> => HeadOf(k, t)' = HeadOf(k, t)
    BY <1>1, <1>9, <1>11 DEF HeadOf, Overlay
  <2> QED
    BY <1>1, <1>2, <1>8, <1>9, <2>1, <2>2 DEF Pops
<1>13. HeadsOwned' /\ LiveBelongs' /\ CasesOwn'
  BY <1>1, <1>12, PopKeeps DEF OverlayInv
<1>14. ASSUME NEW t \in Accounts
       PROVE  /\ L(t)' = IF t = s THEN L(t) \ {aid} ELSE L(t)
              /\ \A a \in L(t)' : a \in ActionIds /\ actions'[a] = actions[a]
  <2>1. L(t)' \subseteq ActionIds
    BY DEF LiveEffects
  <2> QED
    BY <1>1, <1>12, <2>1, PopLive
<1>15. RestrictionsAlone'
  <2>1. \A t \in Accounts :
          /\ LiveEffects("RESTRICT", t)' = LiveEffects("RESTRICT", t)
          /\ \A a \in LiveEffects("RESTRICT", t) : actions'[a] = actions[a]
          /\ HeadOf("RESTRICT", t)' = HeadOf("RESTRICT", t)
    BY <1>1, <1>9, <1>12, PopLive DEF HeadOf
  <2> QED
    BY <1>9, <2>1 DEF RestrictionsAlone, OverlayInv
<1>16. FreezeLevels'
  <2> SUFFICES ASSUME NEW t \in Accounts
               PROVE  /\ HeadOf("FREEZE", t)' = Zero => frozen'[t] = 0
                      /\ \A a \in L(t)' :
                           /\ actions'[a].amount <= frozen'[t]
                           /\ effects'[a].generation \in 1 .. freezeHeads'[t].generation
                           /\ \A b \in L(t)' \ {a} :
                                \/ actions'[a].amount <= actions'[b].priorAmount
                                \/ actions'[b].amount <= actions'[a].priorAmount
    BY DEF FreezeLevels
  <2>1. /\ HeadOf("FREEZE", t) = Zero => frozen[t] = 0
        /\ \A a \in L(t) :
             /\ actions[a].amount <= frozen[t]
             /\ effects[a].generation \in 1 .. freezeHeads[t].generation
             /\ \A b \in L(t) \ {a} :
                  \/ actions[a].amount <= actions[b].priorAmount
                  \/ actions[b].amount <= actions[a].priorAmount
    BY DEF FreezeLevels, OverlayInv
  <2>2. CASE t # s
    BY <1>1, <1>11, <1>14, <2>1, <2>2 DEF HeadOf
  <2>3. CASE t = s
    <3>1. parent = Zero => frozen'[s] = 0
      BY <1>1, <1>7, <1>11
    <3>2. ASSUME NEW a \in L(s)' PROVE
            /\ actions'[a].amount <= frozen'[s]
            /\ effects'[a].generation \in 1 .. freezeHeads'[s].generation
      <4>1. a \in L(s) \ {aid} /\ actions'[a] = actions[a]
        BY <1>1, <1>14
      <4>2. effects[a].generation \in 1 .. freezeHeads[s].generation
        BY <2>1, <2>3, <4>1
      <4> QED
        BY <1>6, <1>11, <4>1, <4>2
    <3>3. ASSUME NEW a \in L(s)', NEW b \in L(s)' \ {a}
          PROVE  \/ actions'[a].amount <= actions'[b].priorAmount
                 \/ actions'[b].amount <= actions'[a].priorAmount
      BY <1>1, <1>14, <2>1, <2>3, <3>3
    <3> QED
      BY <1>11, <2>3, <3>1, <3>2, <3>3 DEF HeadOf
  <2> QED
    BY <2>2, <2>3
<1>17. FreezeChain'
  <2> DEFINE Chained(t, a) ==
        LET above == effects[a].parentActionId IN
        /\ IF above = Zero
             THEN actions[a].priorAmount = 0
             ELSE /\ above \in L(t)
                  /\ actions[above].caseId = actions[a].caseId
                  /\ actions[a].priorAmount = actions[above].amount
        /\ actions[a].priorAmount < actions[a].amount
        /\ IF a = freezeHeads[t].actionId
             THEN frozen[t] = actions[a].amount
             ELSE \E b \in L(t) :
                    /\ effects[b].parentActionId = a
                    /\ effects[b].generation > effects[a].generation
  <2> SUFFICES ASSUME NEW t \in Accounts, NEW a \in L(t)' PROVE Chained(t, a)'
    BY DEF FreezeChain
  <2>1. a \in L(t) /\ Chained(t, a) /\ actions'[a] = actions[a]
    BY <1>5, <1>14
  <2>2. CASE t # s
    BY <1>11, <1>14, <2>1, <2>2
  <2>3. CASE t = s
    <3>1. a # aid
      BY <1>1, <1>14, <2>3
    <3>2. effects[a].parentActionId # aid
      <4>1. ASSUME effects[a].parentActionId = aid PROVE FALSE
        <5>1. actions[a].priorAmount = actions[aid].amount
          BY <2>1, <4>1
        <5>2. actions[a].amount <= actions[aid].priorAmount
          BY <1>6, <2>1, <2>3, <3>1
        <5>3. actions[a].priorAmount < actions[a].amount
          BY <2>1
        <5>4. actions[aid].priorAmount < actions[aid].amount
          BY <1>1, <1>4, <1>5
        <5> QED
          BY <1>1, <1>3, <2>1, <5>1, <5>2, <5>3, <5>4
      <4> QED
        BY <4>1
    <3>3. IF effects'[a].parentActionId = Zero
            THEN actions'[a].priorAmount = 0
            ELSE /\ effects'[a].parentActionId \in L(t)'
                 /\ actions'[effects'[a].parentActionId].caseId = actions'[a].caseId
                 /\ actions'[a].priorAmount = actions'[effects'[a].parentActionId].amount
      BY <1>14, <2>1, <2>3, <3>2
    <3>4. CASE a = parent
      <4>1. actions[aid].priorAmount = actions[parent].amount
        BY <1>3, <1>7, <2>1, <3>4
      <4> QED
        BY <1>11, <2>1, <2>3, <3>3, <3>4, <4>1
    <3>5. CASE a # parent
      <4>1. PICK b \in L(t) : /\ effects[b].parentActionId = a
                              /\ effects[b].generation > effects[a].generation
        BY <1>1, <2>1, <2>3, <3>1
      <4>2. b # aid
        BY <3>5, <4>1
      <4>3. b \in L(t)'
        BY <1>14, <2>3, <4>1, <4>2
      <4> QED
        BY <1>11, <2>1, <2>3, <3>3, <3>5, <4>1, <4>3
    <3> QED
      BY <3>4, <3>5
  <2> QED
    BY <2>2, <2>3
<1> QED
  BY <1>13, <1>15, <1>16, <1>17 DEF OverlayInv

\* UNRESTRICT: the only effect of its subject goes, and the flag with it.
LEMMA UnrestrictKeeps ==
  ASSUME TypeOK, OverlayInv, NEW rid, NEW aid \in ActionIds, NEW ctx,
         ReversalAdmissible(aid, "UNRESTRICT"), ApplyUnrestrict(aid),
         UNCHANGED effects, RecordReversal(rid, aid, "UNRESTRICT", ctx)
  PROVE  OverlayInv'
<1>0. PICK s, c : s = actions[aid].subject /\ c = actions[aid].caseId
  OBVIOUS
<1> USE <1>0
<1>1. /\ actions[aid].lifecycle = "APPLIED" /\ actions[aid].action = "RESTRICT"
      /\ s \in Accounts /\ c \in CaseIds
      /\ restrictionHeads[s].actionId = aid
      /\ "FREEZE" \in Overlay /\ "RESTRICT" \in Overlay
  <2>1. actions[aid] \in Action
    BY RecordedReversal
  <2>2. actions[aid].action = "RESTRICT"
    BY DEF ReversalAdmissible, ReversalMatches
  <2> QED
    BY <2>1, <2>2 DEF Action, ReversalAdmissible, CurrentEffect, Overlay
<1>2. /\ actions'[aid].lifecycle = "REVERSED"
      /\ \A a \in ActionIds \ {aid} : actions'[a] = actions[a]
  BY RecordedReversal
<1>3. LiveEffects("RESTRICT", s) = {aid}
  <2>1. aid \in LiveEffects("RESTRICT", s)
    BY <1>1 DEF LiveEffects
  <2>2. \A a \in LiveEffects("RESTRICT", s) : a = aid
    BY <1>1 DEF OverlayInv, RestrictionsAlone, HeadOf
  <2> QED
    BY <2>1, <2>2
<1>4. effects[aid].parentActionId = Zero /\ ~ actions[aid].priorFlag
  BY <1>1, <1>3 DEF OverlayInv, RestrictionsAlone
<1>5. /\ restricted' = [restricted EXCEPT ![s] = actions[aid].priorFlag]
      /\ restrictionHeads' = [restrictionHeads EXCEPT ![s] = PoppedHead(@, effects[aid])]
      /\ cases' = [cases EXCEPT ![c] = CloseCase(@)]
      /\ UNCHANGED <<frozen, freezeHeads, custody>>
  BY DEF ApplyUnrestrict
<1>6. /\ restricted \in [Accounts -> BOOLEAN] /\ restrictionHeads \in [Accounts -> Head]
      /\ cases \in [CaseIds -> Case]
  BY DEF TypeOK, OverlayTypeOK, CaseTypeOK
<1>7. Pops("RESTRICT", s, c, aid, Zero)
  <2>1. /\ cases'[c].phase = "TERMINAL" /\ cases'[c].family = cases[c].family
        /\ cases'[c].headActionId = Zero
        /\ \A d \in CaseIds \ {c} : cases'[d] = cases[d]
    BY <1>1, <1>5, <1>6 DEF CloseCase, Case
  <2>2. /\ HeadOf("RESTRICT", s) = aid /\ HeadOf("RESTRICT", s)' = Zero
        /\ \A k \in Overlay, t \in Accounts :
             <<k, t>> # <<"RESTRICT", s>> => HeadOf(k, t)' = HeadOf(k, t)
    BY <1>1, <1>4, <1>5, <1>6 DEF HeadOf, Overlay, PoppedHead
  <2> QED
    BY <1>1, <1>2, <1>3, <1>5, <2>1, <2>2 DEF Pops
<1>8. HeadsOwned' /\ LiveBelongs' /\ CasesOwn'
  BY <1>1, <1>7, PopKeeps DEF OverlayInv
<1>9. RestrictionsAlone'
  <2> SUFFICES ASSUME NEW t \in Accounts
               PROVE  /\ restricted'[t] = (HeadOf("RESTRICT", t)' # Zero)
                      /\ \A a \in LiveEffects("RESTRICT", t)' :
                           /\ a = HeadOf("RESTRICT", t)'
                           /\ effects'[a].parentActionId = Zero
                           /\ effects'[a].generation # 0
                           /\ ~ actions'[a].priorFlag
    BY DEF RestrictionsAlone
  <2>1. CASE t = s
    <3>1. LiveEffects("RESTRICT", s)' = {}
      BY <1>1, <1>3, <1>7, PopLive
    <3>2. HeadOf("RESTRICT", s)' = Zero /\ restricted'[s] = FALSE
      BY <1>1, <1>4, <1>5, <1>6, <1>7 DEF Pops
    <3> QED
      BY <2>1, <3>1, <3>2
  <2>2. CASE t # s
    <3>1. /\ LiveEffects("RESTRICT", t)' = LiveEffects("RESTRICT", t)
          /\ \A a \in LiveEffects("RESTRICT", t) : actions'[a] = actions[a]
          /\ HeadOf("RESTRICT", t)' = HeadOf("RESTRICT", t)
          /\ restricted'[t] = restricted[t]
      BY <1>1, <1>5, <1>6, <1>7, <2>2, PopLive DEF Pops
    <3> QED
      BY <3>1 DEF OverlayInv, RestrictionsAlone
  <2> QED
    BY <2>1, <2>2
<1>10. \A t \in Accounts :
         /\ LiveEffects("FREEZE", t)' = LiveEffects("FREEZE", t)
         /\ \A a \in LiveEffects("FREEZE", t) : actions'[a] = actions[a]
  BY <1>1, <1>7, PopLive
<1>11. FreezeLevels'
  BY <1>5, <1>10 DEF OverlayInv, FreezeLevels, HeadOf
<1>12. FreezeChain'
  BY <1>5, <1>10 DEF OverlayInv, FreezeChain
<1> QED
  BY <1>8, <1>9, <1>11, <1>12 DEF OverlayInv

\* RELEASE: an open custody case is closed with its record.
LEMMA ReleaseKeeps ==
  ASSUME TypeOK, OverlayInv, NEW rid, NEW aid \in ActionIds, NEW ctx,
         ReversalAdmissible(aid, "RELEASE"), ApplyRelease(aid),
         UNCHANGED effects, RecordReversal(rid, aid, "RELEASE", ctx)
  PROVE  OverlayInv'
<1>0. PICK c : c = actions[aid].caseId
  OBVIOUS
<1> USE <1>0
<1>1. /\ actions[aid] \in Action /\ actions'[aid].lifecycle = "REVERSED"
      /\ \A a \in ActionIds \ {aid} : actions'[a] = actions[a]
  BY RecordedReversal
<1>2. actions[aid].action = "SEIZE"
  BY DEF ReversalAdmissible, ReversalMatches
<1>3. c \in CaseIds /\ custody[c].active
  BY <1>1, <1>2 DEF Action, ReversalAdmissible, CurrentEffect
<1>4. cases[c].phase = "OPEN" /\ cases[c].family = "CUSTODY"
  BY <1>3 DEF OverlayInv, CasesOwn, CaseOwns
<1>5. /\ cases' = [cases EXCEPT ![c] = CloseCase(@)]
      /\ custody' = [custody EXCEPT ![c] = Closed(@)]
      /\ UNCHANGED overlayVars
  BY DEF ApplyRelease, overlayVars
<1>6. cases \in [CaseIds -> Case] /\ custody \in [CaseIds -> Custody]
  BY DEF TypeOK, CaseTypeOK
<1>7. /\ cases'[c].phase = "TERMINAL" /\ cases'[c].headActionId = Zero
      /\ ~ custody'[c].active
      /\ \A d \in CaseIds \ {c} : cases'[d] = cases[d] /\ custody'[d] = custody[d]
  BY <1>3, <1>5, <1>6 DEF CloseCase, Closed, Case, Custody
<1>8. StepsAside(c)
  BY <1>1, <1>4, <1>5, <1>7 DEF StepsAside, Overlay
<1> QED
  BY <1>3, <1>7, <1>8, CloseKeeps

\* executeRegulatoryAction and executeRegulatoryReversal.
LEMMA CommandKeeps == ASSUME TypeOK, OverlayInv, CommandStep PROVE OverlayInv'
<1>1. ASSUME NEW id \in ActionIds, ExecuteRegulatoryAction(id) PROVE OverlayInv'
  <2>1. PICK ctx \in Contexts, req \in Requests :
          /\ ActionShape(req)
          /\ \/ ApplyFreeze(id, req)
             \/ ApplyRestrict(id, req)
             \/ ApplySeize(id, req)
             \/ ApplyDisposition(id, req)
          /\ RecordAction(id, req, ctx)
    BY <1>1 DEF ExecuteRegulatoryAction
  <2>2. req \in ActionRequest /\ actions[id].lifecycle = "NONE"
    BY <1>1 DEF ExecuteRegulatoryAction
  <2> QED
    BY <2>1, <2>2, FreezeKeeps, RestrictKeeps, SeizeKeeps, DispositionKeeps
<1>2. ASSUME NEW rid \in ReversalIds, ExecuteRegulatoryReversal(rid) PROVE OverlayInv'
  <2>1. PICK ctx \in Contexts, aid \in ActionIds, reversal \in ReversalKind :
          /\ ReversalAdmissible(aid, reversal)
          /\ \/ reversal = "UNFREEZE" /\ ApplyUnfreeze(aid)
             \/ reversal = "UNRESTRICT" /\ ApplyUnrestrict(aid)
             \/ reversal = "RELEASE" /\ ApplyRelease(aid)
          /\ RecordReversal(rid, aid, reversal, ctx)
    BY <1>2 DEF ExecuteRegulatoryReversal
  <2>2. UNCHANGED effects
    BY <1>2 DEF ExecuteRegulatoryReversal
  <2> QED
    BY <2>1, <2>2, UnfreezeKeeps, UnrestrictKeeps, ReleaseKeeps
<1> QED
  BY <1>1, <1>2 DEF CommandStep

\* The invariant is inductive.
LEMMA NextOverlay == TypeOK /\ OverlayInv /\ [Next]_vars => OverlayInv'
<1> SUFFICES ASSUME TypeOK, OverlayInv, [Next]_vars PROVE OverlayInv'
  OBVIOUS
<1>1. CASE UNCHANGED <<overlayVars, cases, custody, actions>>
  <2>1. UNCHANGED <<frozen, restricted, freezeHeads, restrictionHeads, effects,
                    cases, custody, actions>>
    BY <1>1 DEF overlayVars
  <2>2. \A kind, s : /\ LiveEffects(kind, s)' = LiveEffects(kind, s)
                     /\ HeadOf(kind, s)' = HeadOf(kind, s)
    BY <2>1 DEF LiveEffects, HeadOf
  <2>3. HeadsOwned' /\ LiveBelongs'
    BY <2>1, <2>2 DEF OverlayInv, HeadsOwned, LiveBelongs, OwnedHead
  <2>4. CasesOwn'
    BY <2>1 DEF OverlayInv, CasesOwn, CaseOwns, OpenHead, HeadOf
  <2>5. RestrictionsAlone' /\ FreezeLevels' /\ FreezeChain'
    BY <2>1, <2>2 DEF OverlayInv, RestrictionsAlone, FreezeLevels, FreezeChain
  <2> QED
    BY <2>3, <2>4, <2>5 DEF OverlayInv
<1>2. TokenStep \/ GovernanceStep \/ EnvironmentStep =>
        UNCHANGED <<overlayVars, cases, custody, actions>>
  BY DEF TokenStep, Transfer, TransferFrom, OrdinaryTransfer, Approve,
     GovernanceStep, ConfigureAuthority, RebindDependency, EnvironmentStep,
     DependencyDrifts, Tick, caseVars, commandVars
<1>3. UNCHANGED vars => UNCHANGED <<overlayVars, cases, custody, actions>>
  BY DEF vars, caseVars, commandVars
<1> QED
  BY <1>1, <1>2, <1>3, CommandKeeps DEF Next

\* Nothing is live and no case is open after the constructor.
LEMMA InitOverlay == Init => OverlayInv
<1> SUFFICES ASSUME Init PROVE OverlayInv
  OBVIOUS
<1>1. \A kind \in Overlay, s \in Accounts :
        LiveEffects(kind, s) = {} /\ HeadOf(kind, s) = Zero
  BY DEF Init, LiveEffects, NoAction, HeadOf, NoHead
<1>2. HeadsOwned /\ LiveBelongs
  BY <1>1 DEF HeadsOwned, LiveBelongs
<1>3. CasesOwn
  BY DEF Init, CasesOwn, CaseOwns, NoCase, NoCustody
<1>4. RestrictionsAlone /\ FreezeLevels /\ FreezeChain
  BY <1>1 DEF Init, RestrictionsAlone, FreezeLevels, FreezeChain, Overlay
<1> QED
  BY <1>2, <1>3, <1>4 DEF OverlayInv

\* The records of subjects, effects and cases agree in every reachable state.
THEOREM RecordsAgree == Spec => []OverlayInv
BY InitOverlay, NextOverlay, TypeCorrect, PTL DEF Spec

\* Every subject has at most one live head per overlay family, which is that of
\* one open case, and no state left behind without one (_pushEffect, _popEffect,
\* _requireOverlayAdmissible).
THEOREM HeadsAreOwned == Spec => []HeadOwnership
<1>1. OverlayInv => HeadOwnership
  <2> SUFFICES ASSUME OverlayInv, NEW s \in Accounts
               PROVE  /\ IF freezeHeads[s].actionId = Zero
                           THEN LiveEffects("FREEZE", s) = {} /\ frozen[s] = 0
                           ELSE OwnedHead("FREEZE", s, freezeHeads[s].actionId)
                      /\ IF restrictionHeads[s].actionId = Zero
                           THEN LiveEffects("RESTRICT", s) = {} /\ ~ restricted[s]
                           ELSE /\ OwnedHead("RESTRICT", s, restrictionHeads[s].actionId)
                                /\ restricted[s]
    BY DEF HeadOwnership
  <2>1. /\ HeadOf("FREEZE", s) = freezeHeads[s].actionId
        /\ HeadOf("RESTRICT", s) = restrictionHeads[s].actionId
        /\ "FREEZE" \in Overlay /\ "RESTRICT" \in Overlay
    BY DEF HeadOf, Overlay
  <2>2. \A kind \in Overlay :
          IF HeadOf(kind, s) = Zero THEN LiveEffects(kind, s) = {}
                                    ELSE OwnedHead(kind, s, HeadOf(kind, s))
    BY DEF OverlayInv, HeadsOwned, LiveBelongs
  <2>3. HeadOf("FREEZE", s) = Zero => frozen[s] = 0
    BY DEF OverlayInv, FreezeLevels
  <2>4. restricted[s] = (HeadOf("RESTRICT", s) # Zero)
    BY DEF OverlayInv, RestrictionsAlone
  <2> QED
    BY <2>1, <2>2, <2>3, <2>4
<1> QED
  BY <1>1, RecordsAgree, PTL

\* The live freezes of a subject are one growing chain from nothing to the
\* target in force, so that a reversal restores what its parent had set.
THEOREM FreezesChain == Spec => []FreezeChain
<1>1. OverlayInv => FreezeChain
  BY DEF OverlayInv
<1> QED
  BY <1>1, RecordsAgree, PTL
=============================================================================
