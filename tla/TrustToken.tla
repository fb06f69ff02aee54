----------------------------- MODULE TrustToken -----------------------------
(***************************************************************************)
(* The native ERC-TRUST endpoint (implementation/src/TrustToken.sol and    *)
(* its storage).  One action is one transaction: the EVM is atomic and the *)
(* state-changing entrypoints are nonReentrant, so a failed call is a      *)
(* stuttering step and what is interleaved is whole transactions of token  *)
(* holders, authorities and the governor, changes of the bound dependency  *)
(* contracts, and the block clock.                                         *)
(*                                                                         *)
(* A hash is modelled by its injectivity: identifiers are opaque, the      *)
(* dependency root is the very tuple of bindings it commits to.            *)
(*                                                                         *)
(* Definitions named Faulty... are not part of the model: each is a        *)
(* plausible slip in the definition that follows it, kept to show which    *)
(* property would notice.                                                  *)
(***************************************************************************)
EXTENDS Integers, FiniteSets, FiniteSetsExt

CONSTANTS
  Zero,               \* the zero address and the zero word
  Accounts,           \* non-zero addresses that hold tokens
  MaxUint,            \* type(uint256).max
  Supply,             \* initialSupply
  InitialHolder,
  CaseIds,
  ActionIds,          \* identifiers of action requests ...
  ReversalIds,        \* ... and of reversal requests
  Requests,           \* the action request bodies a caller may submit
  Amounts,            \* values of ordinary transfers
  ApprovalValues,     \* values of approve
  AuthorityRefs,
  AuthorityEpochs,    \* authority epochs a request may name
  InitialAuthorityRef,
  InitialAuthority,
  Nonces,
  Entitlements,
  Windows,            \* validity windows a request may carry
  MaxTime,            \* bound on the block clock
  Dependencies,       \* addresses of dependency contracts
  InitialDependency,  \* the dependency first bound to each kind
  Codes,              \* runtime code hashes of dependencies
  Configs,            \* configuration digests of dependencies
  GovernanceIds,      \* governance authorization identifiers
  GovernanceNonces

Overlay == {"FREEZE", "RESTRICT"}
Disposition == {"CONFISCATE", "LIQUIDATE", "RECOVER"}
ActionKind == Overlay \cup {"SEIZE"} \cup Disposition
ReversalKind == {"UNFREEZE", "RELEASE", "UNRESTRICT"}
BindingKind == {"POLICY", "IDENTITY", "SETTLEMENT", "ENTITLEMENT"}
Address == Accounts \cup {Zero}

ActionRequest ==
  [action: ActionKind, subject: Address, source: Address,
   destination: Address, custodian: Address, amount: 0 .. MaxUint,
   caseId: CaseIds \cup {Zero}, settlement: BOOLEAN, proceeds: BOOLEAN,
   entitlement: Entitlements \cup {Zero}]

ASSUME ZeroAssumption ==
  /\ Zero \notin Accounts
  /\ Zero \notin CaseIds
  /\ Zero \notin ActionIds
  /\ Zero \notin Entitlements
  /\ Zero \notin Dependencies
  /\ Zero \notin Codes
  /\ Zero \notin Configs

ASSUME DeploymentAssumption ==
  /\ MaxUint \in Nat
  /\ Supply \in 0 .. MaxUint
  /\ InitialHolder \in Accounts
  /\ InitialAuthorityRef \in AuthorityRefs
  /\ InitialAuthority \in Accounts
  /\ InitialDependency \in [BindingKind -> Dependencies]

ASSUME InputAssumption ==
  /\ Requests \subseteq ActionRequest
  /\ Amounts \subseteq 0 .. MaxUint
  /\ ApprovalValues \subseteq 0 .. MaxUint
  /\ AuthorityEpochs \subseteq Nat
  /\ Windows \subseteq [validAfter: Nat, validBefore: Nat]
  /\ MaxTime \in Nat

ASSUME IdentifierAssumption ==
  /\ ActionIds \cap ReversalIds = {}
  /\ "SETTLEMENT" \notin Entitlements

\* Addresses and identifiers are words of fixed width.
ASSUME FinitenessAssumption ==
  /\ IsFiniteSet(Accounts)
  /\ IsFiniteSet(CaseIds)
  /\ IsFiniteSet(AuthorityRefs)

VARIABLES
  balances, allowances, frozen, restricted, custodyBacking,
  freezeHeads, restrictionHeads, actions, effects, receipts, cases,
  custody, consumedEntitlements, usedNonces,
  authorities, usedGovernanceIds,
  bindings, dependencyRoot, dependencyEpoch,
  rootLog,      \* the (root, epoch) pairs of every TrustDependencyChanged event
  deployed,     \* what is deployed at each dependency address (environment)
  blockTime     \* block.timestamp (environment)

ledgerVars == <<balances, custodyBacking>>
overlayVars == <<frozen, restricted, freezeHeads, restrictionHeads, effects>>
caseVars == <<cases, custody, consumedEntitlements>>
commandVars == <<actions, receipts, usedNonces>>
dependencyVars == <<bindings, dependencyRoot, dependencyEpoch, rootLog>>
governanceVars == <<authorities, usedGovernanceIds, dependencyVars>>
environmentVars == <<deployed, blockTime>>
vars == <<ledgerVars, allowances, overlayVars, caseVars, commandVars,
          governanceVars, environmentVars>>
-----------------------------------------------------------------------------
(* Dependency bindings (TrustDependencyBinding.sol) *)

Version == [code: Codes \cup {Zero}, config: Configs \cup {Zero}]

\* A dependency can be bound when it has code and answers its digest.
Bindable(v) == v.code # Zero /\ v.config # Zero

FaultyBindingOf(d, epoch) == \* every binding of a kind has epoch 1
  [dependency |-> d, code |-> deployed[d].code,
   config |-> deployed[d].config, epoch |-> 1]
BindingOf(d, epoch) == [dependency |-> d, code |-> deployed[d].code,
                        config |-> deployed[d].config, epoch |-> epoch]

FaultyLive(kind) == \* a change of configuration goes unnoticed
  deployed[bindings[kind].dependency].code = bindings[kind].code

\* The bound code hash still stands and the digest read now is the bound one.
Live(kind) ==
  LET b == bindings[kind]
      v == deployed[b.dependency]
  IN  v.code = b.code /\ v.config # Zero /\ v.config = b.config

\* keccak over the four binding hashes in kind order, each of which commits
\* to the whole binding.
RootOf(bs) == bs

\* The dependencies an action consults.
ConsultedByAction(req) ==
  {"POLICY"}
    \cup (IF req.destination # Zero THEN {"IDENTITY"} ELSE {})
    \cup (IF req.action = "LIQUIDATE" THEN {"SETTLEMENT"} ELSE {})
    \cup (IF req.action = "RECOVER" THEN {"ENTITLEMENT"} ELSE {})

\* Every consulted dependency is live; that each also answers APPLICABLE in
\* the required form is the choice between this step and no step.
Assessed(kinds) == \A k \in kinds : Live(k)

\* Evidence is produced by the dependency, hence by the code and
\* configuration that answered.
EvidenceOf(kinds) == [k \in kinds |-> deployed[bindings[k].dependency]]
-----------------------------------------------------------------------------
(* Request envelopes: _validateAndAuthorizeAction / ...Reversal *)

Contexts ==
  [authorityRef: AuthorityRefs, authorityEpoch: AuthorityEpochs,
   nonce: Nonces, dependencies: rootLog, window: Windows,
   provenance: BOOLEAN, caller: Accounts]

WithinWindow(w) ==
  w.validAfter <= blockTime /\ w.validBefore # 0 /\ blockTime <= w.validBefore

FaultyRequireAuthority(ref, epoch, caller) == \* a retired epoch will do
  authorities[ref].epoch >= epoch /\ authorities[ref].active
    /\ authorities[ref].account = caller
RequireAuthority(ref, epoch, caller) ==
  LET auth == authorities[ref]
  IN  auth.epoch = epoch /\ auth.active /\ auth.account = caller

NonceOf(ctx) == <<ctx.authorityRef, ctx.authorityEpoch, ctx.nonce>>
FaultyRequireFreshNonce(ctx) == TRUE
RequireFreshNonce(ctx) == NonceOf(ctx) \notin usedNonces

CurrentDependencies(ctx) ==
  ctx.dependencies = [root |-> dependencyRoot, epoch |-> dependencyEpoch]

Authorised(ctx) ==
  /\ WithinWindow(ctx.window)
  /\ RequireAuthority(ctx.authorityRef, ctx.authorityEpoch, ctx.caller)
  /\ CurrentDependencies(ctx)
  /\ RequireFreshNonce(ctx)
  /\ ctx.provenance

ConsumeNonce(ctx) == usedNonces \cup {NonceOf(ctx)}
-----------------------------------------------------------------------------
(* Per-action field rules and the case table: _validateActionShape *)

FaultyNotTerminal(caseId) == TRUE
NotTerminal(caseId) == cases[caseId].phase # "TERMINAL"

FaultyOverlayAdmissible(caseId, head) == \* any case may stack on a live head
  head.actionId = Zero => cases[caseId].phase = "NONE"

\* _requireOverlayAdmissible: open a fresh case, or amend the case that owns
\* the subject's live head.
OverlayAdmissible(caseId, head) ==
  IF head.actionId = Zero THEN cases[caseId].phase = "NONE"
                          ELSE cases[caseId].headActionId = head.actionId

FreezeShape(req) ==
  /\ req.source = req.subject /\ req.destination = Zero /\ req.custodian = Zero
  /\ OverlayAdmissible(req.caseId, freezeHeads[req.subject])
  /\ req.amount > frozen[req.subject]

RestrictShape(req) ==
  LET head == restrictionHeads[req.subject] IN
  /\ req.source = req.subject /\ req.destination = Zero /\ req.custodian = Zero
  /\ req.amount = 0
  /\ ~ (head.actionId # Zero /\ cases[req.caseId].headActionId = head.actionId)
  /\ OverlayAdmissible(req.caseId, head)

ForcedTransferShape(req) ==
  /\ req.source # Zero /\ req.destination # Zero
  /\ req.source # req.destination
  /\ req.amount # 0

FaultySeizeShape(req) == \* a second seizure overwrites the custody record
  /\ ForcedTransferShape(req)
  /\ req.subject = req.source
  /\ req.custodian # Zero /\ req.destination = req.custodian

SeizeShape(req) ==
  /\ ForcedTransferShape(req)
  /\ req.subject = req.source
  /\ req.custodian # Zero /\ req.destination = req.custodian
  /\ cases[req.caseId].phase # "OPEN"

FaultyDispositionShape(req) == \* disposes in a case that is open for an overlay
  /\ ForcedTransferShape(req)
  /\ req.custodian = Zero
  /\ cases[req.caseId].family # "CUSTODY" => req.subject = req.source

DispositionShape(req) ==
  /\ ForcedTransferShape(req)
  /\ req.custodian = Zero
  /\ IF cases[req.caseId].phase = "OPEN"
       THEN cases[req.caseId].family = "CUSTODY"
       ELSE req.subject = req.source

\* Only a liquidation carries settlement and proceeds, only a recovery an
\* entitlement, and that one not yet consumed.
CommitmentShape(req) ==
  /\ req.settlement = (req.action = "LIQUIDATE")
  /\ req.proceeds = (req.action = "LIQUIDATE")
  /\ (req.entitlement # Zero) = (req.action = "RECOVER")
  /\ req.entitlement \notin consumedEntitlements

ActionShape(req) ==
  /\ req.subject # Zero /\ req.caseId # Zero
  /\ NotTerminal(req.caseId)
  /\ \/ req.action = "FREEZE" /\ FreezeShape(req)
     \/ req.action = "RESTRICT" /\ RestrictShape(req)
     \/ req.action = "SEIZE" /\ SeizeShape(req)
     \/ req.action \in Disposition /\ DispositionShape(req)
  /\ CommitmentShape(req)

ReversalMatches(action, reversal) ==
  <<action, reversal>> \in {<<"FREEZE", "UNFREEZE">>, <<"SEIZE", "RELEASE">>,
                            <<"RESTRICT", "UNRESTRICT">>}
-----------------------------------------------------------------------------
(* Ledger and custody helpers *)

FaultyMove(from, to, amount) == \* both balances read before either is written
  [balances EXCEPT ![from] = @ - amount, ![to] = balances[to] + amount]

\* _move: the balances are written one after the other, so that a transfer to
\* oneself changes nothing.
Move(from, to, amount) ==
  LET debited == [balances EXCEPT ![from] = @ - amount]
  IN  [debited EXCEPT ![to] = @ + amount]

FaultyOrdinaryAvailable(a) == \* the frozen target may cover the backing
  LET taken == IF frozen[a] > custodyBacking[a] THEN frozen[a] ELSE custodyBacking[a]
  IN  IF taken >= balances[a] THEN 0 ELSE balances[a] - taken

\* _ordinaryAvailable: what is neither custody backing nor frozen.
OrdinaryAvailable(a) ==
  LET own == balances[a] - custodyBacking[a]
  IN  IF custodyBacking[a] >= balances[a] \/ frozen[a] >= own
        THEN 0
        ELSE own - frozen[a]

CanSend(a) == a # Zero /\ ~ restricted[a]
CanReceive(a) == a # Zero /\ ~ restricted[a]

FaultyRequireUnbacked(a, amount) == amount <= balances[a]

\* _requireUnbacked: custody backing of other cases may not be drawn on.
RequireUnbacked(a, amount) ==
  custodyBacking[a] <= balances[a] /\ amount <= balances[a] - custodyBacking[a]

\* _consumeMatchingCustody: the whole record and nothing but it.
CustodyMatches(req) ==
  LET held == custody[req.caseId] IN
  /\ held.custodian = req.source
  /\ held.encumberedAmount = req.amount
  /\ held.declaredPriorHolder = req.subject
  /\ held.encumberedAmount <= custodyBacking[held.custodian]

FaultyClosed(held) == held
Closed(held) == [held EXCEPT !.active = FALSE, !.encumberedAmount = 0]

FaultyEffectOn(head) == \* generations start from zero
  [parentActionId |-> head.actionId, generation |-> head.generation]

\* _pushEffect and _popEffect on a subject's head
EffectOn(head) ==
  [parentActionId |-> head.actionId, generation |-> head.generation + 1]
PushedHead(head, id) == [actionId |-> id, generation |-> head.generation + 1]
PoppedHead(head, effect) ==
  [actionId |-> effect.parentActionId, generation |-> head.generation + 1]

\* _openOverlay and _closeCase, each followed by the step's generation += 1
OpenOverlay(case, family, id) ==
  [phase |-> IF case.phase = "NONE" THEN "OPEN" ELSE case.phase,
   family |-> IF case.phase = "NONE" THEN family ELSE case.family,
   headActionId |-> id, generation |-> case.generation + 1]
FaultyCloseCase(case) == \* closing is not counted
  [case EXCEPT !.phase = "TERMINAL", !.headActionId = Zero]
CloseCase(case) ==
  [case EXCEPT !.phase = "TERMINAL", !.headActionId = Zero, !.generation = @ + 1]

\* The reversal of an amendment hands the case back to its parent.
FallBack(case, parent) ==
  [case EXCEPT !.headActionId = parent, !.generation = @ + 1]

\* The part of _observation that belongs to the case, before a step and after.
Observation(caseId) == [case |-> cases[caseId], custody |-> custody[caseId]]
ObservationAfter(caseId) == [case |-> cases'[caseId], custody |-> custody'[caseId]]
-----------------------------------------------------------------------------
(* executeRegulatoryAction: validation, assessment, consumption and          *)
(* application in one transaction.                                           *)

ApplyFreeze(id, req) ==
  LET s == req.subject IN
  /\ req.action = "FREEZE"
  /\ effects' = [effects EXCEPT ![id] = EffectOn(freezeHeads[s])]
  /\ freezeHeads' = [freezeHeads EXCEPT ![s] = PushedHead(@, id)]
  /\ frozen' = [frozen EXCEPT ![s] = req.amount]
  /\ cases' = [cases EXCEPT ![req.caseId] = OpenOverlay(@, "FREEZE", id)]
  /\ UNCHANGED <<ledgerVars, restricted, restrictionHeads, custody,
                 consumedEntitlements>>

ApplyRestrict(id, req) ==
  LET s == req.subject IN
  /\ req.action = "RESTRICT"
  /\ effects' = [effects EXCEPT ![id] = EffectOn(restrictionHeads[s])]
  /\ restrictionHeads' = [restrictionHeads EXCEPT ![s] = PushedHead(@, id)]
  /\ restricted' = [restricted EXCEPT ![s] = TRUE]
  /\ cases' = [cases EXCEPT ![req.caseId] = OpenOverlay(@, "RESTRICT", id)]
  /\ UNCHANGED <<ledgerVars, frozen, freezeHeads, custody,
                 consumedEntitlements>>

ApplySeize(id, req) ==
  /\ req.action = "SEIZE"
  /\ RequireUnbacked(req.source, req.amount)
  /\ req.amount <= balances[req.source]
  /\ balances' = Move(req.source, req.custodian, req.amount)
  /\ custody' = [custody EXCEPT ![req.caseId] =
                   [custodian |-> req.custodian,
                    declaredPriorHolder |-> req.source,
                    encumberedAmount |-> req.amount,
                    actionId |-> id, active |-> TRUE]]
  /\ custodyBacking' = [custodyBacking EXCEPT ![req.custodian] = @ + req.amount]
  /\ cases' = [cases EXCEPT ![req.caseId] =
                 [phase |-> "OPEN", family |-> "CUSTODY",
                  headActionId |-> id, generation |-> @.generation + 1]]
  /\ UNCHANGED <<overlayVars, consumedEntitlements>>

\* CONFISCATE, LIQUIDATE and RECOVER: out of the case's custody when it has an
\* active record, from the holder's unencumbered tokens otherwise.
ApplyDisposition(id, req) ==
  LET held == custody[req.caseId] IN
  /\ req.action \in Disposition
  /\ IF held.active
       THEN /\ CustodyMatches(req)
            /\ custodyBacking' =
                 [custodyBacking EXCEPT ![held.custodian] = @ - held.encumberedAmount]
            /\ custody' = [custody EXCEPT ![req.caseId] = Closed(@)]
            /\ cases' = [cases EXCEPT ![req.caseId] = CloseCase(@)]
       ELSE /\ RequireUnbacked(req.source, req.amount)
            /\ cases' = [cases EXCEPT ![req.caseId] =
                           CloseCase([@ EXCEPT !.family = "DISPOSITION"])]
            /\ UNCHANGED <<custodyBacking, custody>>
  /\ req.amount <= balances[req.source]
  /\ balances' = Move(req.source, req.destination, req.amount)
  /\ consumedEntitlements' =
       consumedEntitlements \cup
         (IF req.action = "RECOVER" THEN {req.entitlement} ELSE {})
  /\ UNCHANGED overlayVars

\* The commitment of a liquidation to its settlement and proceeds, or the
\* entitlement of a recovery.
ExternalCommitment(req) ==
  IF req.action = "LIQUIDATE" THEN "SETTLEMENT" ELSE req.entitlement

\* The action record, its receipt and the consumed nonce; the observations
\* are taken before and after the effect.
RecordAction(id, req, ctx) ==
  /\ actions' = [actions EXCEPT ![id] =
       [action |-> req.action, lifecycle |-> "APPLIED",
        subject |-> req.subject, source |-> req.source,
        destination |-> req.destination, custodian |-> req.custodian,
        amount |-> req.amount,
        priorAmount |-> IF req.action = "FREEZE" THEN frozen[req.subject] ELSE 0,
        priorFlag |-> req.action = "RESTRICT" /\ restricted[req.subject],
        caseId |-> req.caseId, authorityRef |-> ctx.authorityRef,
        authorityEpoch |-> ctx.authorityEpoch,
        dependencyEpoch |-> ctx.dependencies.epoch]]
  /\ receipts' = [receipts EXCEPT ![id] =
       [receiptKind |-> "ACTION", commandKind |-> req.action,
        parentCommandId |-> Zero, subject |-> req.subject,
        source |-> req.source, destination |-> req.destination,
        amount |-> req.amount, caseId |-> req.caseId,
        authorityRef |-> ctx.authorityRef,
        dependencyRoot |-> ctx.dependencies.root,
        assessmentEvidence |-> EvidenceOf(ConsultedByAction(req)),
        preState |-> Observation(req.caseId),
        postState |-> ObservationAfter(req.caseId),
        externalCommitment |-> ExternalCommitment(req)]]
  /\ usedNonces' = ConsumeNonce(ctx)

ExecuteRegulatoryAction(id) ==
  /\ actions[id].lifecycle = "NONE"
  /\ \E ctx \in Contexts :
       /\ Authorised(ctx)
       /\ \E req \in Requests :
            /\ ActionShape(req)
            /\ Assessed(ConsultedByAction(req))
            /\ \/ ApplyFreeze(id, req)
               \/ ApplyRestrict(id, req)
               \/ ApplySeize(id, req)
               \/ ApplyDisposition(id, req)
            /\ RecordAction(id, req, ctx)
  /\ UNCHANGED <<allowances, governanceVars, environmentVars>>
-----------------------------------------------------------------------------
(* executeRegulatoryReversal *)

FaultyCurrentEffect(aid) == \* any live effect, not only the head
  LET held == custody[actions[aid].caseId] IN
  actions[aid].action = "SEIZE" =>
    /\ held.active
    /\ held.actionId = aid
    /\ held.encumberedAmount <= custodyBacking[held.custodian]

\* _validateCurrentEffect: only the live head of an overlay, or the active
\* custody record, as it was left by the action to reverse.
CurrentEffect(aid) ==
  LET original == actions[aid]
      held == custody[original.caseId]
  IN  CASE original.action = "FREEZE" ->
             /\ effects[aid].generation # 0
             /\ freezeHeads[original.subject].actionId = aid
             /\ frozen[original.subject] = original.amount
        [] original.action = "RESTRICT" ->
             /\ effects[aid].generation # 0
             /\ restrictionHeads[original.subject].actionId = aid
             /\ restricted[original.subject]
        [] OTHER ->
             /\ held.active
             /\ held.actionId = aid
             /\ held.custodian = original.custodian
             /\ held.declaredPriorHolder = original.source
             /\ held.encumberedAmount = original.amount
             /\ held.encumberedAmount <= custodyBacking[held.custodian]

ReversalAdmissible(aid, reversal) ==
  /\ actions[aid].lifecycle = "APPLIED"
  /\ NotTerminal(actions[aid].caseId)
  /\ ReversalMatches(actions[aid].action, reversal)
  /\ CurrentEffect(aid)

ApplyUnfreeze(aid) ==
  LET s == actions[aid].subject
      parent == effects[aid].parentActionId
  IN  /\ freezeHeads' = [freezeHeads EXCEPT ![s] = PoppedHead(@, effects[aid])]
      /\ frozen' = [frozen EXCEPT ![s] = actions[aid].priorAmount]
      /\ cases' = [cases EXCEPT ![actions[aid].caseId] =
                     IF parent # Zero THEN FallBack(@, parent) ELSE CloseCase(@)]
      /\ UNCHANGED <<ledgerVars, restricted, restrictionHeads, custody>>

ApplyUnrestrict(aid) ==
  LET s == actions[aid].subject IN
  /\ restrictionHeads' =
       [restrictionHeads EXCEPT ![s] = PoppedHead(@, effects[aid])]
  /\ restricted' = [restricted EXCEPT ![s] = actions[aid].priorFlag]
  /\ cases' = [cases EXCEPT ![actions[aid].caseId] = CloseCase(@)]
  /\ UNCHANGED <<ledgerVars, frozen, freezeHeads, custody>>

ApplyRelease(aid) ==
  LET original == actions[aid]
      held == custody[original.caseId]
  IN  /\ original.amount <= balances[held.custodian]
      /\ custodyBacking' =
           [custodyBacking EXCEPT ![held.custodian] = @ - original.amount]
      /\ custody' = [custody EXCEPT ![original.caseId] = Closed(@)]
      /\ balances' =
           Move(held.custodian, held.declaredPriorHolder, original.amount)
      /\ cases' = [cases EXCEPT ![original.caseId] = CloseCase(@)]
      /\ UNCHANGED <<frozen, restricted, freezeHeads, restrictionHeads>>

FaultyReversed(action) == action
Reversed(action) == [action EXCEPT !.lifecycle = "REVERSED"]

RecordReversal(rid, aid, reversal, ctx) ==
  LET original == actions[aid]
      held == custody[original.caseId]
  IN  /\ actions' = [actions EXCEPT ![aid] = Reversed(@)]
      /\ receipts' = [receipts EXCEPT ![rid] =
           [receiptKind |-> "REVERSAL", commandKind |-> reversal,
            parentCommandId |-> aid, subject |-> original.subject,
            source |-> IF reversal = "RELEASE" THEN held.custodian
                                               ELSE original.subject,
            destination |-> IF reversal = "RELEASE"
                              THEN held.declaredPriorHolder
                              ELSE original.subject,
            amount |-> original.amount, caseId |-> original.caseId,
            authorityRef |-> ctx.authorityRef,
            dependencyRoot |-> dependencyRoot,
            assessmentEvidence |-> EvidenceOf({"POLICY"}),
            preState |-> Observation(original.caseId),
            postState |-> ObservationAfter(original.caseId),
            externalCommitment |-> Zero]]
      /\ usedNonces' = ConsumeNonce(ctx)

ExecuteRegulatoryReversal(rid) ==
  /\ receipts[rid].receiptKind = "NONE"
  /\ \E ctx \in Contexts :
       /\ Authorised(ctx)
       /\ \E aid \in ActionIds, reversal \in ReversalKind :
            /\ ReversalAdmissible(aid, reversal)
            /\ Assessed({"POLICY"})
            /\ \/ reversal = "UNFREEZE" /\ ApplyUnfreeze(aid)
               \/ reversal = "UNRESTRICT" /\ ApplyUnrestrict(aid)
               \/ reversal = "RELEASE" /\ ApplyRelease(aid)
            /\ RecordReversal(rid, aid, reversal, ctx)
  /\ UNCHANGED <<allowances, effects, consumedEntitlements,
                 governanceVars, environmentVars>>
-----------------------------------------------------------------------------
(* ERC-20 surface *)

\* _ordinaryTransfer
OrdinaryTransfer(from, to, amount) ==
  /\ from # Zero /\ to # Zero
  /\ amount <= balances[from]
  /\ CanSend(from) /\ CanReceive(to)
  /\ amount <= OrdinaryAvailable(from)
  /\ balances' = Move(from, to, amount)
  /\ UNCHANGED <<custodyBacking, overlayVars, caseVars, commandVars,
                 governanceVars, environmentVars>>

Transfer(from, to, amount) ==
  /\ OrdinaryTransfer(from, to, amount)
  /\ UNCHANGED allowances

\* An allowance of MaxUint is never used up.
TransferFrom(spender, from, to, amount) ==
  LET current == allowances[from][spender] IN
  /\ amount <= current
  /\ allowances' =
       IF current = MaxUint THEN allowances
       ELSE [allowances EXCEPT ![from][spender] = current - amount]
  /\ OrdinaryTransfer(from, to, amount)

Approve(owner, spender, value) ==
  /\ spender # Zero
  /\ allowances' = [allowances EXCEPT ![owner][spender] = value]
  /\ UNCHANGED <<ledgerVars, overlayVars, caseVars, commandVars,
                 governanceVars, environmentVars>>
-----------------------------------------------------------------------------
(* Governance *)

GovernanceKey(nonce) == <<"GOVERNANCE", nonce>>

FaultyConsumeGovernance(gid, nonce) == \* the nonce key is checked, not spent
  /\ gid # Zero
  /\ {gid, GovernanceKey(nonce)} \cap usedGovernanceIds = {}
  /\ usedGovernanceIds' = usedGovernanceIds \cup {gid}

\* _consumeGovernance: identifiers and nonce keys are spent in one set.
ConsumeGovernance(gid, nonce) ==
  /\ gid # Zero
  /\ {gid, GovernanceKey(nonce)} \cap usedGovernanceIds = {}
  /\ usedGovernanceIds' = usedGovernanceIds \cup {gid, GovernanceKey(nonce)}

ConfigureAuthority(ref, account, active, gid, nonce) ==
  /\ ConsumeGovernance(gid, nonce)
  /\ account # Zero
  /\ authorities' = [authorities EXCEPT ![ref] =
       [account |-> account, epoch |-> @.epoch + 1, active |-> active]]
  /\ UNCHANGED <<ledgerVars, allowances, overlayVars, caseVars, commandVars,
                 dependencyVars, environmentVars>>

\* _bind: the dependency is read at the time of binding.
Bind(kind, d, epoch) ==
  /\ d # Zero
  /\ Bindable(deployed[d])
  /\ bindings' = [bindings EXCEPT ![kind] = BindingOf(d, epoch)]

RebindDependency(kind, d, gid, nonce) ==
  /\ ConsumeGovernance(gid, nonce)
  /\ Bind(kind, d, bindings[kind].epoch + 1)
  /\ dependencyEpoch' = dependencyEpoch + 1
  /\ dependencyRoot' = RootOf(bindings')
  /\ rootLog' = rootLog \cup {[root |-> dependencyRoot', epoch |-> dependencyEpoch']}
  /\ UNCHANGED <<ledgerVars, allowances, overlayVars, caseVars, commandVars,
                 authorities, environmentVars>>
-----------------------------------------------------------------------------
(* Environment: dependency contracts change their code or configuration,    *)
(* or go away, and time passes.                                             *)

DependencyDrifts(d) ==
  /\ \E v \in Version : deployed' = [deployed EXCEPT ![d] = v]
  /\ UNCHANGED <<ledgerVars, allowances, overlayVars, caseVars, commandVars,
                 governanceVars, blockTime>>

Tick ==
  /\ blockTime < MaxTime
  /\ blockTime' = blockTime + 1
  /\ UNCHANGED <<ledgerVars, allowances, overlayVars, caseVars, commandVars,
                 governanceVars, deployed>>
-----------------------------------------------------------------------------
NoHead == [actionId |-> Zero, generation |-> 0]
NoEffect == [parentActionId |-> Zero, generation |-> 0]
NoAction == [lifecycle |-> "NONE"]
NoReceipt == [receiptKind |-> "NONE"]
NoCase == [phase |-> "NONE", family |-> "NONE", headActionId |-> Zero,
           generation |-> 0]
NoCustody == [custodian |-> Zero, declaredPriorHolder |-> Zero,
              encumberedAmount |-> 0, actionId |-> Zero, active |-> FALSE]

\* The constructor, run against whatever is deployed at the dependencies.
Init ==
  /\ balances = [a \in Accounts |-> IF a = InitialHolder THEN Supply ELSE 0]
  /\ allowances = [a \in Accounts |-> [b \in Accounts |-> 0]]
  /\ frozen = [a \in Accounts |-> 0]
  /\ restricted = [a \in Accounts |-> FALSE]
  /\ custodyBacking = [a \in Accounts |-> 0]
  /\ freezeHeads = [a \in Accounts |-> NoHead]
  /\ restrictionHeads = [a \in Accounts |-> NoHead]
  /\ actions = [i \in ActionIds |-> NoAction]
  /\ effects = [i \in ActionIds |-> NoEffect]
  /\ receipts = [i \in ActionIds \cup ReversalIds |-> NoReceipt]
  /\ cases = [c \in CaseIds |-> NoCase]
  /\ custody = [c \in CaseIds |-> NoCustody]
  /\ consumedEntitlements = {}
  /\ usedNonces = {}
  /\ authorities = [r \in AuthorityRefs |->
       IF r = InitialAuthorityRef
         THEN [account |-> InitialAuthority, epoch |-> 1, active |-> TRUE]
         ELSE [account |-> Zero, epoch |-> 0, active |-> FALSE]]
  /\ usedGovernanceIds = {}
  /\ deployed \in [Dependencies -> {v \in Version : Bindable(v)}]
  /\ bindings = [k \in BindingKind |-> BindingOf(InitialDependency[k], 1)]
  /\ dependencyRoot = RootOf(bindings)
  /\ dependencyEpoch = 1
  /\ rootLog = {[root |-> dependencyRoot, epoch |-> 1]}
  /\ blockTime = 0

TokenStep ==
  \/ \E from \in Accounts, to \in Address, amount \in Amounts :
       \/ Transfer(from, to, amount)
       \/ \E spender \in Accounts : TransferFrom(spender, from, to, amount)
  \/ \E owner \in Accounts, spender \in Address, value \in ApprovalValues :
       Approve(owner, spender, value)

CommandStep ==
  \/ \E id \in ActionIds : ExecuteRegulatoryAction(id)
  \/ \E rid \in ReversalIds : ExecuteRegulatoryReversal(rid)

GovernanceStep ==
  \E gid \in GovernanceIds, nonce \in GovernanceNonces :
    \/ \E ref \in AuthorityRefs, account \in Address, active \in BOOLEAN :
         ConfigureAuthority(ref, account, active, gid, nonce)
    \/ \E kind \in BindingKind, d \in Dependencies \cup {Zero} :
         RebindDependency(kind, d, gid, nonce)

EnvironmentStep ==
  \/ \E d \in Dependencies : DependencyDrifts(d)
  \/ Tick

Next == TokenStep \/ CommandStep \/ GovernanceStep \/ EnvironmentStep

Spec == Init /\ [][Next]_vars
-----------------------------------------------------------------------------
(* Type correctness *)

Head == [actionId: ActionIds \cup {Zero}, generation: Nat]
Effect == [parentActionId: ActionIds \cup {Zero}, generation: Nat]
Case == [phase: {"NONE", "OPEN", "TERMINAL"},
         family: {"NONE", "FREEZE", "RESTRICT", "CUSTODY", "DISPOSITION"},
         headActionId: ActionIds \cup {Zero}, generation: Nat]
Custody == [custodian: Address, declaredPriorHolder: Address,
            encumberedAmount: Nat, actionId: ActionIds \cup {Zero},
            active: BOOLEAN]
Authority == [account: Address, epoch: Nat, active: BOOLEAN]
Binding == [dependency: Dependencies, code: Codes, config: Configs, epoch: Nat]
Root == [BindingKind -> Binding]
Action ==
  [action: ActionKind, lifecycle: {"APPLIED", "REVERSED"},
   subject: Accounts, source: Accounts, destination: Address,
   custodian: Address, amount: Nat, priorAmount: Nat, priorFlag: BOOLEAN,
   caseId: CaseIds, authorityRef: AuthorityRefs, authorityEpoch: Nat,
   dependencyEpoch: Nat]
Receipt ==
  [receiptKind: {"ACTION", "REVERSAL"}, commandKind: ActionKind \cup ReversalKind,
   parentCommandId: ActionIds \cup {Zero}, subject: Accounts,
   source: Address, destination: Address, amount: Nat, caseId: CaseIds,
   authorityRef: AuthorityRefs, dependencyRoot: Root,
   assessmentEvidence: UNION {[ks -> Version] : ks \in SUBSET BindingKind},
   preState: [case: Case, custody: Custody],
   postState: [case: Case, custody: Custody],
   externalCommitment: Entitlements \cup {Zero, "SETTLEMENT"}]

LedgerTypeOK ==
  /\ balances \in [Accounts -> Nat]
  /\ custodyBacking \in [Accounts -> Nat]
  /\ allowances \in [Accounts -> [Accounts -> 0 .. MaxUint]]
OverlayTypeOK ==
  /\ frozen \in [Accounts -> Nat]
  /\ restricted \in [Accounts -> BOOLEAN]
  /\ freezeHeads \in [Accounts -> Head]
  /\ restrictionHeads \in [Accounts -> Head]
  /\ effects \in [ActionIds -> Effect]
CaseTypeOK ==
  /\ cases \in [CaseIds -> Case]
  /\ custody \in [CaseIds -> Custody]
  /\ consumedEntitlements \subseteq Entitlements
CommandTypeOK ==
  /\ actions \in [ActionIds -> Action \cup {NoAction}]
  /\ receipts \in [ActionIds \cup ReversalIds -> Receipt \cup {NoReceipt}]
  /\ usedNonces \subseteq AuthorityRefs \X Nat \X Nonces
GovernanceTypeOK ==
  /\ authorities \in [AuthorityRefs -> Authority]
  /\ bindings \in Root
  /\ dependencyRoot \in Root
  /\ dependencyEpoch \in Nat
  /\ rootLog \subseteq [root: Root, epoch: Nat]
EnvironmentTypeOK ==
  /\ deployed \in [Dependencies -> Version]
  /\ blockTime \in Nat

\* Every storage variable of the contract holds values of its declared type.
TypeOK ==
  /\ LedgerTypeOK /\ OverlayTypeOK /\ CaseTypeOK
  /\ CommandTypeOK /\ GovernanceTypeOK /\ EnvironmentTypeOK
-----------------------------------------------------------------------------
(* Ledger and custody *)

\* Tokens are neither created nor destroyed: no sequence of transfers,
\* seizures, dispositions and releases, to oneself included, changes the sum
\* of the balances.  With Supply <= MaxUint it also shows that the unchecked
\* addition of _move cannot wrap.
SupplyConserved == SumFunctionOnSet(balances, Accounts) = Supply

\* What each case holds in custody with an account.
HeldBy(a) ==
  [c \in CaseIds |->
     IF custody[c].active /\ custody[c].custodian = a
       THEN custody[c].encumberedAmount ELSE 0]

\* _custodyBacking is a running total kept by four different commands; at
\* every custodian it equals the sum of the custody records still active.
CustodyAccounting ==
  \A a \in Accounts : custodyBacking[a] = SumFunctionOnSet(HeldBy(a), CaseIds)

\* A custodian always holds the tokens it has in custody: no transfer, seizure
\* or disposition in another case digs into them.
BackingSolvency == \A a \in Accounts : custodyBacking[a] <= balances[a]

\* A step that issues no receipt (an ordinary transfer) takes from an account
\* only what is neither backing nor frozen, and involves no restricted account.
OrdinaryTransferProtects ==
  [][receipts' = receipts =>
       \A a \in Accounts :
         /\ balances'[a] # balances[a] => ~ restricted[a]
         /\ balances'[a] < balances[a] =>
              custodyBacking'[a] + frozen'[a] <= balances'[a]]_vars
-----------------------------------------------------------------------------
(* Cases and effects *)

LiveEffects(kind, s) ==
  {a \in ActionIds : /\ actions[a].lifecycle = "APPLIED"
                     /\ actions[a].action = kind
                     /\ actions[a].subject = s}

\* A subject's live head and the case that owns it point at each other, so
\* that two cases never interleave on one subject and family.
OwnedHead(kind, s, head) ==
  LET case == cases[actions[head].caseId]
  IN  /\ head \in LiveEffects(kind, s)
      /\ case.phase = "OPEN" /\ case.family = kind /\ case.headActionId = head

\* One live head per subject and overlay family, owned by one open case; an
\* overlay without a head has no live effect and no state left behind.
HeadOwnership ==
  \A s \in Accounts :
    /\ IF freezeHeads[s].actionId = Zero
         THEN LiveEffects("FREEZE", s) = {} /\ frozen[s] = 0
         ELSE OwnedHead("FREEZE", s, freezeHeads[s].actionId)
    /\ IF restrictionHeads[s].actionId = Zero
         THEN LiveEffects("RESTRICT", s) = {} /\ ~ restricted[s]
         ELSE OwnedHead("RESTRICT", s, restrictionHeads[s].actionId) /\ restricted[s]

\* The live freezes of a subject form one chain of its case, strictly growing
\* from nothing to the head, whose amount is the target in force: reversing
\* the head restores exactly the target its parent had set.
FreezeChain ==
  \A s \in Accounts : \A a \in LiveEffects("FREEZE", s) :
    LET parent == effects[a].parentActionId IN
    /\ IF parent = Zero
         THEN actions[a].priorAmount = 0
         ELSE /\ parent \in LiveEffects("FREEZE", s)
              /\ actions[parent].caseId = actions[a].caseId
              /\ actions[a].priorAmount = actions[parent].amount
    /\ actions[a].priorAmount < actions[a].amount
    /\ IF a = freezeHeads[s].actionId
         THEN frozen[s] = actions[a].amount
         ELSE \E b \in LiveEffects("FREEZE", s) :
                effects[b].parentActionId = a /\ effects[b].generation > effects[a].generation

\* No open case is ever stuck: its head can be reversed by the reversal that
\* pairs with it, and a release finds the tokens it has to return.
OpenCaseReversible ==
  \A c \in CaseIds : cases[c].phase = "OPEN" =>
    LET head == cases[c].headActionId IN
    /\ head # Zero
    /\ actions[head].caseId = c
    /\ \E reversal \in ReversalKind : ReversalAdmissible(head, reversal)
    /\ cases[c].family = "CUSTODY" =>
         /\ custody[c].declaredPriorHolder # Zero
         /\ actions[head].amount <= balances[custody[c].custodian]

\* TERMINAL is absorbing, and the family a case opened with never changes.
TerminalForever ==
  [][\A c \in CaseIds :
       /\ cases[c].phase = "TERMINAL" =>
            cases'[c] = cases[c] /\ custody'[c] = custody[c]
       /\ cases[c].family # "NONE" => cases'[c].family = cases[c].family]_vars
-----------------------------------------------------------------------------
(* Receipts, replay *)

Issued == {r \in ActionIds \cup ReversalIds : receipts[r].receiptKind # "NONE"}
ReceiptsOf(c) == {r \in Issued : receipts[r].caseId = c}

\* The receipts of a case are its whole history: one per generation, each
\* starting where another ended, from the untouched case to the present one.
ReceiptChain ==
  \A c \in CaseIds :
    /\ cases[c].generation = Cardinality(ReceiptsOf(c))
    /\ \A r \in ReceiptsOf(c) :
         LET pre == receipts[r].preState
             post == receipts[r].postState
         IN  /\ post.case.generation = pre.case.generation + 1
             /\ \/ post = Observation(c)
                \/ \E q \in ReceiptsOf(c) : receipts[q].preState = post
             /\ \/ pre = [case |-> NoCase, custody |-> NoCustody]
                \/ \E q \in ReceiptsOf(c) : receipts[q].postState = pre

\* An action is reversed by exactly one receipted reversal, which moved what
\* the action had moved the other way.
ReversalOnce ==
  \A a \in ActionIds :
    LET reversals == {r \in ReversalIds :
                        /\ receipts[r].receiptKind = "REVERSAL"
                        /\ receipts[r].parentCommandId = a}
    IN  /\ Cardinality(reversals) =
             IF actions[a].lifecycle = "REVERSED" THEN 1 ELSE 0
        /\ \A r \in reversals :
             /\ receipts[r].amount = actions[a].amount
             /\ actions[a].action = "SEIZE" =>
                  /\ receipts[r].source = actions[a].destination
                  /\ receipts[r].destination = actions[a].source

\* What a command spends is spent for good.  Actions and reversals share one
\* nonce space, and every receipt burnt a nonce of its own; an entitlement pays
\* out once, whatever case, authority or subject it is presented under.
SpentOnce ==
  /\ Cardinality(usedNonces) = Cardinality(Issued)
  /\ \A q, r \in Issued :
       /\ receipts[q].externalCommitment \in Entitlements
       /\ receipts[q].externalCommitment = receipts[r].externalCommitment
       => q = r
-----------------------------------------------------------------------------
(* Governance and dependencies *)

\* The evidence in a receipt was produced by the code and configuration that
\* the receipt's dependency root commits to: neither drift of a dependency nor
\* a command signed under a retired root slips through.
EvidenceMatchesRoot ==
  \A r \in Issued :
    \A k \in DOMAIN receipts[r].assessmentEvidence :
      LET v == receipts[r].assessmentEvidence[k]
          b == receipts[r].dependencyRoot[k]
      IN  v.code = b.code /\ v.config = b.config

\* Rebinding never returns to a root of the past, even to the same dependency
\* with the same code and configuration, and the epochs have no gap.
RootNeverRecurs ==
  /\ \A p, q \in rootLog : p.root = q.root => p.epoch = q.epoch
  /\ Cardinality(rootLog) = dependencyEpoch
  /\ [root |-> dependencyRoot, epoch |-> dependencyEpoch] \in rootLog

\* Every change of an authority or of a binding spent a governance nonce of
\* its own.
GovernanceOnce ==
  SumFunctionOnSet([r \in AuthorityRefs |-> authorities[r].epoch], AuthorityRefs) - 1
    + (dependencyEpoch - 1)
  <= Cardinality({n \in GovernanceNonces : GovernanceKey(n) \in usedGovernanceIds})

\* A command lands under the authority in force at that moment: the nonce it
\* spends names an epoch neither left behind, by a rotation or a revocation that
\* overtook the command, nor still to come, and its records name the same.  No
\* epoch returns, and none outlives a change of its account or a revocation:
\* what was signed for a former authority stays void whoever comes later.
InForce(ref, epoch) == authorities[ref].active /\ authorities[ref].epoch = epoch

AuthorityInForce ==
  [][/\ \A n \in usedNonces' \ usedNonces : InForce(n[1], n[2])
     /\ \A r \in Issued' \ Issued :
          \E n \in usedNonces' \ usedNonces :
            /\ n[1] = receipts'[r].authorityRef
            /\ r \in ActionIds => n[2] = actions'[r].authorityEpoch
     /\ \A ref \in AuthorityRefs :
          authorities'[ref] # authorities[ref] =>
            authorities'[ref].epoch > authorities[ref].epoch]_vars
=============================================================================
