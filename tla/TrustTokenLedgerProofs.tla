----------------------- MODULE TrustTokenLedgerProofs -----------------------
(***************************************************************************)
(* What the endpoint's books add up to: the balances, the custody of each  *)
(* account, the receipts of a case, the nonces and the epochs.  What it    *)
(* can prove about its past: the epochs and roots of its governance, the   *)
(* receipts of its cases, and what its commands spent.  And that it        *)
(* implements the kernel: the figures it keeps incrementally are those the *)
(* open cases imply, and each of its transactions is a transition of the   *)
(* normative case table or leaves the table as it is.                      *)
(***************************************************************************)
EXTENDS TrustTokenRefinement, TrustTokenProofs, FiniteSums
-----------------------------------------------------------------------------
(* The records of the kernel *)

\* The live targets of a subject.
Levels(s) == {actions[a].amount : a \in LiveEffects("FREEZE", s)}

\* The kernel's record of an open case: a freeze, ...
FreezeRecord(s, targets) ==
  [phase |-> "OPEN", family |-> "FREEZE", subject |-> s, targets |-> targets,
   custodian |-> Zero, amount |-> 0]
\* ... a restriction ...
RestrictRecord(s) ==
  [phase |-> "OPEN", family |-> "RESTRICT", subject |-> s, targets |-> {},
   custodian |-> Zero, amount |-> 0]
\* ... or custody.
CustodyRecord(s, k, n) ==
  [phase |-> "OPEN", family |-> "CUSTODY", subject |-> s, targets |-> {},
   custodian |-> k, amount |-> n]

\* How the kernel writes the record of a freeze, ...
LEMMA FreezeRecords ==
  ASSUME NEW s, NEW S
  PROVE  [Kernel!Blank("OPEN", "FREEZE") EXCEPT !.subject = s, !.targets = S]
           = FreezeRecord(s, S)
<1>1. [Kernel!Blank("OPEN", "FREEZE") EXCEPT !.subject = s] = FreezeRecord(s, {})
  BY DEF Kernel!Blank, FreezeRecord
<1>2. [FreezeRecord(s, {}) EXCEPT !.targets = S] = FreezeRecord(s, S)
  BY DEF FreezeRecord
<1>3. [[Kernel!Blank("OPEN", "FREEZE") EXCEPT !.subject = s] EXCEPT !.targets = S]
        = FreezeRecord(s, S)
  BY <1>1, <1>2
<1> QED
  BY <1>3

\* ... changes the targets in it, ...
LEMMA FreezeTargets ==
  ASSUME NEW s, NEW S, NEW T
  PROVE  /\ FreezeRecord(s, S).targets = S
         /\ [FreezeRecord(s, S) EXCEPT !.targets = T] = FreezeRecord(s, T)
<1>1. FreezeRecord(s, S).targets = S
  BY DEF FreezeRecord
<1>2. [FreezeRecord(s, S) EXCEPT !.targets = T] = FreezeRecord(s, T)
  BY DEF FreezeRecord
<1> QED
  BY <1>1, <1>2

\* ... and writes that of a restriction ...
LEMMA RestrictRecords ==
  ASSUME NEW s
  PROVE  [Kernel!Blank("OPEN", "RESTRICT") EXCEPT !.subject = s] = RestrictRecord(s)
BY DEF RestrictRecord, Kernel!Blank

\* ... and of custody.
LEMMA CustodyRecords ==
  ASSUME NEW s, NEW k, NEW n
  PROVE  [Kernel!Blank("OPEN", "CUSTODY") EXCEPT
            !.subject = s, !.custodian = k, !.amount = n] = CustodyRecord(s, k, n)
<1>1. Kernel!Blank("OPEN", "CUSTODY") = CustodyRecord(Zero, Zero, 0)
  BY DEF Kernel!Blank, CustodyRecord
<1>2. PICK z : z = 0
  OBVIOUS
<1>3. [CustodyRecord(Zero, Zero, z) EXCEPT !.subject = s] = CustodyRecord(s, Zero, z)
  BY DEF CustodyRecord
<1>4. [CustodyRecord(s, Zero, z) EXCEPT !.custodian = k] = CustodyRecord(s, k, z)
  BY DEF CustodyRecord
<1>5. [CustodyRecord(s, k, z) EXCEPT !.amount = n] = CustodyRecord(s, k, n)
  BY DEF CustodyRecord
<1>6. [[[Kernel!Blank("OPEN", "CUSTODY") EXCEPT !.subject = s]
          EXCEPT !.custodian = k] EXCEPT !.amount = n] = CustodyRecord(s, k, n)
  BY <1>1, <1>2, <1>3, <1>4, <1>5
<1> QED
  BY <1>6
-----------------------------------------------------------------------------
USE ZeroAssumption, DeploymentAssumption, InputAssumption, FinitenessAssumption
-----------------------------------------------------------------------------
(* The supply *)

\* The debit and the credit of _move leave the sum of the balances as it was.
LEMMA MoveSum ==
  ASSUME balances \in [Accounts -> Nat], NEW from \in Accounts, NEW to \in Accounts,
         NEW amount \in Nat
  PROVE  SumFunctionOnSet(Move(from, to, amount), Accounts)
           = SumFunctionOnSet(balances, Accounts)
<1> DEFINE debited == [balances EXCEPT ![from] = @ - amount]
           moved == [debited EXCEPT ![to] = @ + amount]
<1>1. /\ debited[from] = balances[from] - amount
      /\ \A a \in Accounts \ {from} : debited[a] = balances[a]
      /\ DOMAIN debited = Accounts
  OBVIOUS
<1>2. /\ moved[to] = debited[to] + amount
      /\ \A a \in Accounts \ {to} : moved[a] = debited[a]
  <2> HIDE DEF debited
  <2> QED
    BY <1>1
<1>3. /\ \A a \in Accounts : balances[a] \in Int
      /\ balances[from] - amount = balances[from] + (- amount) /\ - amount \in Int
  OBVIOUS
<1>4. \A a \in Accounts : debited[a] \in Int
  OBVIOUS
<1> HIDE DEF debited, moved
<1>5. SumFunctionOnSet(debited, Accounts)
        = SumFunctionOnSet(balances, Accounts) + (- amount)
  BY <1>1, <1>3, SumAdded
<1>6. SumFunctionOnSet(moved, Accounts) = SumFunctionOnSet(debited, Accounts) + amount
  BY <1>2, <1>4, SumAdded
<1>7. SumFunctionOnSet(balances, Accounts) \in Int
  BY <1>3, SumType
<1> QED
  BY <1>5, <1>6, <1>7 DEF Move, moved, debited

\* Every step leaves the balances alone or moves an amount the sender holds.
LEMMA BalancesMove ==
  ASSUME TypeOK, CasesOwn, [Next]_vars
  PROVE  \/ balances' = balances
         \/ \E from \in Accounts, to \in Accounts, amount \in Nat :
              amount <= balances[from] /\ balances' = Move(from, to, amount)
<1> DEFINE Moves == \E from \in Accounts, to \in Accounts, amount \in Nat :
                      amount <= balances[from] /\ balances' = Move(from, to, amount)
<1>1. CASE TokenStep
  <2>1. ASSUME NEW from \in Accounts, NEW to \in Address, NEW amount \in Amounts,
               OrdinaryTransfer(from, to, amount)
        PROVE  Moves
    <3>1. to # Zero
      BY <2>1 DEF OrdinaryTransfer
    <3>2. to \in Accounts
      BY <3>1 DEF Address
    <3>3. amount \in Nat
      OBVIOUS
    <3>4. amount <= balances[from] /\ balances' = Move(from, to, amount)
      BY <2>1 DEF OrdinaryTransfer
    <3> QED
      BY <3>2, <3>3, <3>4
  <2> QED
    BY <1>1, <2>1 DEF TokenStep, Transfer, TransferFrom, Approve, ledgerVars
<1>2. ASSUME NEW id \in ActionIds, ExecuteRegulatoryAction(id)
      PROVE  balances' = balances \/ Moves
  <2>1. PICK req \in Requests :
          /\ ActionShape(req)
          /\ \/ ApplyFreeze(id, req)
             \/ ApplyRestrict(id, req)
             \/ ApplySeize(id, req)
             \/ ApplyDisposition(id, req)
    BY <1>2 DEF ExecuteRegulatoryAction
  <2>2. req \in ActionRequest /\ req.amount \in Nat
    BY DEF ActionRequest
  <2>3. CASE ApplySeize(id, req)
    BY <2>1, <2>2, <2>3, ShapeFacts DEF ApplySeize
  <2>4. CASE ApplyDisposition(id, req)
    BY <2>1, <2>2, <2>4, ShapeFacts DEF ApplyDisposition, Disposition
  <2> QED
    BY <2>1, <2>3, <2>4 DEF ApplyFreeze, ApplyRestrict, ledgerVars
<1>3. ASSUME NEW rid \in ReversalIds, ExecuteRegulatoryReversal(rid)
      PROVE  balances' = balances \/ Moves
  <2>1. PICK aid \in ActionIds, reversal \in ReversalKind :
          /\ ReversalAdmissible(aid, reversal)
          /\ \/ ApplyUnfreeze(aid)
             \/ ApplyUnrestrict(aid)
             \/ reversal = "RELEASE" /\ ApplyRelease(aid)
    BY <1>3 DEF ExecuteRegulatoryReversal
  <2>2. CASE reversal = "RELEASE" /\ ApplyRelease(aid)
    <3> DEFINE held == custody[actions[aid].caseId]
    <3>1. actions[aid] \in Action
      BY <2>1, ReversedActionType
    <3>2. actions[aid].action = "SEIZE"
      BY <2>1, <2>2 DEF ReversalAdmissible, ReversalMatches
    <3>3. /\ held.declaredPriorHolder = actions[aid].source
          /\ held.encumberedAmount = actions[aid].amount
          /\ held \in Custody /\ actions[aid].amount \in Nat
          /\ actions[aid].source \in Accounts
      BY <2>1, <3>1, <3>2 DEF ReversalAdmissible, CurrentEffect, Action, TypeOK, CaseTypeOK
    <3>4. balances' = Move(held.custodian, held.declaredPriorHolder, actions[aid].amount)
          /\ actions[aid].amount <= balances[held.custodian]
      BY <2>2 DEF ApplyRelease
    <3>5. held.active /\ actions[aid].caseId \in CaseIds
      BY <2>1, <3>1, <3>2 DEF ReversalAdmissible, CurrentEffect, Action
    <3>6. held.custodian # Zero
      BY <3>5 DEF CasesOwn, CaseOwns, OpenHead, Overlay
    <3>7. held.custodian \in Accounts
      BY <3>3, <3>6 DEF Custody, Address
    <3> QED
      BY <3>3, <3>4, <3>7
  <2> QED
    BY <2>1, <2>2 DEF ApplyUnfreeze, ApplyUnrestrict, ledgerVars
<1>4. GovernanceStep \/ EnvironmentStep => balances' = balances
  BY DEF GovernanceStep, ConfigureAuthority, RebindDependency, EnvironmentStep,
     DependencyDrifts, Tick, ledgerVars
<1>5. UNCHANGED vars => balances' = balances
  BY DEF vars, ledgerVars
<1> QED
  BY <1>1, <1>2, <1>3, <1>4, <1>5 DEF Next, CommandStep

\* The constructor gives the initial holder the whole supply.
LEMMA InitSupply == Init => SupplyConserved
<1> SUFFICES ASSUME Init PROVE SupplyConserved
  OBVIOUS
<1>1. /\ balances[InitialHolder] = Supply /\ Supply \in Int
      /\ \A a \in Accounts \ {InitialHolder} : balances[a] = 0
  BY DEF Init
<1> QED
  BY <1>1, SumSingle DEF SupplyConserved

\* A step moves tokens within what it was.
LEMMA SupplyKept ==
  ASSUME TypeOK, CasesOwn, SupplyConserved, [Next]_vars
  PROVE  SupplyConserved'
<1>1. balances \in [Accounts -> Nat]
  BY DEF TypeOK, LedgerTypeOK
<1>2. SumFunctionOnSet(balances', Accounts) = SumFunctionOnSet(balances, Accounts)
  BY <1>1, BalancesMove, MoveSum
<1> QED
  BY <1>2 DEF SupplyConserved

\* No sequence of transfers, seizures, dispositions and releases creates or
\* destroys a token, for every set of accounts and every supply.
THEOREM SupplyIsConserved == Spec => []SupplyConserved
<1>1. TypeOK /\ OverlayInv /\ SupplyConserved /\ [Next]_vars => SupplyConserved'
  BY SupplyKept DEF OverlayInv
<1> QED
  BY <1>1, InitSupply, TypeCorrect, RecordsAgree, PTL DEF Spec

\* The unchecked addition of _move and of the seizure never wraps: a balance is
\* a part of the supply, hence a word, and so is the backing it covers.
NoWrap == \A a \in Accounts : balances[a] <= MaxUint /\ custodyBacking[a] <= MaxUint

\* No account holds more than the supply.
LEMMA BalanceInSupply ==
  ASSUME TypeOK, SupplyConserved, NEW a \in Accounts PROVE balances[a] <= Supply
<1>1. \A b \in Accounts : balances[b] \in Nat
  BY DEF TypeOK, LedgerTypeOK
<1> QED
  BY <1>1, SumBounds DEF SupplyConserved

\* The ledger's words never overflow.
THEOREM LedgerNeverWraps == Spec => []NoWrap
<1>1. TypeOK /\ SupplyConserved /\ BackingSolvency => NoWrap
  <2> SUFFICES ASSUME TypeOK, SupplyConserved, BackingSolvency, NEW a \in Accounts
               PROVE  balances[a] <= MaxUint /\ custodyBacking[a] <= MaxUint
    BY DEF NoWrap
  <2>1. balances[a] <= Supply /\ balances[a] \in Nat /\ custodyBacking[a] \in Nat
    BY BalanceInSupply DEF TypeOK, LedgerTypeOK
  <2>2. custodyBacking[a] <= balances[a]
    BY DEF BackingSolvency
  <2> QED
    BY <2>1, <2>2
<1> QED
  BY <1>1, TypeCorrect, SupplyIsConserved, CustodiansSolvent, PTL
-----------------------------------------------------------------------------
(* Custody *)

\* What a custody record holds with an account.
LEMMA HeldType ==
  ASSUME TypeOK, NEW a, NEW c \in CaseIds PROVE HeldBy(a)[c] \in Nat
BY DEF HeldBy, TypeOK, CaseTypeOK, Custody

\* A step that changes one custody record keeps the account of custody when it
\* changes the backing by the difference.
LEMMA CustodyStep ==
  ASSUME TypeOK, TypeOK', CustodyAccounting, NEW c \in CaseIds,
         \A d \in CaseIds \ {c} : custody'[d] = custody[d],
         \A a \in Accounts :
           custodyBacking'[a] = custodyBacking[a] - HeldBy(a)[c] + HeldBy(a)'[c]
  PROVE  CustodyAccounting'
<1> SUFFICES ASSUME NEW a \in Accounts
             PROVE  custodyBacking'[a] = SumFunctionOnSet(HeldBy(a)', CaseIds)
  BY DEF CustodyAccounting
<1>1. \A d \in CaseIds : HeldBy(a)[d] \in Int
  BY HeldType
<1>2. HeldBy(a)'[c] \in Int
  BY DEF HeldBy, TypeOK, CaseTypeOK, Custody
<1>3. \A d \in CaseIds \ {c} : HeldBy(a)'[d] = HeldBy(a)[d]
  BY DEF HeldBy
<1>4. SumFunctionOnSet(HeldBy(a)', CaseIds)
        = SumFunctionOnSet(HeldBy(a), CaseIds) - HeldBy(a)[c] + HeldBy(a)'[c]
  BY <1>1, <1>2, <1>3, SumUpdate
<1> QED
  BY <1>4 DEF CustodyAccounting

\* A seizure opens the record of a case that had none.
LEMMA SeizeAccounted ==
  ASSUME TypeOK, TypeOK', CasesOwn, CustodyAccounting, NEW id, NEW req \in ActionRequest,
         ActionShape(req), ApplySeize(id, req)
  PROVE  CustodyAccounting'
<1> DEFINE c == req.caseId
<1>1. /\ req.custodian \in Accounts /\ c \in CaseIds /\ req.amount \in Nat
      /\ cases[c].phase # "OPEN"
  BY ShapeFacts DEF ActionRequest, ApplySeize, ActionShape, SeizeShape, Disposition
<1>2. ~ custody[c].active
  BY <1>1 DEF CasesOwn, CaseOwns
<1>3. custody \in [CaseIds -> Custody] /\ custodyBacking \in [Accounts -> Nat]
  BY DEF TypeOK, CaseTypeOK, LedgerTypeOK
<1>4. /\ \A d \in CaseIds \ {c} : custody'[d] = custody[d]
      /\ custody'[c].active /\ custody'[c].custodian = req.custodian
      /\ custody'[c].encumberedAmount = req.amount
  BY <1>1, <1>3 DEF ApplySeize
<1>5. ASSUME NEW a \in Accounts
      PROVE  custodyBacking'[a] = custodyBacking[a] - HeldBy(a)[c] + HeldBy(a)'[c]
  <2>1. HeldBy(a)[c] = 0
    BY <1>1, <1>2 DEF HeldBy
  <2>2. HeldBy(a)'[c] = IF a = req.custodian THEN req.amount ELSE 0
    BY <1>1, <1>4 DEF HeldBy
  <2>3. custodyBacking'[a] = custodyBacking[a]
                               + (IF a = req.custodian THEN req.amount ELSE 0)
    BY <1>1, <1>3 DEF ApplySeize
  <2> QED
    BY <1>1, <1>3, <2>1, <2>2, <2>3
<1> QED
  BY <1>1, <1>4, <1>5, CustodyStep

\* A closed record holds nothing: the shared step of the disposition out of
\* custody and of the release.
LEMMA ClosingAccounted ==
  ASSUME TypeOK, TypeOK', CustodyAccounting, NEW c \in CaseIds, custody[c].active,
         custody[c].custodian \in Accounts,
         custody' = [custody EXCEPT ![c] = Closed(@)],
         custodyBacking' = [custodyBacking EXCEPT ![custody[c].custodian] =
                              @ - custody[c].encumberedAmount]
  PROVE  CustodyAccounting'
<1>1. custody \in [CaseIds -> Custody] /\ custodyBacking \in [Accounts -> Nat]
  BY DEF TypeOK, CaseTypeOK, LedgerTypeOK
<1>2. /\ \A d \in CaseIds \ {c} : custody'[d] = custody[d]
      /\ custody'[c].active = FALSE
  BY <1>1 DEF Closed, Custody
<1>3. ASSUME NEW a \in Accounts
      PROVE  custodyBacking'[a] = custodyBacking[a] - HeldBy(a)[c] + HeldBy(a)'[c]
  <2>1. HeldBy(a)[c] = IF a = custody[c].custodian THEN custody[c].encumberedAmount ELSE 0
    BY DEF HeldBy
  <2>2. HeldBy(a)'[c] = 0
    BY <1>2 DEF HeldBy
  <2>3. custody[c].encumberedAmount \in Nat
    BY <1>1 DEF Custody
  <2>4. custodyBacking'[a] =
          custodyBacking[a]
            - (IF a = custody[c].custodian THEN custody[c].encumberedAmount ELSE 0)
    BY <1>1, <2>3
  <2> QED
    BY <1>1, <2>1, <2>2, <2>3, <2>4
<1> QED
  BY <1>2, <1>3, CustodyStep

\* Any other step leaves custody alone.
LEMMA CustodyUnchanged ==
  ASSUME CustodyAccounting, custody' = custody, custodyBacking' = custodyBacking
  PROVE  CustodyAccounting'
<1>1. ASSUME NEW a PROVE HeldBy(a)' = HeldBy(a)
  BY DEF HeldBy
<1> QED
  BY <1>1 DEF CustodyAccounting

\* executeRegulatoryAction and executeRegulatoryReversal keep the account.
LEMMA CommandAccounted ==
  ASSUME TypeOK, TypeOK', CasesOwn, CustodyAccounting, CommandStep
  PROVE  CustodyAccounting'
<1>1. ASSUME NEW id \in ActionIds, ExecuteRegulatoryAction(id) PROVE CustodyAccounting'
  <2>1. PICK req \in Requests :
          /\ ActionShape(req)
          /\ \/ ApplyFreeze(id, req)
             \/ ApplyRestrict(id, req)
             \/ ApplySeize(id, req)
             \/ ApplyDisposition(id, req)
    BY <1>1 DEF ExecuteRegulatoryAction
  <2>2. req \in ActionRequest
    OBVIOUS
  <2>3. CASE ApplySeize(id, req)
    BY <2>1, <2>2, <2>3, SeizeAccounted
  <2>4. CASE ApplyDisposition(id, req)
    <3>1. req.caseId \in CaseIds /\ req.source \in Accounts
      BY <2>1, <2>2, ShapeFacts
    <3>2. CASE custody[req.caseId].active
      BY <2>4, <3>1, <3>2, ClosingAccounted DEF ApplyDisposition, CustodyMatches
    <3>3. CASE ~ custody[req.caseId].active
      BY <2>4, <3>3, CustodyUnchanged DEF ApplyDisposition
    <3> QED
      BY <3>2, <3>3
  <2>5. CASE ApplyFreeze(id, req) \/ ApplyRestrict(id, req)
    BY <2>5, CustodyUnchanged DEF ApplyFreeze, ApplyRestrict, ledgerVars
  <2> QED
    BY <2>1, <2>3, <2>4, <2>5
<1>2. ASSUME NEW rid \in ReversalIds, ExecuteRegulatoryReversal(rid)
      PROVE  CustodyAccounting'
  <2>1. PICK aid \in ActionIds, reversal \in ReversalKind :
          /\ ReversalAdmissible(aid, reversal)
          /\ \/ ApplyUnfreeze(aid)
             \/ ApplyUnrestrict(aid)
             \/ reversal = "RELEASE" /\ ApplyRelease(aid)
    BY <1>2 DEF ExecuteRegulatoryReversal
  <2>2. CASE reversal = "RELEASE" /\ ApplyRelease(aid)
    <3> DEFINE c == actions[aid].caseId
    <3>1. actions[aid].action = "SEIZE" /\ c \in CaseIds
      BY <2>1, <2>2, ReversedActionType DEF ReversalAdmissible, ReversalMatches, Action
    <3>2. custody[c].active /\ custody[c].encumberedAmount = actions[aid].amount
      BY <2>1, <3>1 DEF ReversalAdmissible, CurrentEffect
    <3>3. custody[c].custodian \in Accounts
      <4>1. custody[c].custodian # Zero
        BY <3>1, <3>2 DEF CasesOwn, CaseOwns, OpenHead, Overlay
      <4>2. custody[c].custodian \in Address
        BY <3>1 DEF TypeOK, CaseTypeOK, Custody
      <4> QED
        BY <4>1, <4>2 DEF Address
    <3> QED
      BY <2>2, <3>1, <3>2, <3>3, ClosingAccounted DEF ApplyRelease
  <2>3. CASE ApplyUnfreeze(aid) \/ ApplyUnrestrict(aid)
    BY <2>3, CustodyUnchanged DEF ApplyUnfreeze, ApplyUnrestrict, ledgerVars
  <2> QED
    BY <2>1, <2>2, <2>3
<1> QED
  BY <1>1, <1>2 DEF CommandStep

\* So does every step.
LEMMA CustodyKept ==
  ASSUME TypeOK, TypeOK', CasesOwn, CustodyAccounting, [Next]_vars
  PROVE  CustodyAccounting'
<1>1. TokenStep \/ GovernanceStep \/ EnvironmentStep \/ UNCHANGED vars
        => custody' = custody /\ custodyBacking' = custodyBacking
  BY DEF TokenStep, Transfer, TransferFrom, OrdinaryTransfer, Approve, GovernanceStep,
     ConfigureAuthority, RebindDependency, EnvironmentStep, DependencyDrifts, Tick,
     vars, ledgerVars, caseVars
<1> QED
  BY <1>1, CommandAccounted, CustodyUnchanged DEF Next

\* Nothing is in custody at deployment.
LEMMA InitCustody == Init => CustodyAccounting
<1> SUFFICES ASSUME Init, NEW a \in Accounts
             PROVE  custodyBacking[a] = SumFunctionOnSet(HeldBy(a), CaseIds)
  BY DEF CustodyAccounting
<1>1. \A c \in CaseIds : HeldBy(a)[c] = 0
  BY DEF Init, NoCustody, HeldBy
<1>2. custodyBacking[a] = 0
  BY DEF Init
<1> QED
  BY <1>1, <1>2, SumZero

\* The running total of _custodyBacking is at every custodian the sum of the
\* custody records still active, whatever order the four commands came in.
THEOREM CustodyAccounted == Spec => []CustodyAccounting
<1>1. /\ TypeOK /\ TypeOK' /\ OverlayInv /\ CustodyAccounting /\ [Next]_vars
      => CustodyAccounting'
  BY CustodyKept DEF OverlayInv
<1> QED
  BY <1>1, InitCustody, TypeCorrect, RecordsAgree, PTL DEF Spec
-----------------------------------------------------------------------------
(* Open cases *)

\* The reversal that pairs with an action.
PairedReversal(kind) ==
  CASE kind = "FREEZE" -> "UNFREEZE"
    [] kind = "RESTRICT" -> "UNRESTRICT"
    [] kind = "SEIZE" -> "RELEASE"

\* A release finds the tokens it has to return with the custodian.
LEMMA HeldIsBacked ==
  ASSUME TypeOK, CustodyAccounting, BackingSolvency, NEW c \in CaseIds,
         custody[c].active, custody[c].custodian \in Accounts
  PROVE  /\ custody[c].encumberedAmount <= custodyBacking[custody[c].custodian]
         /\ custody[c].encumberedAmount <= balances[custody[c].custodian]
<1> DEFINE a == custody[c].custodian
<1>1. \A d \in CaseIds : HeldBy(a)[d] \in Nat
  BY HeldType
<1>2. HeldBy(a)[c] = custody[c].encumberedAmount
  BY DEF HeldBy
<1>3. custodyBacking[a] = SumFunctionOnSet(HeldBy(a), CaseIds)
  BY DEF CustodyAccounting
<1>4. HeldBy(a)[c] <= SumFunctionOnSet(HeldBy(a), CaseIds)
  <2> HIDE DEF a
  <2> QED
    BY <1>1, SumBounds
<1>5. custody[c].encumberedAmount <= custodyBacking[a]
  BY <1>2, <1>3, <1>4
<1>6. custodyBacking[a] <= balances[a]
  BY DEF BackingSolvency
<1>7. /\ custody[c].encumberedAmount \in Nat
      /\ custodyBacking[a] \in Nat /\ balances[a] \in Nat
  BY DEF TypeOK, LedgerTypeOK, CaseTypeOK, Custody
<1> QED
  BY <1>5, <1>6, <1>7

\* The head of an open case is its current effect.
LEMMA HeadReversible ==
  ASSUME TypeOK, OverlayInv, CustodyAccounting, BackingSolvency,
         NEW c \in CaseIds, cases[c].phase = "OPEN"
  PROVE  LET head == cases[c].headActionId IN
         /\ OpenHead(c, head)
         /\ ReversalAdmissible(head, PairedReversal(actions[head].action))
         /\ cases[c].family = "CUSTODY" =>
              /\ custody[c].declaredPriorHolder # Zero
              /\ actions[head].amount <= balances[custody[c].custodian]
<1> DEFINE head == cases[c].headActionId
           s == actions[head].subject
<1>1. OpenHead(c, head)
  BY DEF OverlayInv, CasesOwn, CaseOwns
<1>2. /\ head \in ActionIds /\ actions[head].lifecycle = "APPLIED"
      /\ actions[head].caseId = c
  BY <1>1 DEF OpenHead
<1>3. actions[head] \in Action
  BY <1>2, RecordOf
<1>4. s \in Accounts /\ actions[head].source \in Accounts
  BY <1>3 DEF Action
<1>5. NotTerminal(actions[head].caseId)
  BY <1>2 DEF NotTerminal
<1> HIDE DEF head, s
<1>6. CASE cases[c].family \in Overlay
  <2>1. /\ actions[head].action = cases[c].family
        /\ HeadOf(cases[c].family, s) = head
    BY <1>1, <1>6 DEF OpenHead, Overlay, s
  <2>2. head \in LiveEffects(cases[c].family, s)
    BY <1>2, <2>1 DEF LiveEffects, s
  <2>3. CASE cases[c].family = "FREEZE"
    <3>1. /\ effects[head].generation # 0
          /\ freezeHeads[s].actionId = head /\ frozen[s] = actions[head].amount
      <4>1. freezeHeads[s].actionId = head
        BY <2>1, <2>3 DEF HeadOf
      <4>2. effects[head].generation \in 1 .. freezeHeads[s].generation
        BY <1>4, <2>2, <2>3 DEF OverlayInv, FreezeLevels
      <4>3. frozen[s] = actions[head].amount
        BY <1>4, <2>2, <2>3, <4>1 DEF OverlayInv, FreezeChain
      <4> QED
        BY <4>1, <4>2, <4>3
    <3>2. CurrentEffect(head)
      BY <2>1, <2>3, <3>1 DEF CurrentEffect, s
    <3>3. ReversalMatches(actions[head].action, PairedReversal(actions[head].action))
      BY <2>1, <2>3 DEF ReversalMatches, PairedReversal
    <3> QED
      BY <1>1, <1>2, <1>5, <2>3, <3>2, <3>3 DEF ReversalAdmissible, head
  <2>4. CASE cases[c].family = "RESTRICT"
    <3>1. /\ effects[head].generation # 0
          /\ restrictionHeads[s].actionId = head /\ restricted[s]
      <4>1. restrictionHeads[s].actionId = head
        BY <2>1, <2>4 DEF HeadOf
      <4>2. effects[head].generation # 0
        BY <1>4, <2>2, <2>4 DEF OverlayInv, RestrictionsAlone
      <4>3. restricted[s]
        BY <1>2, <1>4, <2>1, <2>4 DEF OverlayInv, RestrictionsAlone
      <4> QED
        BY <4>1, <4>2, <4>3
    <3>2. CurrentEffect(head)
      BY <2>1, <2>4, <3>1 DEF CurrentEffect, s
    <3>3. ReversalMatches(actions[head].action, PairedReversal(actions[head].action))
      BY <2>1, <2>4 DEF ReversalMatches, PairedReversal
    <3> QED
      BY <1>1, <1>2, <1>5, <2>4, <3>2, <3>3 DEF ReversalAdmissible, head
  <2> QED
    BY <1>6, <2>3, <2>4 DEF Overlay
<1>7. CASE cases[c].family = "CUSTODY"
  <2>1. /\ actions[head].action = "SEIZE" /\ custody[c].active
        /\ custody[c].actionId = head
        /\ custody[c].custodian = actions[head].custodian /\ custody[c].custodian # Zero
        /\ custody[c].declaredPriorHolder = actions[head].source
        /\ custody[c].encumberedAmount = actions[head].amount
    BY <1>1, <1>7 DEF OpenHead, Overlay
  <2>2. custody[c].custodian \in Accounts
    BY <2>1 DEF TypeOK, CaseTypeOK, Custody, Address
  <2>3. /\ custody[c].encumberedAmount <= custodyBacking[custody[c].custodian]
        /\ custody[c].encumberedAmount <= balances[custody[c].custodian]
    BY <2>1, <2>2, HeldIsBacked
  <2>4. CurrentEffect(head)
    BY <1>2, <2>1, <2>3 DEF CurrentEffect
  <2>5. ReversalMatches(actions[head].action, PairedReversal(actions[head].action))
    BY <2>1 DEF ReversalMatches, PairedReversal
  <2> QED
    BY <1>1, <1>2, <1>4, <1>5, <2>1, <2>3, <2>4, <2>5 DEF ReversalAdmissible, head
<1> QED
  BY <1>1, <1>6, <1>7 DEF OpenHead

\* No open case is ever stuck: the reversal that pairs with its head is
\* admissible, and a release finds the tokens it has to return.
THEOREM OpenCasesReversible == Spec => []OpenCaseReversible
<1>1. TypeOK /\ OverlayInv /\ CustodyAccounting /\ BackingSolvency => OpenCaseReversible
  <2> SUFFICES ASSUME TypeOK, OverlayInv, CustodyAccounting, BackingSolvency,
                      NEW c \in CaseIds, cases[c].phase = "OPEN"
               PROVE  LET head == cases[c].headActionId IN
                      /\ head # Zero
                      /\ actions[head].caseId = c
                      /\ \E reversal \in ReversalKind : ReversalAdmissible(head, reversal)
                      /\ cases[c].family = "CUSTODY" =>
                           /\ custody[c].declaredPriorHolder # Zero
                           /\ actions[head].amount <= balances[custody[c].custodian]
    BY DEF OpenCaseReversible
  <2> DEFINE head == cases[c].headActionId
  <2>1. /\ OpenHead(c, head)
        /\ ReversalAdmissible(head, PairedReversal(actions[head].action))
        /\ cases[c].family = "CUSTODY" =>
             /\ custody[c].declaredPriorHolder # Zero
             /\ actions[head].amount <= balances[custody[c].custodian]
    BY HeadReversible
  <2> HIDE DEF head
  <2>2. head # Zero /\ actions[head].caseId = c
    BY <2>1 DEF OpenHead
  <2>3. PairedReversal(actions[head].action) \in ReversalKind
    BY <2>1 DEF OpenHead, Overlay, PairedReversal, ReversalKind
  <2> QED
    BY <2>1, <2>2, <2>3 DEF head
<1> QED
  BY <1>1, TypeCorrect, RecordsAgree, CustodyAccounted, CustodiansSolvent, PTL
-----------------------------------------------------------------------------
(* Governance *)

USE IdentifierAssumption

\* The root in force is that of the bindings, and no root of the past is ahead
\* of it, in its own epoch or in that of any binding.
RootsGrow ==
  /\ dependencyRoot = bindings
  /\ IsFiniteSet(rootLog)
  /\ \A p \in rootLog :
       /\ p.epoch <= dependencyEpoch
       /\ \A k \in BindingKind : p.root[k].epoch <= bindings[k].epoch

\* The governance nonces spent so far, and the authority epochs reached.
SpentGovernance == {n \in GovernanceNonces : GovernanceKey(n) \in usedGovernanceIds}
EpochSum ==
  SumFunctionOnSet([r \in AuthorityRefs |-> authorities[r].epoch], AuthorityRefs)

\* Every authorization of the governor spends a nonce that was unspent, and
\* leaves finitely many spent.
LEMMA GovernanceSpends ==
  ASSUME IsFiniteSet(SpentGovernance), NEW gid, NEW nonce \in GovernanceNonces,
         ConsumeGovernance(gid, nonce)
  PROVE  /\ IsFiniteSet(SpentGovernance')
         /\ Cardinality(SpentGovernance') >= Cardinality(SpentGovernance) + 1
<1> DEFINE grown == SpentGovernance \cup {nonce}
           clash == {n \in GovernanceNonces : GovernanceKey(n) = gid}
<1>1. /\ nonce \notin SpentGovernance
      /\ SpentGovernance' = grown \cup clash
  <2>1. \A m, n : GovernanceKey(m) = GovernanceKey(n) => m = n
    BY DEF GovernanceKey
  <2>2. /\ GovernanceKey(nonce) \notin usedGovernanceIds
        /\ usedGovernanceIds' = usedGovernanceIds \cup {gid, GovernanceKey(nonce)}
    BY DEF ConsumeGovernance
  <2> QED
    BY <2>1, <2>2 DEF SpentGovernance
<1>2. IsFiniteSet(grown) /\ Cardinality(grown) = Cardinality(SpentGovernance) + 1
  BY <1>1, FS_AddElement
<1>3. IsFiniteSet(clash)
  <2>1. ASSUME NEW n \in clash PROVE clash = {n}
    BY DEF GovernanceKey
  <2> HIDE DEF clash
  <2>2. CASE clash = {}
    BY <2>2, FS_EmptySet
  <2>3. ASSUME NEW n \in clash PROVE IsFiniteSet(clash)
    <3>1. IsFiniteSet({n})
      BY FS_Singleton
    <3> QED
      BY <2>1, <2>3, <3>1
  <2> QED
    BY <2>2, <2>3
<1>4. IsFiniteSet(SpentGovernance')
  BY <1>1, <1>2, <1>3, FS_Union
<1>5. Cardinality(grown) <= Cardinality(SpentGovernance')
  BY <1>1, <1>4, FS_Subset
<1>6. /\ Cardinality(SpentGovernance) \in Nat /\ Cardinality(grown) \in Nat
      /\ Cardinality(SpentGovernance') \in Nat
  BY <1>2, <1>4, FS_CardinalityType
<1> QED
  BY <1>2, <1>4, <1>5, <1>6

\* Everything the governance keeps, in one inductive invariant.
GovernanceInv ==
  /\ RootsGrow /\ RootNeverRecurs
  /\ IsFiniteSet(SpentGovernance) /\ GovernanceOnce

\* A change of an authority.
LEMMA ConfigureKeeps ==
  ASSUME TypeOK, GovernanceInv, NEW ref \in AuthorityRefs, NEW account \in Address,
         NEW active \in BOOLEAN, NEW gid, NEW nonce \in GovernanceNonces,
         ConfigureAuthority(ref, account, active, gid, nonce)
  PROVE  GovernanceInv'
<1>1. /\ authorities \in [AuthorityRefs -> Authority]
      /\ authorities' = [authorities EXCEPT ![ref] =
           [account |-> account, epoch |-> @.epoch + 1, active |-> active]]
      /\ UNCHANGED dependencyVars /\ ConsumeGovernance(gid, nonce)
  BY DEF ConfigureAuthority, TypeOK, GovernanceTypeOK
<1>2. RootsGrow' /\ RootNeverRecurs'
  BY <1>1 DEF GovernanceInv, RootsGrow, RootNeverRecurs, dependencyVars
<1>3. /\ \A r \in AuthorityRefs : authorities[r].epoch \in Nat
      /\ authorities'[ref].epoch = authorities[ref].epoch + 1
      /\ \A r \in AuthorityRefs \ {ref} : authorities'[r] = authorities[r]
  BY <1>1 DEF Authority
<1>4. EpochSum' = EpochSum + 1 /\ EpochSum \in Int
  <2> DEFINE f == [r \in AuthorityRefs |-> authorities[r].epoch]
             g == [r \in AuthorityRefs |-> authorities'[r].epoch]
  <2>1. /\ \A r \in AuthorityRefs : f[r] \in Int
        /\ g[ref] = f[ref] + 1 /\ \A r \in AuthorityRefs \ {ref} : g[r] = f[r]
    BY <1>3
  <2>2. EpochSum = SumFunctionOnSet(f, AuthorityRefs)
        /\ EpochSum' = SumFunctionOnSet(g, AuthorityRefs)
    BY DEF EpochSum
  <2> HIDE DEF f, g
  <2> QED
    BY <2>1, <2>2, SumAdded, SumType
<1>5. /\ IsFiniteSet(SpentGovernance')
      /\ Cardinality(SpentGovernance') >= Cardinality(SpentGovernance) + 1
  BY <1>1, GovernanceSpends DEF GovernanceInv
<1>6. /\ Cardinality(SpentGovernance) \in Nat /\ Cardinality(SpentGovernance') \in Nat
      /\ dependencyEpoch \in Nat /\ dependencyEpoch' = dependencyEpoch
  BY <1>1, <1>5, FS_CardinalityType
     DEF GovernanceInv, TypeOK, GovernanceTypeOK, dependencyVars
<1>7. EpochSum - 1 + (dependencyEpoch - 1) <= Cardinality(SpentGovernance)
  BY DEF GovernanceInv, GovernanceOnce, EpochSum, SpentGovernance
<1>8. EpochSum' - 1 + (dependencyEpoch' - 1) <= Cardinality(SpentGovernance')
  BY <1>4, <1>5, <1>6, <1>7
<1>9. GovernanceOnce'
  BY <1>8 DEF GovernanceOnce, EpochSum, SpentGovernance
<1> QED
  BY <1>2, <1>5, <1>9 DEF GovernanceInv

\* A change of a binding.
LEMMA RebindKeeps ==
  ASSUME TypeOK, TypeOK', GovernanceInv, NEW kind \in BindingKind,
         NEW d \in Dependencies \cup {Zero}, NEW gid, NEW nonce \in GovernanceNonces,
         RebindDependency(kind, d, gid, nonce)
  PROVE  GovernanceInv'
<1> DEFINE root == dependencyRoot'
           entry == [root |-> dependencyRoot', epoch |-> dependencyEpoch']
<1>1. /\ bindings \in Root /\ bindings' \in Root
      /\ rootLog \subseteq [root: Root, epoch: Nat] /\ dependencyEpoch \in Nat
  BY DEF TypeOK, GovernanceTypeOK
<1>2. /\ ConsumeGovernance(gid, nonce)
      /\ dependencyEpoch' = dependencyEpoch + 1 /\ dependencyRoot' = bindings'
      /\ rootLog' = rootLog \cup {entry} /\ authorities' = authorities
  BY DEF RebindDependency, RootOf
<1>3. /\ \A k \in BindingKind : bindings[k].epoch \in Nat
      /\ bindings'[kind].epoch = bindings[kind].epoch + 1
      /\ \A k \in BindingKind \ {kind} : bindings'[k] = bindings[k]
  BY <1>1 DEF RebindDependency, Bind, BindingOf, Root, Binding
<1>4. \A p \in rootLog :
        /\ p.epoch \in Nat /\ p.epoch <= dependencyEpoch
        /\ \A k \in BindingKind :
             p.root[k].epoch \in Nat /\ p.root[k].epoch <= bindings[k].epoch
  BY <1>1 DEF GovernanceInv, RootsGrow, Root, Binding
<1>5. \A p \in rootLog : p.epoch # entry.epoch /\ p.root # entry.root
  <2> SUFFICES ASSUME NEW p \in rootLog PROVE p.epoch # entry.epoch /\ p.root # entry.root
    OBVIOUS
  <2>1. p.epoch <= dependencyEpoch /\ p.epoch \in Nat
    BY <1>4
  <2>2. p.root[kind].epoch <= bindings[kind].epoch /\ p.root[kind].epoch \in Nat
    BY <1>4
  <2>3. /\ entry.epoch = dependencyEpoch + 1
        /\ entry.root[kind].epoch = bindings[kind].epoch + 1
    BY <1>2, <1>3
  <2>4. bindings[kind].epoch \in Nat
    BY <1>3
  <2> QED
    BY <1>1, <2>1, <2>2, <2>3, <2>4
<1>6. RootsGrow'
  <2>1. IsFiniteSet(rootLog')
    BY <1>2, FS_AddElement DEF GovernanceInv, RootsGrow
  <2>2. ASSUME NEW p \in rootLog'
        PROVE  /\ p.epoch <= dependencyEpoch'
               /\ \A k \in BindingKind : p.root[k].epoch <= bindings'[k].epoch
    <3>1. \A k \in BindingKind :
            bindings'[k].epoch \in Nat /\ bindings[k].epoch <= bindings'[k].epoch
      BY <1>3
    <3>2. CASE p \in rootLog
      BY <1>1, <1>2, <1>3, <1>4, <3>1, <3>2
    <3>3. CASE p = entry
      BY <1>1, <1>2, <3>1, <3>3
    <3> QED
      BY <1>2, <2>2, <3>2, <3>3
  <2> QED
    BY <1>2, <2>1, <2>2 DEF RootsGrow
<1>7. RootNeverRecurs'
  <2>1. Cardinality(rootLog') = dependencyEpoch'
    BY <1>2, <1>5, FS_AddElement DEF GovernanceInv, RootsGrow, RootNeverRecurs
  <2>2. \A p, q \in rootLog' : p.root = q.root => p.epoch = q.epoch
    <3>1. \A p, q \in rootLog : p.root = q.root => p.epoch = q.epoch
      BY DEF GovernanceInv, RootNeverRecurs
    <3> HIDE DEF entry
    <3> QED
      BY <1>2, <1>5, <3>1
  <2> QED
    BY <1>2, <2>1, <2>2 DEF RootNeverRecurs
<1>8. /\ IsFiniteSet(SpentGovernance')
      /\ Cardinality(SpentGovernance') >= Cardinality(SpentGovernance) + 1
  BY <1>2, GovernanceSpends DEF GovernanceInv
<1>9. GovernanceOnce'
  <2>1. /\ Cardinality(SpentGovernance) \in Nat /\ Cardinality(SpentGovernance') \in Nat
    BY <1>8, FS_CardinalityType DEF GovernanceInv
  <2>2. EpochSum - 1 + (dependencyEpoch - 1) <= Cardinality(SpentGovernance)
    BY DEF GovernanceInv, GovernanceOnce, EpochSum, SpentGovernance
  <2>3. EpochSum' = EpochSum /\ EpochSum \in Int
    <3>1. \A r \in AuthorityRefs : [x \in AuthorityRefs |-> authorities[x].epoch][r] \in Int
      BY DEF TypeOK, GovernanceTypeOK, Authority
    <3> QED
      BY <1>2, <3>1, SumType DEF EpochSum
  <2>4. EpochSum' - 1 + (dependencyEpoch' - 1) <= Cardinality(SpentGovernance')
    BY <1>1, <1>2, <1>8, <2>1, <2>2, <2>3
  <2> QED
    BY <2>4 DEF GovernanceOnce, EpochSum, SpentGovernance
<1> QED
  BY <1>6, <1>7, <1>8, <1>9 DEF GovernanceInv

\* Nothing but the governor's two commands changes any of it.
LEMMA OnlyGovernance ==
  ASSUME [Next]_vars PROVE GovernanceStep \/ UNCHANGED governanceVars
BY DEF Next, TokenStep, Transfer, TransferFrom, OrdinaryTransfer, Approve, CommandStep,
   ExecuteRegulatoryAction, ExecuteRegulatoryReversal, EnvironmentStep, DependencyDrifts,
   Tick, vars

\* The invariant of the governance is kept by every step.
LEMMA GovernanceKept ==
  ASSUME TypeOK, TypeOK', GovernanceInv, [Next]_vars PROVE GovernanceInv'
<1>1. CASE GovernanceStep
  BY <1>1, ConfigureKeeps, RebindKeeps DEF GovernanceStep
<1>2. CASE UNCHANGED governanceVars
  <2>1. UNCHANGED <<authorities, usedGovernanceIds, dependencyVars>>
    BY <1>2 DEF governanceVars
  <2>2. SpentGovernance' = SpentGovernance
    BY <2>1 DEF SpentGovernance
  <2> QED
    BY <2>1, <2>2 DEF GovernanceInv, RootsGrow, RootNeverRecurs, GovernanceOnce,
       dependencyVars
<1> QED
  BY <1>1, <1>2, OnlyGovernance

\* The constructor configures one authority and the first bindings.
LEMMA InitGovernance == Init => GovernanceInv
<1> SUFFICES ASSUME Init PROVE GovernanceInv
  OBVIOUS
<1>1. /\ dependencyRoot = bindings /\ dependencyEpoch = 1
      /\ rootLog = {[root |-> dependencyRoot, epoch |-> 1]}
      /\ \A k \in BindingKind : bindings[k].epoch = 1
  BY DEF Init, RootOf, BindingOf
<1>2. RootsGrow /\ RootNeverRecurs
  <2>1. IsFiniteSet(rootLog) /\ Cardinality(rootLog) = 1
    BY <1>1, FS_Singleton
  <2>2. RootsGrow
    BY <1>1, <2>1 DEF RootsGrow
  <2>3. RootNeverRecurs
    BY <1>1, <2>1 DEF RootNeverRecurs
  <2> QED
    BY <2>2, <2>3
<1>3. SpentGovernance = {}
  BY DEF Init, SpentGovernance
<1>4. IsFiniteSet(SpentGovernance) /\ Cardinality(SpentGovernance) = 0
  BY <1>3, FS_EmptySet
<1>5. EpochSum = 1
  <2> DEFINE f == [r \in AuthorityRefs |-> authorities[r].epoch]
  <2>1. /\ f[InitialAuthorityRef] = 1
        /\ \A r \in AuthorityRefs \ {InitialAuthorityRef} : f[r] = 0
    BY DEF Init
  <2> HIDE DEF f
  <2>2. SumFunctionOnSet(f, AuthorityRefs) = 1
    BY <2>1, SumSingle
  <2> QED
    BY <2>2 DEF EpochSum, f
<1>6. GovernanceOnce
  BY <1>1, <1>4, <1>5 DEF GovernanceOnce, EpochSum, SpentGovernance
<1> QED
  BY <1>2, <1>4, <1>6 DEF GovernanceInv

\* The invariant of the governance.
THEOREM GovernanceHolds == Spec => []GovernanceInv
BY InitGovernance, GovernanceKept, TypeCorrect, PTL DEF Spec

\* A dependency root never recurs, whatever is bound again, and the epochs of
\* the log have no gap.
THEOREM RootsNeverRecur == Spec => []RootNeverRecurs
<1>1. GovernanceInv => RootNeverRecurs
  BY DEF GovernanceInv
<1> QED
  BY <1>1, GovernanceHolds, PTL

\* Every change of an authority or of a binding spent a nonce of its own, even
\* when an authorization identifier is the key of another nonce.
THEOREM GovernanceSpentOnce == Spec => []GovernanceOnce
<1>1. GovernanceInv => GovernanceOnce
  BY DEF GovernanceInv
<1> QED
  BY <1>1, GovernanceHolds, PTL
-----------------------------------------------------------------------------
(* What every command leaves behind *)

\* Action records and action receipts come together.
ActionsReceipted ==
  \A a \in ActionIds : (actions[a].lifecycle = "NONE") = (receipts[a].receiptKind = "NONE")

\* A command changes one case and counts the change.
CaseMoves(c) ==
  /\ cases'[c].generation = cases[c].generation + 1
  /\ \A d \in CaseIds \ {c} : cases'[d] = cases[d] /\ custody'[d] = custody[d]

\* Command id, accepted in context ctx on the evidence of some dependencies,
\* leaves the receipt of what it did to case c.
Receipted(id, c, ctx, kinds) ==
  /\ receipts[id].receiptKind = "NONE" /\ receipts'[id] \in Receipt
  /\ \A r \in (ActionIds \cup ReversalIds) \ {id} : receipts'[r] = receipts[r]
  /\ receipts'[id].caseId = c
  /\ receipts'[id].preState = Observation(c)
  /\ receipts'[id].postState = ObservationAfter(c)
  /\ CaseMoves(c)
  /\ Assessed(kinds) /\ receipts'[id].assessmentEvidence = EvidenceOf(kinds)
  /\ receipts'[id].dependencyRoot = dependencyRoot
  /\ Authorised(ctx) /\ usedNonces' = ConsumeNonce(ctx)
  /\ consumedEntitlements \subseteq consumedEntitlements'
  /\ receipts'[id].externalCommitment \in Entitlements =>
       receipts'[id].externalCommitment \in consumedEntitlements' \ consumedEntitlements

\* An action of any kind changes its case and no other.
LEMMA ActionMoves ==
  ASSUME TypeOK, NEW id, NEW req \in ActionRequest, ActionShape(req),
         \/ ApplyFreeze(id, req)
         \/ ApplyRestrict(id, req)
         \/ ApplySeize(id, req)
         \/ ApplyDisposition(id, req)
  PROVE  CaseMoves(req.caseId)
<1>1. req.caseId \in CaseIds
  BY ShapeFacts
<1>2. cases \in [CaseIds -> Case] /\ custody \in [CaseIds -> Custody]
  BY DEF TypeOK, CaseTypeOK
<1>3. CASE ApplyFreeze(id, req)
  BY <1>1, <1>2, <1>3 DEF ApplyFreeze, OpenOverlay, CaseMoves
<1>4. CASE ApplyRestrict(id, req)
  BY <1>1, <1>2, <1>4 DEF ApplyRestrict, OpenOverlay, CaseMoves
<1>5. CASE ApplySeize(id, req)
  BY <1>1, <1>2, <1>5 DEF ApplySeize, CaseMoves
<1>6. CASE ApplyDisposition(id, req)
  <2>1. CASE custody[req.caseId].active
    <3>1. /\ cases' = [cases EXCEPT ![req.caseId] = CloseCase(@)]
          /\ custody' = [custody EXCEPT ![req.caseId] = Closed(@)]
      BY <1>6, <2>1 DEF ApplyDisposition
    <3> QED
      BY <1>1, <1>2, <3>1 DEF CloseCase, CaseMoves, Case
  <2>2. CASE ~ custody[req.caseId].active
    <3>1. /\ cases' = [cases EXCEPT ![req.caseId] =
                          CloseCase([@ EXCEPT !.family = "DISPOSITION"])]
          /\ custody' = custody
      BY <1>6, <2>2 DEF ApplyDisposition
    <3> QED
      BY <1>1, <1>2, <3>1 DEF CloseCase, CaseMoves, Case
  <2> QED
    BY <2>1, <2>2
<1> QED
  BY <1>3, <1>4, <1>5, <1>6

\* The same of a reversal.
LEMMA ReversalMoves ==
  ASSUME TypeOK, NEW aid \in ActionIds, actions[aid] \in Action,
         ApplyUnfreeze(aid) \/ ApplyUnrestrict(aid) \/ ApplyRelease(aid)
  PROVE  CaseMoves(actions[aid].caseId)
<1>1. actions[aid].caseId \in CaseIds
  BY DEF Action
<1>2. cases \in [CaseIds -> Case] /\ custody \in [CaseIds -> Custody]
  BY DEF TypeOK, CaseTypeOK
<1>3. CASE ApplyUnfreeze(aid)
  BY <1>1, <1>2, <1>3 DEF ApplyUnfreeze, FallBack, CloseCase, CaseMoves, Case
<1>4. CASE ApplyUnrestrict(aid)
  BY <1>1, <1>2, <1>4 DEF ApplyUnrestrict, CloseCase, CaseMoves, Case
<1>5. CASE ApplyRelease(aid)
  BY <1>1, <1>2, <1>5 DEF ApplyRelease, CloseCase, CaseMoves, Case
<1> QED
  BY <1>3, <1>4, <1>5

\* An entitlement is consumed by the recovery that is paid for with it.
LEMMA EntitlementConsumed ==
  ASSUME NEW id, NEW req \in ActionRequest, ActionShape(req),
         \/ ApplyFreeze(id, req)
         \/ ApplyRestrict(id, req)
         \/ ApplySeize(id, req)
         \/ ApplyDisposition(id, req)
  PROVE  /\ consumedEntitlements \subseteq consumedEntitlements'
         /\ ExternalCommitment(req) \in Entitlements =>
              ExternalCommitment(req) \in consumedEntitlements' \ consumedEntitlements
<1>1. consumedEntitlements' = consumedEntitlements
        \/ consumedEntitlements' =
             consumedEntitlements \cup
               (IF req.action = "RECOVER" THEN {req.entitlement} ELSE {})
  BY DEF ApplyFreeze, ApplyRestrict, ApplySeize, ApplyDisposition
<1>2. ASSUME ExternalCommitment(req) \in Entitlements
      PROVE  /\ req.action = "RECOVER" /\ ExternalCommitment(req) = req.entitlement
             /\ req.entitlement \notin consumedEntitlements
  BY <1>2 DEF ExternalCommitment, ActionShape, CommitmentShape
<1>3. req.action = "RECOVER" => ApplyDisposition(id, req)
  BY DEF ApplyFreeze, ApplyRestrict, ApplySeize
<1>4. req.action = "RECOVER" =>
        consumedEntitlements' = consumedEntitlements \cup {req.entitlement}
  BY <1>3 DEF ApplyDisposition
<1> QED
  BY <1>1, <1>2, <1>4

\* executeRegulatoryAction leaves the receipt of its own identifier ...
LEMMA ActionReceipted ==
  ASSUME TypeOK, TypeOK', ActionsReceipted, NEW id \in ActionIds,
         ExecuteRegulatoryAction(id)
  PROVE  \E c \in CaseIds, ctx \in Contexts, kinds \in SUBSET BindingKind :
           Receipted(id, c, ctx, kinds)
<1>1. PICK ctx \in Contexts, req \in Requests :
        /\ Authorised(ctx) /\ ActionShape(req)
        /\ Assessed(ConsultedByAction(req))
        /\ \/ ApplyFreeze(id, req)
           \/ ApplyRestrict(id, req)
           \/ ApplySeize(id, req)
           \/ ApplyDisposition(id, req)
        /\ RecordAction(id, req, ctx)
  BY DEF ExecuteRegulatoryAction
<1>2. req \in ActionRequest /\ req.caseId \in CaseIds
  BY <1>1, ShapeFacts
<1>3. receipts[id].receiptKind = "NONE"
  BY DEF ActionsReceipted, ExecuteRegulatoryAction
<1>4. receipts \in [ActionIds \cup ReversalIds -> Receipt \cup {NoReceipt}]
  BY DEF TypeOK, CommandTypeOK
<1>5. /\ \A r \in (ActionIds \cup ReversalIds) \ {id} : receipts'[r] = receipts[r]
      /\ receipts'[id].receiptKind = "ACTION" /\ receipts'[id].caseId = req.caseId
      /\ receipts'[id].preState = Observation(req.caseId)
      /\ receipts'[id].postState = ObservationAfter(req.caseId)
      /\ receipts'[id].assessmentEvidence = EvidenceOf(ConsultedByAction(req))
      /\ receipts'[id].dependencyRoot = ctx.dependencies.root
      /\ receipts'[id].externalCommitment = ExternalCommitment(req)
      /\ usedNonces' = ConsumeNonce(ctx)
  BY <1>1, <1>4 DEF RecordAction
<1>6. ctx.dependencies.root = dependencyRoot
  BY <1>1 DEF Authorised, CurrentDependencies
<1>7. receipts'[id] \in Receipt
  <2>1. receipts'[id] \in Receipt \cup {NoReceipt}
    BY DEF TypeOK, CommandTypeOK
  <2> QED
    BY <1>5, <2>1 DEF NoReceipt
<1>8. CaseMoves(req.caseId)
  BY <1>1, <1>2, ActionMoves
<1>9. ConsultedByAction(req) \in SUBSET BindingKind
  BY DEF ConsultedByAction, BindingKind
<1>10. /\ consumedEntitlements \subseteq consumedEntitlements'
       /\ ExternalCommitment(req) \in Entitlements =>
            ExternalCommitment(req) \in consumedEntitlements' \ consumedEntitlements
  BY <1>1, <1>2, EntitlementConsumed
<1>11. Receipted(id, req.caseId, ctx, ConsultedByAction(req))
  BY <1>1, <1>3, <1>5, <1>6, <1>7, <1>8, <1>10 DEF Receipted
<1> QED
  BY <1>2, <1>9, <1>11

\* ... and executeRegulatoryReversal that of its own.
LEMMA ReversalReceipted ==
  ASSUME TypeOK, TypeOK', NEW rid \in ReversalIds, ExecuteRegulatoryReversal(rid)
  PROVE  \E c \in CaseIds, ctx \in Contexts, kinds \in SUBSET BindingKind :
           Receipted(rid, c, ctx, kinds)
<1>1. PICK ctx \in Contexts, aid \in ActionIds, reversal \in ReversalKind :
        /\ Authorised(ctx) /\ ReversalAdmissible(aid, reversal) /\ Assessed({"POLICY"})
        /\ ApplyUnfreeze(aid) \/ ApplyUnrestrict(aid) \/ ApplyRelease(aid)
        /\ RecordReversal(rid, aid, reversal, ctx)
  BY DEF ExecuteRegulatoryReversal
<1>2. receipts[rid].receiptKind = "NONE" /\ consumedEntitlements' = consumedEntitlements
  BY DEF ExecuteRegulatoryReversal
<1>3. actions[aid] \in Action /\ actions[aid].caseId \in CaseIds
  BY <1>1, ReversedActionType DEF Action
<1>4. receipts \in [ActionIds \cup ReversalIds -> Receipt \cup {NoReceipt}]
  BY DEF TypeOK, CommandTypeOK
<1>5. /\ \A r \in (ActionIds \cup ReversalIds) \ {rid} : receipts'[r] = receipts[r]
      /\ receipts'[rid].receiptKind = "REVERSAL"
      /\ receipts'[rid].caseId = actions[aid].caseId
      /\ receipts'[rid].preState = Observation(actions[aid].caseId)
      /\ receipts'[rid].postState = ObservationAfter(actions[aid].caseId)
      /\ receipts'[rid].assessmentEvidence = EvidenceOf({"POLICY"})
      /\ receipts'[rid].dependencyRoot = dependencyRoot
      /\ receipts'[rid].externalCommitment = Zero
      /\ usedNonces' = ConsumeNonce(ctx)
  BY <1>1, <1>4 DEF RecordReversal
<1>6. receipts'[rid] \in Receipt
  <2>1. receipts'[rid] \in Receipt \cup {NoReceipt}
    BY DEF TypeOK, CommandTypeOK
  <2> QED
    BY <1>5, <2>1 DEF NoReceipt
<1>7. CaseMoves(actions[aid].caseId)
  BY <1>1, <1>3, ReversalMoves
<1>8. Receipted(rid, actions[aid].caseId, ctx, {"POLICY"})
  BY <1>1, <1>2, <1>5, <1>6, <1>7 DEF Receipted
<1>9. {"POLICY"} \in SUBSET BindingKind
  BY DEF BindingKind
<1> QED
  BY <1>3, <1>8, <1>9

\* What a step that is no command leaves alone.
LEMMA NoCommand ==
  ASSUME [Next]_vars
  PROVE  CommandStep \/ UNCHANGED <<actions, receipts, usedNonces, cases, custody,
                                    consumedEntitlements>>
BY DEF Next, TokenStep, Transfer, TransferFrom, OrdinaryTransfer, Approve, GovernanceStep,
   ConfigureAuthority, RebindDependency, EnvironmentStep, DependencyDrifts, Tick,
   vars, caseVars, commandVars
-----------------------------------------------------------------------------
(* Receipts *)

\* The command's receipt is the one new receipt.
LEMMA OneMoreReceipt ==
  ASSUME NEW id \in ActionIds \cup ReversalIds, NEW c, NEW ctx, NEW kinds,
         Receipted(id, c, ctx, kinds)
  PROVE  /\ Issued' = Issued \cup {id} /\ id \notin Issued
         /\ \A r \in Issued : receipts'[r] = receipts[r]
         /\ ReceiptsOf(c)' = ReceiptsOf(c) \cup {id} /\ id \notin ReceiptsOf(c)
         /\ \A d \in CaseIds \ {c} : ReceiptsOf(d)' = ReceiptsOf(d)
<1>1. receipts'[id].receiptKind # "NONE" /\ receipts[id].receiptKind = "NONE"
  BY DEF Receipted, Receipt
<1>2. \A r \in (ActionIds \cup ReversalIds) \ {id} : receipts'[r] = receipts[r]
  BY DEF Receipted
<1>3. Issued' = Issued \cup {id} /\ id \notin Issued
  BY <1>1, <1>2 DEF Issued
<1>4. \A r \in Issued : receipts'[r] = receipts[r]
  BY <1>2, <1>3 DEF Issued
<1>5. receipts'[id].caseId = c
  BY DEF Receipted
<1>6. \A d : \A r \in Issued : r \in ReceiptsOf(d)' <=> r \in ReceiptsOf(d)
  BY <1>3, <1>4 DEF ReceiptsOf
<1>7. \A d : ReceiptsOf(d) \subseteq Issued /\ ReceiptsOf(d)' \subseteq Issued'
  BY DEF ReceiptsOf
<1>8. \A d : id \in ReceiptsOf(d)' <=> d = c
  BY <1>3, <1>5 DEF ReceiptsOf
<1>9. ReceiptsOf(c)' = ReceiptsOf(c) \cup {id} /\ id \notin ReceiptsOf(c)
  BY <1>3, <1>6, <1>7, <1>8
<1>10. ASSUME NEW d \in CaseIds \ {c} PROVE ReceiptsOf(d)' = ReceiptsOf(d)
  <2>1. \A r \in Issued : r \in ReceiptsOf(d)' <=> r \in ReceiptsOf(d)
    BY <1>6
  <2>2. id \notin ReceiptsOf(d)'
    BY <1>8
  <2> QED
    BY <1>3, <1>7, <2>1, <2>2
<1> QED
  BY <1>3, <1>4, <1>9, <1>10

\* A step that changes no receipt has the same receipts issued.
LEMMA NoMoreReceipts ==
  ASSUME receipts' = receipts
  PROVE  Issued' = Issued /\ \A c : ReceiptsOf(c)' = ReceiptsOf(c)
BY DEF Issued, ReceiptsOf

\* A command's evidence was read from live dependencies, whose versions the
\* root in force commits to.
LEMMA EvidenceKept ==
  ASSUME RootsGrow, EvidenceMatchesRoot, NEW id \in ActionIds \cup ReversalIds,
         NEW c, NEW ctx, NEW kinds, Receipted(id, c, ctx, kinds)
  PROVE  EvidenceMatchesRoot'
<1>1. /\ receipts'[id].assessmentEvidence = EvidenceOf(kinds)
      /\ receipts'[id].dependencyRoot = bindings /\ Assessed(kinds)
  BY DEF Receipted, RootsGrow
<1>2. \A k \in DOMAIN receipts'[id].assessmentEvidence :
        LET v == receipts'[id].assessmentEvidence[k]
            b == receipts'[id].dependencyRoot[k]
        IN  v.code = b.code /\ v.config = b.config
  BY <1>1 DEF EvidenceOf, Assessed, Live
<1> QED
  BY <1>2, OneMoreReceipt DEF EvidenceMatchesRoot

\* What a step may do to authorities and to what is done in their name.
InForceStep ==
  /\ \A n \in usedNonces' \ usedNonces : InForce(n[1], n[2])
  /\ \A r \in Issued' \ Issued :
       \E n \in usedNonces' \ usedNonces :
         /\ n[1] = receipts'[r].authorityRef
         /\ r \in ActionIds => n[2] = actions'[r].authorityEpoch
  /\ \A ref \in AuthorityRefs :
       authorities'[ref] # authorities[ref] =>
         authorities'[ref].epoch > authorities[ref].epoch

\* A command spends one fresh nonce, of an authority in force.
LEMMA NonceInForce ==
  ASSUME NEW ctx, Authorised(ctx), usedNonces' = ConsumeNonce(ctx)
  PROVE  /\ usedNonces' \ usedNonces = {NonceOf(ctx)}
         /\ InForce(NonceOf(ctx)[1], NonceOf(ctx)[2])
<1>1. NonceOf(ctx)[1] = ctx.authorityRef /\ NonceOf(ctx)[2] = ctx.authorityEpoch
  BY DEF NonceOf
<1>2. NonceOf(ctx) \notin usedNonces
  BY DEF Authorised, RequireFreshNonce
<1>3. InForce(ctx.authorityRef, ctx.authorityEpoch)
  BY DEF Authorised, RequireAuthority, InForce
<1> QED
  BY <1>1, <1>2, <1>3 DEF ConsumeNonce

\* The records of an action name the authority and the epoch of its nonce ...
LEMMA ActionInForce ==
  ASSUME TypeOK, NEW id \in ActionIds, ExecuteRegulatoryAction(id) PROVE InForceStep
<1>1. PICK ctx \in Contexts, req \in Requests : Authorised(ctx) /\ RecordAction(id, req, ctx)
  BY DEF ExecuteRegulatoryAction
<1>2. /\ receipts \in [ActionIds \cup ReversalIds -> Receipt \cup {NoReceipt}]
      /\ actions \in [ActionIds -> Action \cup {NoAction}]
  BY DEF TypeOK, CommandTypeOK
<1>3. /\ receipts'[id].authorityRef = ctx.authorityRef
      /\ actions'[id].authorityEpoch = ctx.authorityEpoch
      /\ \A r \in (ActionIds \cup ReversalIds) \ {id} : receipts'[r] = receipts[r]
      /\ usedNonces' = ConsumeNonce(ctx)
  BY <1>1, <1>2 DEF RecordAction
<1>4. Issued' \ Issued \subseteq {id}
  BY <1>3 DEF Issued
<1>5. NonceOf(ctx)[1] = ctx.authorityRef /\ NonceOf(ctx)[2] = ctx.authorityEpoch
  BY DEF NonceOf
<1>6. authorities' = authorities
  BY DEF ExecuteRegulatoryAction, governanceVars
<1>7. /\ usedNonces' \ usedNonces = {NonceOf(ctx)}
      /\ InForce(NonceOf(ctx)[1], NonceOf(ctx)[2])
  BY <1>1, <1>3, NonceInForce
<1> QED
  BY <1>3, <1>4, <1>5, <1>6, <1>7 DEF InForceStep

\* ... and so does the receipt of a reversal.
LEMMA ReversalInForce ==
  ASSUME TypeOK, NEW rid \in ReversalIds, ExecuteRegulatoryReversal(rid)
  PROVE  InForceStep
<1>1. PICK ctx \in Contexts, aid \in ActionIds, reversal \in ReversalKind :
        Authorised(ctx) /\ RecordReversal(rid, aid, reversal, ctx)
  BY DEF ExecuteRegulatoryReversal
<1>2. receipts \in [ActionIds \cup ReversalIds -> Receipt \cup {NoReceipt}]
  BY DEF TypeOK, CommandTypeOK
<1>3. /\ receipts'[rid].authorityRef = ctx.authorityRef
      /\ \A r \in (ActionIds \cup ReversalIds) \ {rid} : receipts'[r] = receipts[r]
      /\ usedNonces' = ConsumeNonce(ctx)
  BY <1>1, <1>2 DEF RecordReversal
<1>4. Issued' \ Issued \subseteq {rid} /\ rid \notin ActionIds
  BY <1>3, IdentifierAssumption DEF Issued
<1>5. NonceOf(ctx)[1] = ctx.authorityRef
  BY DEF NonceOf
<1>6. authorities' = authorities
  BY DEF ExecuteRegulatoryReversal, governanceVars
<1>7. /\ usedNonces' \ usedNonces = {NonceOf(ctx)}
      /\ InForce(NonceOf(ctx)[1], NonceOf(ctx)[2])
  BY <1>1, <1>3, NonceInForce
<1> QED
  BY <1>3, <1>4, <1>5, <1>6, <1>7 DEF InForceStep

\* The governor takes the authority it changes to a new epoch.
LEMMA ConfigureInForce ==
  ASSUME TypeOK, NEW ref \in AuthorityRefs, NEW account, NEW active, NEW gid, NEW nonce,
         ConfigureAuthority(ref, account, active, gid, nonce)
  PROVE  InForceStep
<1>1. /\ authorities \in [AuthorityRefs -> Authority]
      /\ authorities' = [authorities EXCEPT ![ref] =
           [account |-> account, epoch |-> @.epoch + 1, active |-> active]]
      /\ usedNonces' = usedNonces /\ receipts' = receipts
  BY DEF ConfigureAuthority, TypeOK, GovernanceTypeOK, commandVars
<1>2. Issued' = Issued
  BY <1>1, NoMoreReceipts
<1>3. \A r \in AuthorityRefs :
        authorities'[r] # authorities[r] => authorities'[r].epoch > authorities[r].epoch
  BY <1>1 DEF Authority
<1> QED
  BY <1>1, <1>2, <1>3 DEF InForceStep

\* An entitlement a receipt shows is consumed.
EntitlementsSpent ==
  \A r \in Issued : receipts[r].externalCommitment \in Entitlements =>
                      receipts[r].externalCommitment \in consumedEntitlements

\* A command spends a nonce that was fresh, and at most one entitlement that
\* was.
LEMMA SpendingKept ==
  ASSUME IsFiniteSet(usedNonces), IsFiniteSet(Issued), SpentOnce, EntitlementsSpent,
         NEW id \in ActionIds \cup ReversalIds, NEW c, NEW ctx, NEW kinds,
         Receipted(id, c, ctx, kinds)
  PROVE  /\ IsFiniteSet(usedNonces') /\ IsFiniteSet(Issued')
         /\ SpentOnce' /\ EntitlementsSpent'
<1>1. /\ usedNonces' = usedNonces \cup {NonceOf(ctx)} /\ NonceOf(ctx) \notin usedNonces
      /\ consumedEntitlements \subseteq consumedEntitlements'
      /\ receipts'[id].externalCommitment \in Entitlements =>
           /\ receipts'[id].externalCommitment \in consumedEntitlements'
           /\ receipts'[id].externalCommitment \notin consumedEntitlements
  BY DEF Receipted, Authorised, RequireFreshNonce, ConsumeNonce
<1>2. /\ Issued' = Issued \cup {id} /\ id \notin Issued
      /\ \A r \in Issued : receipts'[r] = receipts[r]
  BY OneMoreReceipt
<1>3. /\ IsFiniteSet(usedNonces') /\ Cardinality(usedNonces') = Cardinality(usedNonces) + 1
      /\ IsFiniteSet(Issued') /\ Cardinality(Issued') = Cardinality(Issued) + 1
  BY <1>1, <1>2, FS_AddElement
<1>4. EntitlementsSpent'
  BY <1>1, <1>2 DEF EntitlementsSpent
<1>5. ASSUME NEW q \in Issued', NEW r \in Issued',
             receipts'[q].externalCommitment \in Entitlements,
             receipts'[q].externalCommitment = receipts'[r].externalCommitment
      PROVE  q = r
  <2>1. CASE q = id /\ r \in Issued
    BY <1>1, <1>2, <1>5, <2>1 DEF EntitlementsSpent
  <2>2. CASE q \in Issued /\ r = id
    BY <1>1, <1>2, <1>5, <2>2 DEF EntitlementsSpent
  <2>3. CASE q \in Issued /\ r \in Issued
    BY <1>2, <1>5, <2>3 DEF SpentOnce
  <2> QED
    BY <1>2, <2>1, <2>2, <2>3
<1>6. Cardinality(usedNonces') = Cardinality(Issued')
  BY <1>3 DEF SpentOnce
<1>7. SpentOnce'
  BY <1>5, <1>6 DEF SpentOnce
<1> QED
  BY <1>3, <1>4, <1>7

\* The present state of a case is the untouched one, or what its last receipt
\* says it is.
Chained ==
  \A c \in CaseIds :
    \/ Observation(c) = [case |-> NoCase, custody |-> NoCustody]
    \/ \E q \in ReceiptsOf(c) : receipts[q].postState = Observation(c)

\* A command links its receipt to the end of the chain of its case.
LEMMA ChainKept ==
  ASSUME TypeOK, IsFiniteSet(Issued), ReceiptChain, Chained,
         NEW id \in ActionIds \cup ReversalIds, NEW c \in CaseIds, NEW ctx, NEW kinds,
         Receipted(id, c, ctx, kinds)
  PROVE  ReceiptChain' /\ Chained'
<1> DEFINE first == [case |-> NoCase, custody |-> NoCustody]
<1>1. /\ \A r \in Issued : receipts'[r] = receipts[r]
      /\ ReceiptsOf(c)' = ReceiptsOf(c) \cup {id} /\ id \notin ReceiptsOf(c)
      /\ \A d \in CaseIds \ {c} : ReceiptsOf(d)' = ReceiptsOf(d)
  BY OneMoreReceipt
<1>2. \A d : ReceiptsOf(d) \subseteq Issued
  BY DEF ReceiptsOf
<1>3. /\ receipts'[id].preState = Observation(c)
      /\ receipts'[id].postState = Observation(c)'
      /\ cases'[c].generation = cases[c].generation + 1
  BY DEF Receipted, CaseMoves, Observation, ObservationAfter
<1>4. \A d \in CaseIds \ {c} : cases'[d] = cases[d] /\ Observation(d)' = Observation(d)
  BY DEF Receipted, CaseMoves, Observation
<1>5. /\ receipts'[id].preState.case = cases[c]
      /\ receipts'[id].postState.case = cases'[c]
  BY <1>3 DEF Observation
<1>6. Chained'
  <2> SUFFICES ASSUME NEW d \in CaseIds
               PROVE  \/ Observation(d)' = first
                      \/ \E q \in ReceiptsOf(d)' : receipts'[q].postState = Observation(d)'
    BY DEF Chained
  <2>1. CASE d = c
    BY <1>1, <1>3, <2>1
  <2>2. CASE d # c
    BY <1>1, <1>2, <1>4, <2>2 DEF Chained
  <2> QED
    BY <2>1, <2>2
<1>7. ASSUME NEW d \in CaseIds
      PROVE  cases'[d].generation = Cardinality(ReceiptsOf(d)')
  <2>1. IsFiniteSet(ReceiptsOf(c))
    BY <1>2, FS_Subset
  <2>2. Cardinality(ReceiptsOf(c) \cup {id}) = Cardinality(ReceiptsOf(c)) + 1
    BY <1>1, <2>1, FS_AddElement
  <2>3. \A e \in CaseIds : cases[e].generation = Cardinality(ReceiptsOf(e))
    BY DEF ReceiptChain
  <2>4. CASE d = c
    BY <1>1, <1>3, <2>2, <2>3, <2>4
  <2>5. CASE d # c
    BY <1>1, <1>4, <2>3, <2>5
  <2> QED
    BY <2>4, <2>5
<1>8. ASSUME NEW d \in CaseIds, NEW r \in ReceiptsOf(d)'
      PROVE  /\ receipts'[r].postState.case.generation
                  = receipts'[r].preState.case.generation + 1
             /\ \/ receipts'[r].postState = Observation(d)'
                \/ \E q \in ReceiptsOf(d)' : receipts'[q].preState = receipts'[r].postState
             /\ \/ receipts'[r].preState = first
                \/ \E q \in ReceiptsOf(d)' : receipts'[q].postState = receipts'[r].preState
  <2>1. ASSUME r \in ReceiptsOf(d)
        PROVE  /\ receipts[r].postState.case.generation
                    = receipts[r].preState.case.generation + 1
               /\ \/ receipts[r].postState = Observation(d)
                  \/ \E q \in ReceiptsOf(d) : receipts[q].preState = receipts[r].postState
               /\ \/ receipts[r].preState = first
                  \/ \E q \in ReceiptsOf(d) : receipts[q].postState = receipts[r].preState
    BY <2>1 DEF ReceiptChain
  <2>2. ReceiptsOf(d) \subseteq ReceiptsOf(d)'
        /\ \A q \in ReceiptsOf(d) : receipts'[q] = receipts[q]
    BY <1>1, <1>2
  <2>3. CASE d = c /\ r = id
    <3>1. \/ Observation(c) = first
          \/ \E q \in ReceiptsOf(c) : receipts[q].postState = Observation(c)
      BY DEF Chained
    <3> HIDE DEF first
    <3> QED
      BY <1>3, <1>5, <2>2, <2>3, <3>1
  <2>4. CASE r \in ReceiptsOf(d)
    <3>1. receipts'[r] = receipts[r]
      BY <2>2, <2>4
    <3>2. \/ receipts'[r].postState = Observation(d)'
          \/ \E q \in ReceiptsOf(d)' : receipts'[q].preState = receipts'[r].postState
      <4>1. CASE receipts[r].postState = Observation(d)
        <5>1. CASE d = c
          BY <1>1, <1>3, <3>1, <4>1, <5>1
        <5>2. CASE d # c
          BY <1>4, <3>1, <4>1, <5>2
        <5> QED
          BY <5>1, <5>2
      <4>2. CASE \E q \in ReceiptsOf(d) : receipts[q].preState = receipts[r].postState
        BY <2>2, <3>1, <4>2
      <4> QED
        BY <2>1, <2>4, <4>1, <4>2
    <3> HIDE DEF first
    <3> QED
      BY <2>1, <2>2, <2>4, <3>1, <3>2
  <2> QED
    BY <1>1, <2>3, <2>4
<1>9. ReceiptChain'
  BY <1>7, <1>8 DEF ReceiptChain
<1> QED
  BY <1>6, <1>9
-----------------------------------------------------------------------------
(* Reversals *)

\* The receipted reversals of an action.
ReversalsOf(a) ==
  {r \in ReversalIds : /\ receipts[r].receiptKind = "REVERSAL"
                       /\ receipts[r].parentCommandId = a}

\* There is one when the action is reversed and none before.
ReversedOnce(a) ==
  IF actions[a].lifecycle = "REVERSED" THEN \E r \in ReversalIds : ReversalsOf(a) = {r}
                                       ELSE ReversalsOf(a) = {}

\* What a reversal moved is what the action had moved.
MovedBack(a) ==
  \A r \in ReversalsOf(a) :
    /\ receipts[r].amount = actions[a].amount
    /\ actions[a].action = "SEIZE" =>
         /\ receipts[r].source = actions[a].destination
         /\ receipts[r].destination = actions[a].source

\* A seizure sends to the custodian it names.
SeizedToCustodian(a) ==
  actions[a].lifecycle # "NONE" /\ actions[a].action = "SEIZE" =>
    actions[a].custodian = actions[a].destination

\* The inductive invariant of the reversals.
ReversalInv ==
  /\ ActionsReceipted
  /\ \A a \in ActionIds : ReversedOnce(a) /\ MovedBack(a) /\ SeizedToCustodian(a)

\* An accepted action has not been reversed.
LEMMA ActionNotReversed ==
  ASSUME TypeOK, ReversalInv, NEW id \in ActionIds, ExecuteRegulatoryAction(id)
  PROVE  ReversalInv'
<1>1. PICK ctx \in Contexts, req \in Requests :
        ActionShape(req) /\ RecordAction(id, req, ctx)
  BY DEF ExecuteRegulatoryAction
<1>2. req \in ActionRequest
  OBVIOUS
<1>3. /\ actions' = [actions EXCEPT ![id] = actions'[id]]
      /\ actions'[id].lifecycle = "APPLIED" /\ actions'[id].action = req.action
      /\ actions'[id].custodian = req.custodian
      /\ actions'[id].destination = req.destination
      /\ actions[id].lifecycle = "NONE"
      /\ \A a \in ActionIds \ {id} : actions'[a] = actions[a]
  BY <1>1 DEF RecordAction, ExecuteRegulatoryAction, TypeOK, CommandTypeOK
<1>4. /\ \A r \in (ActionIds \cup ReversalIds) \ {id} : receipts'[r] = receipts[r]
      /\ receipts'[id].receiptKind = "ACTION"
  BY <1>1 DEF RecordAction, TypeOK, CommandTypeOK
<1>5. ActionsReceipted'
  BY <1>3, <1>4 DEF ReversalInv, ActionsReceipted
<1>6. \A r \in ReversalIds : receipts'[r] = receipts[r]
  BY <1>4
<1>7. ASSUME NEW a \in ActionIds PROVE ReversalsOf(a)' = ReversalsOf(a)
  BY <1>6 DEF ReversalsOf
<1>8. ASSUME NEW a \in ActionIds
      PROVE  ReversedOnce(a)' /\ MovedBack(a)' /\ SeizedToCustodian(a)'
  <2>1. CASE a = id
    <3>1. ReversalsOf(a)' = {}
      BY <1>3, <1>7, <2>1 DEF ReversalInv, ReversedOnce
    <3>2. SeizedToCustodian(a)'
      BY <1>1, <1>2, <1>3, <2>1, ShapeFacts DEF SeizedToCustodian
    <3> QED
      BY <1>3, <2>1, <3>1, <3>2 DEF ReversedOnce, MovedBack
  <2>2. CASE a # id
    <3>1. actions'[a] = actions[a] /\ ReversalsOf(a)' = ReversalsOf(a)
      BY <1>3, <1>7, <2>2
    <3>2. \A r \in ReversalsOf(a) : receipts'[r] = receipts[r]
      BY <1>6 DEF ReversalsOf
    <3>3. ReversedOnce(a) /\ MovedBack(a) /\ SeizedToCustodian(a)
      BY DEF ReversalInv
    <3>4. ReversedOnce(a)'
      BY <3>1, <3>3 DEF ReversedOnce
    <3>5. MovedBack(a)'
      BY <3>1, <3>2, <3>3 DEF MovedBack
    <3>6. SeizedToCustodian(a)'
      BY <3>1, <3>3 DEF SeizedToCustodian
    <3> QED
      BY <3>4, <3>5, <3>6
  <2> QED
    BY <2>1, <2>2
<1> QED
  BY <1>5, <1>8 DEF ReversalInv

\* A reversal is the first of its action, and undoes what it did.
LEMMA ReversalIsFirst ==
  ASSUME TypeOK, ReversalInv, NEW rid \in ReversalIds, ExecuteRegulatoryReversal(rid)
  PROVE  ReversalInv'
<1>1. PICK ctx \in Contexts, aid \in ActionIds, reversal \in ReversalKind :
        ReversalAdmissible(aid, reversal) /\ RecordReversal(rid, aid, reversal, ctx)
  BY DEF ExecuteRegulatoryReversal
<1>2. actions[aid] \in Action /\ actions[aid].lifecycle = "APPLIED"
  BY <1>1, ReversedActionType DEF ReversalAdmissible
<1> DEFINE held == custody[actions[aid].caseId]
<1>3. /\ actions'[aid].lifecycle = "REVERSED"
      /\ actions'[aid].action = actions[aid].action
      /\ actions'[aid].amount = actions[aid].amount
      /\ actions'[aid].source = actions[aid].source
      /\ actions'[aid].destination = actions[aid].destination
      /\ actions'[aid].custodian = actions[aid].custodian
      /\ \A a \in ActionIds \ {aid} : actions'[a] = actions[a]
  BY <1>1, <1>2 DEF RecordReversal, Reversed, TypeOK, CommandTypeOK, Action
<1>4. /\ \A r \in (ActionIds \cup ReversalIds) \ {rid} : receipts'[r] = receipts[r]
      /\ receipts[rid].receiptKind = "NONE" /\ receipts'[rid].receiptKind = "REVERSAL"
      /\ receipts'[rid].parentCommandId = aid
      /\ receipts'[rid].amount = actions[aid].amount
      /\ reversal = "RELEASE" =>
           /\ receipts'[rid].source = held.custodian
           /\ receipts'[rid].destination = held.declaredPriorHolder
  BY <1>1 DEF RecordReversal, ExecuteRegulatoryReversal, TypeOK, CommandTypeOK
<1>5. rid \notin ActionIds
  OBVIOUS
<1>6. ActionsReceipted'
  BY <1>2, <1>3, <1>4, <1>5 DEF ReversalInv, ActionsReceipted
<1>7. ReversalsOf(aid) = {}
  BY <1>2 DEF ReversalInv, ReversedOnce
<1>8. ReversalsOf(aid)' = {rid}
  <2>1. ASSUME NEW r \in ReversalIds \ {rid} PROVE r \notin ReversalsOf(aid)'
    BY <1>4, <1>7 DEF ReversalsOf
  <2>2. rid \in ReversalsOf(aid)'
    BY <1>4 DEF ReversalsOf
  <2>3. ReversalsOf(aid)' \subseteq ReversalIds
    BY DEF ReversalsOf
  <2> QED
    BY <2>1, <2>2, <2>3
<1>9. ReversedOnce(aid)' /\ MovedBack(aid)' /\ SeizedToCustodian(aid)'
  <2>1. ReversedOnce(aid)'
    BY <1>3, <1>8 DEF ReversedOnce
  <2>2. SeizedToCustodian(aid)'
    BY <1>2, <1>3 DEF ReversalInv, SeizedToCustodian
  <2>3. actions[aid].action = "SEIZE" =>
          /\ receipts'[rid].source = actions[aid].destination
          /\ receipts'[rid].destination = actions[aid].source
    <3> SUFFICES ASSUME actions[aid].action = "SEIZE"
                 PROVE  /\ receipts'[rid].source = actions[aid].destination
                        /\ receipts'[rid].destination = actions[aid].source
      OBVIOUS
    <3>1. reversal = "RELEASE"
      BY <1>1 DEF ReversalAdmissible, ReversalMatches
    <3>2. held.custodian = actions[aid].custodian
          /\ held.declaredPriorHolder = actions[aid].source
      BY <1>1 DEF ReversalAdmissible, CurrentEffect
    <3>3. actions[aid].custodian = actions[aid].destination
      BY <1>2 DEF ReversalInv, SeizedToCustodian
    <3> QED
      BY <1>4, <3>1, <3>2, <3>3
  <2>4. MovedBack(aid)'
    BY <1>3, <1>4, <1>8, <2>3 DEF MovedBack
  <2> QED
    BY <2>1, <2>2, <2>4
<1>10. ASSUME NEW a \in ActionIds, a # aid
       PROVE  ReversedOnce(a)' /\ MovedBack(a)' /\ SeizedToCustodian(a)'
  <2>1. actions'[a] = actions[a]
    BY <1>3, <1>10
  <2>2. ReversalsOf(a)' = ReversalsOf(a)
    <3>1. rid \notin ReversalsOf(a)' /\ rid \notin ReversalsOf(a)
      BY <1>4, <1>10 DEF ReversalsOf
    <3>2. \A r \in ReversalIds \ {rid} : r \in ReversalsOf(a)' <=> r \in ReversalsOf(a)
      BY <1>4 DEF ReversalsOf
    <3>3. ReversalsOf(a) \subseteq ReversalIds /\ ReversalsOf(a)' \subseteq ReversalIds
      BY DEF ReversalsOf
    <3>4. \A r : r \in ReversalsOf(a)' <=> r \in ReversalsOf(a)
      BY <3>1, <3>2, <3>3
    <3> QED
      BY <3>4
  <2>3. \A r \in ReversalsOf(a) : receipts'[r] = receipts[r]
    BY <1>4 DEF ReversalsOf
  <2>4. ReversedOnce(a) /\ MovedBack(a) /\ SeizedToCustodian(a)
    BY DEF ReversalInv
  <2>5. ReversedOnce(a)'
    BY <2>1, <2>2, <2>4 DEF ReversedOnce
  <2>6. MovedBack(a)'
    BY <2>1, <2>2, <2>3, <2>4 DEF MovedBack
  <2>7. SeizedToCustodian(a)'
    BY <2>1, <2>4 DEF SeizedToCustodian
  <2> QED
    BY <2>5, <2>6, <2>7
<1> QED
  BY <1>6, <1>9, <1>10 DEF ReversalInv
-----------------------------------------------------------------------------
(* The theorems *)

\* Everything the commands keep.
CommandInv ==
  /\ ReversalInv /\ EvidenceMatchesRoot
  /\ IsFiniteSet(usedNonces) /\ IsFiniteSet(Issued) /\ SpentOnce /\ EntitlementsSpent
  /\ ReceiptChain /\ Chained

\* Commands keep it ...
LEMMA CommandKept ==
  ASSUME TypeOK, TypeOK', GovernanceInv, CommandInv, CommandStep PROVE CommandInv'
<1>1. ASSUME NEW id \in ActionIds \cup ReversalIds, NEW c \in CaseIds, NEW ctx \in Contexts,
             NEW kinds, Receipted(id, c, ctx, kinds), authorities' = authorities
      PROVE  /\ EvidenceMatchesRoot'
             /\ IsFiniteSet(usedNonces') /\ IsFiniteSet(Issued')
             /\ SpentOnce' /\ EntitlementsSpent' /\ ReceiptChain' /\ Chained'
  <2>1. EvidenceMatchesRoot'
    BY <1>1, EvidenceKept DEF CommandInv, GovernanceInv
  <2>2. /\ IsFiniteSet(usedNonces') /\ IsFiniteSet(Issued')
        /\ SpentOnce' /\ EntitlementsSpent'
    BY <1>1, SpendingKept DEF CommandInv
  <2>3. ReceiptChain' /\ Chained'
    BY <1>1, ChainKept DEF CommandInv
  <2> QED
    BY <2>1, <2>2, <2>3
<1>2. ASSUME NEW id \in ActionIds, ExecuteRegulatoryAction(id) PROVE CommandInv'
  <2>1. PICK c \in CaseIds, ctx \in Contexts, kinds \in SUBSET BindingKind :
          Receipted(id, c, ctx, kinds)
    BY <1>2, ActionReceipted DEF CommandInv, ReversalInv
  <2>2. authorities' = authorities
    BY <1>2 DEF ExecuteRegulatoryAction, governanceVars
  <2>3. ReversalInv'
    BY <1>2, ActionNotReversed DEF CommandInv
  <2> QED
    BY <1>1, <2>1, <2>2, <2>3 DEF CommandInv
<1>3. ASSUME NEW rid \in ReversalIds, ExecuteRegulatoryReversal(rid) PROVE CommandInv'
  <2>1. PICK c \in CaseIds, ctx \in Contexts, kinds \in SUBSET BindingKind :
          Receipted(rid, c, ctx, kinds)
    BY <1>3, ReversalReceipted
  <2>2. authorities' = authorities
    BY <1>3 DEF ExecuteRegulatoryReversal, governanceVars
  <2>3. ReversalInv'
    BY <1>3, ReversalIsFirst DEF CommandInv
  <2> QED
    BY <1>1, <2>1, <2>2, <2>3 DEF CommandInv
<1> QED
  BY <1>2, <1>3 DEF CommandStep

\* ... and nothing else touches it.
LEMMA HistoryKept ==
  ASSUME TypeOK, TypeOK', GovernanceInv, CommandInv, [Next]_vars PROVE CommandInv'
<1>1. CASE CommandStep
  BY <1>1, CommandKept
<1>2. CASE UNCHANGED <<actions, receipts, usedNonces, cases, custody, consumedEntitlements>>
  <2>1. Issued' = Issued /\ \A c : ReceiptsOf(c)' = ReceiptsOf(c)
    BY <1>2, NoMoreReceipts
  <2>2. \A c : Observation(c)' = Observation(c)
    BY <1>2 DEF Observation
  <2>3. \A a : ReversalsOf(a)' = ReversalsOf(a)
    BY <1>2 DEF ReversalsOf
  <2>4. ReversalInv'
    BY <1>2, <2>3 DEF CommandInv, ReversalInv, ActionsReceipted, ReversedOnce, MovedBack,
       SeizedToCustodian
  <2>5. EvidenceMatchesRoot'
    BY <1>2, <2>1 DEF CommandInv, EvidenceMatchesRoot
  <2>6. /\ IsFiniteSet(usedNonces') /\ IsFiniteSet(Issued')
        /\ SpentOnce' /\ EntitlementsSpent'
    BY <1>2, <2>1 DEF CommandInv, SpentOnce, EntitlementsSpent
  <2>7. ReceiptChain' /\ Chained'
    BY <1>2, <2>1, <2>2 DEF CommandInv, ReceiptChain, Chained
  <2> QED
    BY <2>4, <2>5, <2>6, <2>7 DEF CommandInv
<1> QED
  BY <1>1, <1>2, NoCommand

\* There is no history at deployment.
LEMMA InitHistory == Init => CommandInv
<1> SUFFICES ASSUME Init PROVE CommandInv
  OBVIOUS
<1>1. /\ \A r \in ActionIds \cup ReversalIds : receipts[r].receiptKind = "NONE"
      /\ \A a \in ActionIds : actions[a].lifecycle = "NONE"
  BY DEF Init, NoReceipt, NoAction
<1>2. Issued = {} /\ usedNonces = {} /\ \A c : ReceiptsOf(c) = {}
  BY <1>1 DEF Init, Issued, ReceiptsOf
<1>3. ReversalInv
  BY <1>1 DEF ReversalInv, ActionsReceipted, ReversedOnce, ReversalsOf, MovedBack,
     SeizedToCustodian
<1>4. EvidenceMatchesRoot /\ SpentOnce /\ EntitlementsSpent
  BY <1>2 DEF EvidenceMatchesRoot, SpentOnce, EntitlementsSpent
<1>5. IsFiniteSet(usedNonces) /\ IsFiniteSet(Issued)
  BY <1>2, FS_EmptySet
<1>6. \A c \in CaseIds : /\ cases[c].generation = 0
                         /\ Observation(c) = [case |-> NoCase, custody |-> NoCustody]
  BY DEF Init, NoCase, Observation
<1>7. Cardinality({}) = 0
  BY FS_EmptySet
<1>8. ReceiptChain /\ Chained
  BY <1>2, <1>6, <1>7 DEF ReceiptChain, Chained
<1> QED
  BY <1>3, <1>4, <1>5, <1>8 DEF CommandInv

\* The invariant of the commands.
THEOREM HistoryHolds == Spec => []CommandInv
BY InitHistory, HistoryKept, TypeCorrect, GovernanceHolds, PTL DEF Spec

\* The receipts of every case are its whole history, each starting where
\* another ended.
THEOREM ReceiptsChain == Spec => []ReceiptChain
<1>1. CommandInv => ReceiptChain
  BY DEF CommandInv
<1> QED
  BY <1>1, HistoryHolds, PTL

\* Every receipt burnt a nonce of its own, and an entitlement pays out once,
\* whatever the number of authorities, nonces and cases.
THEOREM SpentForGood == Spec => []SpentOnce
<1>1. CommandInv => SpentOnce
  BY DEF CommandInv
<1> QED
  BY <1>1, HistoryHolds, PTL

\* The evidence in a receipt is of the code and configuration its dependency
\* root commits to, however often the dependencies drifted or were rebound.
THEOREM EvidenceIsCommitted == Spec => []EvidenceMatchesRoot
<1>1. CommandInv => EvidenceMatchesRoot
  BY DEF CommandInv
<1> QED
  BY <1>1, HistoryHolds, PTL

\* No step of anyone accepts a command in the name of an authority rotated
\* away, revoked or not configured yet, and an epoch left behind never returns:
\* _requireAuthority, _requireFreshNonce and configureAuthority together.
THEOREM AuthoritiesInForce == Spec => AuthorityInForce
<1>1. TypeOK /\ [Next]_vars => [InForceStep]_vars
  <2> SUFFICES ASSUME TypeOK, Next PROVE InForceStep
    BY DEF vars
  <2>1. CASE CommandStep
    BY <2>1, ActionInForce, ReversalInForce DEF CommandStep
  <2>2. ASSUME NEW ref \in AuthorityRefs, NEW account, NEW active, NEW gid, NEW nonce,
               ConfigureAuthority(ref, account, active, gid, nonce)
        PROVE  InForceStep
    BY <2>2, ConfigureInForce
  <2>3. CASE UNCHANGED <<receipts, usedNonces, authorities>>
    BY <2>3, NoMoreReceipts DEF InForceStep
  <2>4. \/ CommandStep
        \/ \E ref \in AuthorityRefs, account \in Address, active \in BOOLEAN,
              gid \in GovernanceIds, nonce \in GovernanceNonces :
             ConfigureAuthority(ref, account, active, gid, nonce)
        \/ UNCHANGED <<receipts, usedNonces, authorities>>
    BY DEF Next, TokenStep, Transfer, TransferFrom, OrdinaryTransfer, Approve,
       GovernanceStep, RebindDependency, EnvironmentStep, DependencyDrifts, Tick,
       governanceVars, commandVars
  <2> QED
    BY <2>1, <2>2, <2>3, <2>4
<1>2. [InForceStep]_vars =>
        [/\ \A n \in usedNonces' \ usedNonces : InForce(n[1], n[2])
         /\ \A r \in Issued' \ Issued :
              \E n \in usedNonces' \ usedNonces :
                /\ n[1] = receipts'[r].authorityRef
                /\ r \in ActionIds => n[2] = actions'[r].authorityEpoch
         /\ \A ref \in AuthorityRefs :
              authorities'[ref] # authorities[ref] =>
                authorities'[ref].epoch > authorities[ref].epoch]_vars
  BY DEF InForceStep
<1> QED
  BY <1>1, <1>2, TypeCorrect, PTL DEF Spec, AuthorityInForce

\* An action is reversed by one receipted reversal at most, which moved back
\* what the action had moved.
THEOREM ReversedOnlyOnce == Spec => []ReversalOnce
<1>1. CommandInv => ReversalOnce
  <2> SUFFICES ASSUME CommandInv, NEW a \in ActionIds
               PROVE  /\ Cardinality(ReversalsOf(a)) =
                           IF actions[a].lifecycle = "REVERSED" THEN 1 ELSE 0
                      /\ MovedBack(a)
    BY DEF ReversalOnce, ReversalsOf, MovedBack
  <2>1. ReversedOnce(a) /\ MovedBack(a)
    BY DEF CommandInv, ReversalInv
  <2>2. CASE actions[a].lifecycle = "REVERSED"
    <3>1. PICK r \in ReversalIds : ReversalsOf(a) = {r}
      BY <2>1, <2>2 DEF ReversedOnce
    <3>2. Cardinality({r}) = 1
      BY FS_Singleton
    <3> QED
      BY <2>1, <2>2, <3>1, <3>2
  <2>3. CASE actions[a].lifecycle # "REVERSED"
    BY <2>1, <2>3, FS_EmptySet DEF ReversedOnce
  <2> QED
    BY <2>2, <2>3
<1> QED
  BY <1>1, HistoryHolds, PTL
-----------------------------------------------------------------------------
(* The refinement: what the kernel sees of a case *)

\* A case that is not open is blank.
LEMMA BlankCase ==
  ASSUME NEW c, cases[c].phase # "OPEN"
  PROVE  KernelCase(c) = Kernel!Blank(cases[c].phase, cases[c].family)
BY DEF KernelCase, Kernel!Blank

\* Phase and family are those stored.
LEMMA CaseFields ==
  ASSUME NEW c
  PROVE  KernelCase(c).phase = cases[c].phase /\ KernelCase(c).family = cases[c].family
BY DEF KernelCase

\* A restriction shows its subject, ...
LEMMA RestrictCase ==
  ASSUME NEW c, cases[c].phase = "OPEN", cases[c].family = "RESTRICT"
  PROVE  KernelCase(c) = RestrictRecord(actions[cases[c].headActionId].subject)
BY DEF KernelCase, RestrictRecord

\* ... custody its record, ...
LEMMA CustodyCase ==
  ASSUME NEW c, cases[c].phase = "OPEN", cases[c].family = "CUSTODY"
  PROVE  KernelCase(c) = CustodyRecord(custody[c].declaredPriorHolder,
                           custody[c].custodian, custody[c].encumberedAmount)
BY DEF KernelCase, CustodyRecord

\* ... and a freeze all live targets of its subject, since they belong to the
\* case of the head.
LEMMA FreezeCase ==
  ASSUME TypeOK, OverlayInv, NEW c \in CaseIds, cases[c].phase = "OPEN",
         cases[c].family = "FREEZE"
  PROVE  LET s == actions[cases[c].headActionId].subject IN
         s \in Accounts /\ KernelCase(c) = FreezeRecord(s, Levels(s))
<1> DEFINE head == cases[c].headActionId
           s == actions[head].subject
           T == {actions[a].amount : a \in {b \in LiveEffects("FREEZE", s) :
                                              actions[b].caseId = c}}
<1>1. KernelCase(c) = FreezeRecord(s, T)
  BY DEF KernelCase, FreezeRecord
<1>2. OpenHead(c, head)
  BY DEF OverlayInv, CasesOwn, CaseOwns
<1>3. s \in Accounts /\ HeadOf("FREEZE", s) = head /\ actions[head].caseId = c
  BY <1>2, RecordOf DEF OpenHead, Action
<1>4. \A b \in LiveEffects("FREEZE", s) : actions[b].caseId = c
  BY <1>3 DEF OverlayInv, LiveBelongs, Overlay
<1>5. T = Levels(s)
  BY <1>4 DEF Levels
<1> QED
  BY <1>1, <1>3, <1>5

\* The open case of a subject in an overlay family is that of its head.
LEMMA OpenOnHead ==
  ASSUME TypeOK, OverlayInv, NEW kind \in Overlay, NEW s \in Accounts
  PROVE  Kernel!OpenOn(kind, s) =
           IF HeadOf(kind, s) = Zero THEN {} ELSE {actions[HeadOf(kind, s)].caseId}
<1>1. ASSUME NEW c \in CaseIds, cases[c].phase = "OPEN", cases[c].family = kind
      PROVE  KernelCase(c).subject = actions[cases[c].headActionId].subject
  BY <1>1, FreezeCase, RestrictCase DEF Overlay, FreezeRecord, RestrictRecord
<1>2. \A c : c \in Kernel!OpenOn(kind, s) <=>
               /\ c \in CaseIds /\ cases[c].phase = "OPEN" /\ cases[c].family = kind
               /\ actions[cases[c].headActionId].subject = s
  BY <1>1, CaseFields DEF Kernel!OpenOn, Kernel!Open
<1>3. ASSUME NEW c \in Kernel!OpenOn(kind, s)
      PROVE  /\ HeadOf(kind, s) = cases[c].headActionId
             /\ HeadOf(kind, s) # Zero
             /\ actions[HeadOf(kind, s)].caseId = c
  <2>1. OpenHead(c, cases[c].headActionId) /\ cases[c].family = kind
        /\ actions[cases[c].headActionId].subject = s
    BY <1>2, <1>3 DEF OverlayInv, CasesOwn, CaseOwns
  <2> QED
    BY <2>1 DEF OpenHead, Overlay
<1>4. CASE HeadOf(kind, s) = Zero
  BY <1>3, <1>4
<1>5. CASE HeadOf(kind, s) # Zero
  <2> DEFINE h == HeadOf(kind, s)
  <2>1. /\ actions[h].subject = s /\ actions[h].caseId \in CaseIds
        /\ cases[actions[h].caseId].phase = "OPEN"
        /\ cases[actions[h].caseId].family = kind
        /\ cases[actions[h].caseId].headActionId = h
    BY <1>5, HeadFacts DEF OverlayInv
  <2>2. actions[h].caseId \in Kernel!OpenOn(kind, s)
    BY <1>2, <2>1
  <2> QED
    BY <1>3, <1>5, <2>2
<1> QED
  BY <1>4, <1>5

\* The live targets of a subject with a head: the target in force is the
\* greatest.
LEMMA LevelsBelow ==
  ASSUME TypeOK, OverlayInv, NEW s \in Accounts
  PROVE  /\ \A x \in Levels(s) : x \in Nat /\ x <= frozen[s] /\ x > 0
         /\ HeadOf("FREEZE", s) # Zero => frozen[s] \in Levels(s)
         /\ HeadOf("FREEZE", s) = Zero => Levels(s) = {} /\ frozen[s] = 0
<1>1. ASSUME NEW a \in LiveEffects("FREEZE", s)
      PROVE  /\ actions[a].amount \in Nat /\ actions[a].amount > 0
             /\ actions[a].amount <= frozen[s]
  <2>1. actions[a].amount \in Nat /\ actions[a].priorAmount \in Nat
    BY RecordOf DEF LiveEffects, Action
  <2>2. actions[a].priorAmount < actions[a].amount
    BY DEF OverlayInv, FreezeChain
  <2>3. actions[a].amount <= frozen[s]
    BY DEF OverlayInv, FreezeLevels
  <2> QED
    BY <2>1, <2>2, <2>3
<1>2. CASE HeadOf("FREEZE", s) # Zero
  <2>1. HeadOf("FREEZE", s) \in LiveEffects("FREEZE", s)
    BY <1>2 DEF OverlayInv, HeadsOwned, OwnedHead, Overlay
  <2>2. frozen[s] = actions[HeadOf("FREEZE", s)].amount
    BY <2>1 DEF OverlayInv, FreezeChain, HeadOf
  <2> QED
    BY <1>1, <1>2, <2>1, <2>2 DEF Levels
<1>3. CASE HeadOf("FREEZE", s) = Zero
  <2>1. LiveEffects("FREEZE", s) = {}
    BY <1>3 DEF OverlayInv, LiveBelongs, Overlay
  <2> QED
    BY <1>3, <2>1 DEF Levels, OverlayInv, FreezeLevels
<1> QED
  BY <1>1, <1>2, <1>3 DEF Levels

\* The greatest member of a set of numbers.
LEMMA KernelMaxIs ==
  ASSUME NEW S, NEW m \in S, m \in Int, \A x \in S : x \in Int /\ x <= m
  PROVE  Kernel!Max(S) = m
<1>1. ASSUME NEW x \in S, \A y \in S : x >= y PROVE x = m
  BY <1>1
<1>2. m \in S /\ \A y \in S : m >= y
  OBVIOUS
<1> QED
  BY <1>1, <1>2 DEF Kernel!Max
-----------------------------------------------------------------------------
(* The figures the contract keeps *)

\* _frozen is the highest live target of the subject's open freeze.
LEMMA FrozenIs ==
  ASSUME TypeOK, OverlayInv, NEW s \in Accounts PROVE Kernel!FrozenTarget(s) = frozen[s]
<1> DEFINE U == UNION {[d \in CaseIds |-> KernelCase(d)][c].targets :
                         c \in Kernel!OpenOn("FREEZE", s)}
<1>1. Kernel!FrozenTarget(s) = Kernel!Max({0} \cup U)
  BY DEF Kernel!FrozenTarget
<1>2. frozen[s] \in Nat
  BY DEF TypeOK, OverlayTypeOK
<1>3. U = Levels(s)
  <2>1. CASE HeadOf("FREEZE", s) = Zero
    BY <2>1, OpenOnHead, LevelsBelow DEF Overlay
  <2>2. CASE HeadOf("FREEZE", s) # Zero
    <3> DEFINE h == HeadOf("FREEZE", s)
               c == actions[h].caseId
    <3>1. /\ actions[h].subject = s /\ c \in CaseIds
          /\ cases[c].phase = "OPEN" /\ cases[c].family = "FREEZE"
          /\ cases[c].headActionId = h
      BY <2>2, HeadFacts DEF OverlayInv, Overlay
    <3>2. Kernel!OpenOn("FREEZE", s) = {c}
      BY <2>2, OpenOnHead DEF Overlay
    <3>3. KernelCase(c).targets = Levels(s)
      BY <3>1, FreezeCase DEF FreezeRecord
    <3> HIDE DEF h, c
    <3>4. U = UNION {KernelCase(c).targets}
      BY <3>1, <3>2
    <3> QED
      BY <3>3, <3>4
  <2> QED
    BY <2>1, <2>2
<1> HIDE DEF U
<1>4. frozen[s] \in {0} \cup U /\ \A x \in {0} \cup U : x \in Int /\ x <= frozen[s]
  BY <1>2, <1>3, LevelsBelow
<1>5. Kernel!Max({0} \cup U) = frozen[s]
  BY <1>2, <1>4, KernelMaxIs
<1> QED
  BY <1>1, <1>5

\* _restricted says that the subject has an open restriction.
LEMMA RestrictedIs ==
  ASSUME TypeOK, OverlayInv, NEW s \in Accounts PROVE restricted[s] = Kernel!Restricted(s)
<1>1. restricted[s] = (HeadOf("RESTRICT", s) # Zero)
  BY DEF OverlayInv, RestrictionsAlone
<1>2. (HeadOf("RESTRICT", s) # Zero) = (Kernel!OpenOn("RESTRICT", s) # {})
  BY OpenOnHead DEF Overlay
<1> QED
  BY <1>1, <1>2 DEF Kernel!Restricted

\* A case holds custody when it is open for custody.
LEMMA ActiveIsOpen ==
  ASSUME OverlayInv, NEW c \in CaseIds
  PROVE  custody[c].active <=> cases[c].phase = "OPEN" /\ cases[c].family = "CUSTODY"
<1>1. CaseOwns(c)
  BY DEF OverlayInv, CasesOwn
<1>2. cases[c].phase = "OPEN" /\ cases[c].family = "CUSTODY" => custody[c].active
  BY <1>1 DEF CaseOwns, OpenHead, Overlay
<1> QED
  BY <1>1, <1>2 DEF CaseOwns

\* The sums of both modules are the same.
LEMMA SameSum ==
  ASSUME NEW f, NEW S PROVE Kernel!SumFunctionOnSet(f, S) = SumFunctionOnSet(f, S)
BY DEF Kernel!SumFunctionOnSet, SumFunctionOnSet, Kernel!FoldFunctionOnSet,
   FoldFunctionOnSet, Kernel!MapThenFoldSet, MapThenFoldSet

\* _custodyBacking is what the open custody cases hold with the account.
LEMMA BackingIs ==
  ASSUME OverlayInv, CustodyAccounting, NEW a \in Accounts
  PROVE  Kernel!Backing(a) = custodyBacking[a]
<1> DEFINE f == [c \in CaseIds |->
                   IF c \in Kernel!Open("CUSTODY")
                        /\ [d \in CaseIds |-> KernelCase(d)][c].custodian = a
                     THEN [d \in CaseIds |-> KernelCase(d)][c].amount ELSE 0]
<1>1. Kernel!Backing(a) = Kernel!SumFunctionOnSet(f, CaseIds)
  BY DEF Kernel!Backing
<1>2. ASSUME NEW c \in CaseIds PROVE f[c] = HeldBy(a)[c]
  <2>1. c \in Kernel!Open("CUSTODY") <=> custody[c].active
    BY CaseFields, ActiveIsOpen DEF Kernel!Open
  <2>2. custody[c].active => /\ KernelCase(c).custodian = custody[c].custodian
                             /\ KernelCase(c).amount = custody[c].encumberedAmount
    BY ActiveIsOpen, CustodyCase DEF CustodyRecord
  <2> QED
    BY <2>1, <2>2 DEF HeldBy
<1>3. f = HeldBy(a)
  BY <1>2 DEF HeldBy
<1> QED
  BY <1>1, <1>3, SameSum DEF CustodyAccounting

\* What the endpoint keeps incrementally is what its open cases imply.
THEOREM StateIsDerived == Spec => []DerivedState
<1>1. TypeOK /\ OverlayInv /\ CustodyAccounting => DerivedState
  BY FrozenIs, RestrictedIs, BackingIs DEF DerivedState
<1> QED
  BY <1>1, TypeCorrect, RecordsAgree, CustodyAccounted, PTL
-----------------------------------------------------------------------------
(* What a command does to the case table *)

\* The action records a command writes are of one case.
ActsIn(c) ==
  \A a \in ActionIds :
    \/ actions'[a] = actions[a]
    \/ /\ actions[a].lifecycle = "APPLIED" => actions[a].caseId = c
       /\ actions'[a].lifecycle = "APPLIED" => actions'[a].caseId = c

\* The kernel sees no other case change.
LEMMA OtherCases ==
  ASSUME TypeOK, OverlayInv, NEW c \in CaseIds, CaseMoves(c), ActsIn(c),
         NEW d \in CaseIds \ {c}
  PROVE  KernelCase(d)' = KernelCase(d)
<1>1. cases'[d] = cases[d] /\ custody'[d] = custody[d]
  BY DEF CaseMoves
<1>2. CASE cases[d].phase # "OPEN"
  BY <1>1, <1>2 DEF KernelCase
<1>3. CASE cases[d].phase = "OPEN"
  <2> DEFINE head == cases[d].headActionId
             s == actions[head].subject
             T == {actions[a].amount : a \in {b \in LiveEffects("FREEZE", s) :
                                                actions[b].caseId = d}}
  <2>1. OpenHead(d, head)
    BY <1>3 DEF OverlayInv, CasesOwn, CaseOwns
  <2>2. actions'[head] = actions[head]
    BY <2>1 DEF OpenHead, ActsIn
  <2>3. ASSUME NEW t
        PROVE  {b \in LiveEffects("FREEZE", t)' : actions'[b].caseId = d}
                 = {b \in LiveEffects("FREEZE", t) : actions[b].caseId = d}
    BY DEF ActsIn, LiveEffects
  <2>4. \A b \in LiveEffects("FREEZE", s) :
          actions[b].caseId = d => actions'[b] = actions[b]
    BY DEF ActsIn, LiveEffects
  <2>5. {actions'[a].amount : a \in {b \in LiveEffects("FREEZE", s)' :
                                       actions'[b].caseId = d}} = T
    <3>1. PICK t : t = s
      OBVIOUS
    <3>2. {b \in LiveEffects("FREEZE", t)' : actions'[b].caseId = d}
            = {b \in LiveEffects("FREEZE", t) : actions[b].caseId = d}
      BY <2>3
    <3>3. {b \in LiveEffects("FREEZE", s)' : actions'[b].caseId = d}
            = {b \in LiveEffects("FREEZE", s) : actions[b].caseId = d}
      <4>1. s' = s
        BY <1>1, <2>2
      <4>2. LiveEffects("FREEZE", s)' = LiveEffects("FREEZE", t)'
        BY <3>1, <4>1 DEF LiveEffects
      <4> HIDE DEF s
      <4> QED
        BY <3>1, <3>2, <4>2
    <3> HIDE DEF s
    <3> QED
      BY <2>4, <3>3
  <2>6. s' = s
    BY <1>1, <2>2
  <2> QED
    BY <1>1, <2>2, <2>5, <2>6 DEF KernelCase
<1> QED
  BY <1>2, <1>3

\* Hence a command changes one entry of the case table.
LEMMA TableMoves ==
  ASSUME TypeOK, OverlayInv, NEW c \in CaseIds, CaseMoves(c), ActsIn(c),
         NEW x, KernelCase(c)' = x
  PROVE  [d \in CaseIds |-> KernelCase(d)]'
           = [[d \in CaseIds |-> KernelCase(d)] EXCEPT ![c] = x]
<1>1. \A d \in CaseIds \ {c} : KernelCase(d)' = KernelCase(d)
  BY OtherCases
<1> QED
  BY <1>1

\* An action writes the record of its own identifier and case, ...
LEMMA ActionActs ==
  ASSUME TypeOK, NEW id \in ActionIds, actions[id].lifecycle = "NONE",
         NEW req, NEW ctx, RecordAction(id, req, ctx)
  PROVE  ActsIn(req.caseId)
BY RecordedAction DEF ActsIn

\* ... and a reversal that of the action it reverses.
LEMMA ReversalActs ==
  ASSUME TypeOK, NEW rid, NEW aid \in ActionIds, NEW reversal, NEW ctx,
         ReversalAdmissible(aid, reversal), RecordReversal(rid, aid, reversal, ctx)
  PROVE  ActsIn(actions[aid].caseId)
BY RecordedReversal DEF ActsIn

\* FreezeCase for every case and subject, ...
FreezesSeen ==
  \A c \in CaseIds, s \in Accounts :
    /\ cases[c].phase = "OPEN" /\ cases[c].family = "FREEZE"
    /\ actions[cases[c].headActionId].subject = s
    => KernelCase(c) = FreezeRecord(s, Levels(s))

\* ... as an invariant of the state, ...
LEMMA FreezesAreSeen == TypeOK /\ OverlayInv => FreezesSeen
BY FreezeCase DEF FreezesSeen

\* ... hence also of the state after a step.
LEMMA FreezesSeenAfter == TypeOK' /\ OverlayInv' => FreezesSeen'
BY FreezesAreSeen, PTL

\* _move is the kernel's move.
LEMMA SameMove ==
  ASSUME NEW from, NEW to, NEW n PROVE Kernel!Moved(from, to, n) = Move(from, to, n)
BY DEF Kernel!Moved, Move
-----------------------------------------------------------------------------
(* Actions *)

\* FREEZE opens a case or raises the target of the subject's open one.
LEMMA FreezeRefines ==
  ASSUME TypeOK, OverlayInv, TypeOK', OverlayInv', NEW id \in ActionIds,
         NEW req \in ActionRequest, NEW ctx, actions[id].lifecycle = "NONE",
         ActionShape(req), ApplyFreeze(id, req), RecordAction(id, req, ctx)
  PROVE  Kernel!Next
<1> DEFINE s == req.subject
           c == req.caseId
           n == req.amount
<1>1. /\ s \in Accounts /\ c \in CaseIds /\ n \in 0 .. MaxUint /\ n > frozen[s]
      /\ frozen[s] \in Nat
  BY ShapeFacts DEF ActionRequest, ApplyFreeze, ActionShape, FreezeShape, Disposition,
     TypeOK, OverlayTypeOK
<1>2. Pushes("FREEZE", s, c, id)
  BY FreezePushes
<1>3. /\ actions'[id].amount = n /\ actions'[id].subject = s
      /\ \A a \in ActionIds \ {id} : actions'[a] = actions[a]
  BY RecordedAction
<1>4. Levels(s)' = Levels(s) \cup {n}
  <2>1. /\ LiveEffects("FREEZE", s)' = LiveEffects("FREEZE", s) \cup {id}
        /\ \A a \in LiveEffects("FREEZE", s) : actions'[a] = actions[a]
    BY <1>1, <1>2, PushLive DEF Overlay
  <2>2. Levels(s)' = {actions'[a].amount : a \in LiveEffects("FREEZE", s)'}
    BY DEF Levels
  <2> HIDE DEF s, n
  <2> QED
    BY <1>3, <2>1, <2>2 DEF Levels
<1>5. /\ CaseMoves(c) /\ ActsIn(c)
      /\ UNCHANGED <<balances, consumedEntitlements>>
  BY <1>1, ActionMoves, ActionActs DEF ApplyFreeze, ledgerVars
<1>6. \/ /\ HeadOf("FREEZE", s) = Zero /\ cases[c].phase = "NONE"
      \/ /\ HeadOf("FREEZE", s) # Zero /\ cases[c].headActionId = HeadOf("FREEZE", s)
         /\ cases[c].phase = "OPEN" /\ cases[c].family = "FREEZE"
  BY <1>1, <1>2, PushedCase DEF OverlayInv, Overlay
<1>7. KernelCase(c)' = FreezeRecord(s, Levels(s)')
  <2>1. /\ cases'[c].phase = "OPEN" /\ cases'[c].family = "FREEZE"
        /\ cases'[c].headActionId = id
    BY <1>2, <1>6 DEF Pushes
  <2>2. FreezesSeen'
    BY FreezesSeenAfter
  <2> HIDE DEF s, c
  <2> QED
    BY <1>1, <1>3, <2>1, <2>2 DEF FreezesSeen
<1>8. [d \in CaseIds |-> KernelCase(d)]'
        = [[d \in CaseIds |-> KernelCase(d)] EXCEPT
             ![c] = FreezeRecord(s, Levels(s) \cup {n})]
  BY <1>1, <1>4, <1>5, <1>7, TableMoves
<1> HIDE DEF s, c, n
<1>9. CASE HeadOf("FREEZE", s) = Zero
  <2>1. cases[c].phase = "NONE" /\ Levels(s) = {} /\ Kernel!OpenOn("FREEZE", s) = {}
    BY <1>1, <1>6, <1>9, LevelsBelow, OpenOnHead DEF Overlay
  <2>2. FreezeRecord(s, {n}) = [Kernel!Blank("OPEN", "FREEZE") EXCEPT
                                  !.subject = s, !.targets = {n}]
    BY FreezeRecords
  <2>3. [d \in CaseIds |-> KernelCase(d)][c].phase = "NONE" /\ n > 0
    BY <1>1, <2>1, CaseFields
  <2>4. [d \in CaseIds |-> KernelCase(d)]'
          = [[d \in CaseIds |-> KernelCase(d)] EXCEPT
               ![c] = [Kernel!Blank("OPEN", "FREEZE") EXCEPT
                                  !.subject = s, !.targets = {n}]]
    BY <1>8, <2>1, <2>2
  <2>5. Kernel!OpenFreeze(c, s, n)
    BY <1>5, <2>1, <2>3, <2>4 DEF Kernel!OpenFreeze
  <2> QED
    BY <1>1, <2>5 DEF Kernel!Next
<1>10. CASE HeadOf("FREEZE", s) # Zero
  <2>1. /\ KernelCase(c) = FreezeRecord(s, Levels(s))
        /\ cases[c].phase = "OPEN" /\ cases[c].family = "FREEZE"
    <3>1. actions[HeadOf("FREEZE", s)].subject = s
      BY <1>1, <1>10, HeadFacts DEF OverlayInv, Overlay
    <3> QED
      BY <1>1, <1>6, <1>10, <3>1, FreezeCase
  <2>2. Kernel!Max(Levels(s)) = frozen[s]
    BY <1>1, <1>10, LevelsBelow, KernelMaxIs
  <2>3. [d \in CaseIds |-> KernelCase(d)][c] = FreezeRecord(s, Levels(s))
    BY <1>1, <2>1
  <2>4. /\ FreezeRecord(s, Levels(s)).targets = Levels(s)
        /\ [FreezeRecord(s, Levels(s)) EXCEPT !.targets = Levels(s) \cup {n}]
             = FreezeRecord(s, Levels(s) \cup {n})
    BY FreezeTargets
  <2>5. [d \in CaseIds |-> KernelCase(d)]'
          = [[d \in CaseIds |-> KernelCase(d)] EXCEPT ![c].targets = @ \cup {n}]
    BY <1>1, <1>8, <2>3, <2>4
  <2>6. c \in Kernel!Open("FREEZE")
    BY <1>1, <2>1, CaseFields DEF Kernel!Open
  <2>7. Kernel!AmendFreeze(c, n)
    BY <1>1, <1>5, <2>2, <2>3, <2>4, <2>5, <2>6 DEF Kernel!AmendFreeze
  <2> QED
    BY <1>1, <2>7 DEF Kernel!Next
<1> QED
  BY <1>9, <1>10

\* RESTRICT opens a case.
LEMMA RestrictRefines ==
  ASSUME TypeOK, OverlayInv, NEW id \in ActionIds,
         NEW req \in ActionRequest, NEW ctx, actions[id].lifecycle = "NONE",
         ActionShape(req), ApplyRestrict(id, req), RecordAction(id, req, ctx)
  PROVE  Kernel!Next
<1> DEFINE s == req.subject
           c == req.caseId
<1>1. s \in Accounts /\ c \in CaseIds
  BY ShapeFacts
<1>2. Pushes("RESTRICT", s, c, id) /\ HeadOf("RESTRICT", s) = Zero
  BY RestrictPushes
<1>3. actions'[id].subject = s
  BY RecordedAction
<1>4. /\ CaseMoves(c) /\ ActsIn(c)
      /\ UNCHANGED <<balances, consumedEntitlements>>
  BY <1>1, ActionMoves, ActionActs DEF ApplyRestrict, ledgerVars
<1>5. /\ cases[c].phase = "NONE"
      /\ cases'[c].phase = "OPEN" /\ cases'[c].family = "RESTRICT"
      /\ cases'[c].headActionId = id
  BY <1>2 DEF Pushes
<1>6. KernelCase(c)' = RestrictRecord(s)
  BY <1>3, <1>5 DEF KernelCase, RestrictRecord
<1>7. [d \in CaseIds |-> KernelCase(d)]'
        = [[d \in CaseIds |-> KernelCase(d)] EXCEPT ![c] = RestrictRecord(s)]
  BY <1>1, <1>4, <1>6, TableMoves
<1> HIDE DEF s, c
<1>8. ~ Kernel!Restricted(s)
  BY <1>1, <1>2, OpenOnHead DEF Kernel!Restricted, Overlay
<1>9. RestrictRecord(s) = [Kernel!Blank("OPEN", "RESTRICT") EXCEPT !.subject = s]
  BY RestrictRecords
<1>10. Kernel!OpenRestrict(c, s)
  BY <1>1, <1>4, <1>5, <1>7, <1>8, <1>9, CaseFields DEF Kernel!OpenRestrict
<1> QED
  BY <1>1, <1>10 DEF Kernel!Next

\* A command that closes a case leaves its blank record.
LEMMA ClosedTable ==
  ASSUME TypeOK, OverlayInv, NEW c \in CaseIds, CaseMoves(c), ActsIn(c),
         NEW family, cases'[c].phase = "TERMINAL", cases'[c].family = family
  PROVE  [d \in CaseIds |-> KernelCase(d)]'
           = [[d \in CaseIds |-> KernelCase(d)] EXCEPT
                ![c] = Kernel!Blank("TERMINAL", family)]
<1>1. KernelCase(c)' = Kernel!Blank("TERMINAL", family)
  BY DEF KernelCase, Kernel!Blank
<1> QED
  BY <1>1, TableMoves

\* Tokens that back no custody, in the contract and in the kernel.
LEMMA UnbackedIs ==
  ASSUME TypeOK, OverlayInv, CustodyAccounting, NEW a \in Accounts, NEW n \in Nat,
         RequireUnbacked(a, n)
  PROVE  Kernel!Unbacked(a, n)
BY BackingIs DEF RequireUnbacked, Kernel!Unbacked

\* SEIZE opens a custody case.
LEMMA SeizeRefines ==
  ASSUME TypeOK, OverlayInv, CustodyAccounting, NEW id \in ActionIds,
         NEW req \in ActionRequest, NEW ctx, actions[id].lifecycle = "NONE",
         ActionShape(req), ApplySeize(id, req), RecordAction(id, req, ctx)
  PROVE  Kernel!Next
<1> DEFINE s == req.source
           k == req.custodian
           c == req.caseId
           n == req.amount
<1>1. /\ s \in Accounts /\ k \in Accounts /\ c \in CaseIds /\ n \in 0 .. MaxUint
      /\ s # k /\ n > 0 /\ cases[c].phase = "NONE" /\ req.action = "SEIZE"
  <2>1. /\ req.action = "SEIZE" /\ s \in Accounts /\ k \in Accounts /\ c \in CaseIds
        /\ n \in 0 .. MaxUint
    BY ShapeFacts DEF ApplySeize, ActionRequest
  <2>2. SeizeShape(req) /\ NotTerminal(c)
    BY <2>1 DEF ActionShape, Disposition
  <2> QED
    BY <2>1, <2>2 DEF SeizeShape, ForcedTransferShape, NotTerminal, TypeOK, CaseTypeOK, Case
<1>2. CaseMoves(c) /\ ActsIn(c)
  BY <1>1, ActionMoves, ActionActs
<1>3. KernelCase(c)' = CustodyRecord(s, k, n)
  <2>1. /\ cases'[c].phase = "OPEN" /\ cases'[c].family = "CUSTODY"
        /\ custody'[c].declaredPriorHolder = s /\ custody'[c].custodian = k
        /\ custody'[c].encumberedAmount = n
    BY <1>1 DEF ApplySeize, TypeOK, CaseTypeOK
  <2> HIDE DEF s, k, c, n
  <2> QED
    BY <2>1 DEF KernelCase, CustodyRecord
<1>4. /\ RequireUnbacked(s, n)
      /\ balances' = Move(s, k, n) /\ UNCHANGED consumedEntitlements
  BY DEF ApplySeize
<1> HIDE DEF s, k, c, n
<1>5. [d \in CaseIds |-> KernelCase(d)]'
        = [[d \in CaseIds |-> KernelCase(d)] EXCEPT
             ![c] = [Kernel!Blank("OPEN", "CUSTODY") EXCEPT
                       !.subject = s, !.custodian = k, !.amount = n]]
  BY <1>1, <1>2, <1>3, TableMoves, CustodyRecords
<1>6. [d \in CaseIds |-> KernelCase(d)][c].phase = "NONE"
  BY <1>1, CaseFields
<1>7. Kernel!Unbacked(s, n) /\ balances' = Kernel!Moved(s, k, n)
  BY <1>1, <1>4, UnbackedIs, SameMove
<1>8. Kernel!Seize(c, s, k, n)
  BY <1>1, <1>4, <1>5, <1>6, <1>7 DEF Kernel!Seize
<1> QED
  BY <1>1, <1>8 DEF Kernel!Next

\* CONFISCATE, LIQUIDATE and RECOVER dispose of the custody of an open case, or
\* directly in a case that was not opened.
LEMMA DispositionRefines ==
  ASSUME TypeOK, OverlayInv, CustodyAccounting, NEW id \in ActionIds,
         NEW req \in ActionRequest, NEW ctx, actions[id].lifecycle = "NONE",
         ActionShape(req), ApplyDisposition(id, req), RecordAction(id, req, ctx)
  PROVE  Kernel!Next
<1> DEFINE s == req.source
           t == req.destination
           c == req.caseId
           n == req.amount
           e == req.entitlement
<1>1. /\ s \in Accounts /\ t \in Accounts /\ c \in CaseIds /\ n \in 0 .. MaxUint
      /\ e \in Entitlements \cup {Zero} /\ req.action \in Disposition
  BY ShapeFacts DEF ApplyDisposition, Disposition, ActionRequest
<1>2. /\ s # t /\ n > 0 /\ cases[c].phase # "TERMINAL"
      /\ cases[c].phase = "OPEN" => cases[c].family = "CUSTODY"
  BY <1>1 DEF ActionShape, NotTerminal, DispositionShape, ForcedTransferShape, Disposition
<1>3. CaseMoves(c) /\ ActsIn(c)
  BY <1>1, ActionMoves, ActionActs
<1>4. Kernel!Consume(e)
  <2>1. /\ (e # Zero) = (req.action = "RECOVER")
        /\ e \notin consumedEntitlements
    BY DEF ActionShape, CommitmentShape
  <2>2. consumedEntitlements' = consumedEntitlements
          \cup (IF req.action = "RECOVER" THEN {e} ELSE {})
    BY DEF ApplyDisposition
  <2>3. {e} \ {Zero} = IF req.action = "RECOVER" THEN {e} ELSE {}
    BY <2>1
  <2> QED
    BY <2>1, <2>2, <2>3 DEF Kernel!Consume
<1>5. balances' = Kernel!Moved(s, t, n)
  BY SameMove DEF ApplyDisposition
<1>6. CASE custody[c].active
  <2>1. /\ custody[c].custodian = s /\ custody[c].encumberedAmount = n
        /\ cases' = [cases EXCEPT ![c] = CloseCase(@)]
    BY <1>6 DEF ApplyDisposition, CustodyMatches
  <2> HIDE DEF s, t, c, n, e
  <2>2. cases[c].phase = "OPEN" /\ cases[c].family = "CUSTODY"
    BY <1>1, <1>6, ActiveIsOpen
  <2>3. cases'[c].phase = "TERMINAL" /\ cases'[c].family = "CUSTODY"
    BY <1>1, <2>1, <2>2 DEF CloseCase, TypeOK, CaseTypeOK, Case
  <2>4. /\ [d \in CaseIds |-> KernelCase(d)][c].custodian = s
        /\ [d \in CaseIds |-> KernelCase(d)][c].amount = n
    BY <1>1, <2>1, <2>2, CustodyCase DEF CustodyRecord
  <2>5. c \in Kernel!Open("CUSTODY")
    BY <1>1, <2>2, CaseFields DEF Kernel!Open
  <2>6. Kernel!DisposeCustody(c, t, e)
    BY <1>1, <1>2, <1>3, <1>4, <1>5, <2>3, <2>4, <2>5, ClosedTable
    DEF Kernel!DisposeCustody
  <2> QED
    BY <1>1, <2>6 DEF Kernel!Next
<1>7. CASE ~ custody[c].active
  <2>1. /\ RequireUnbacked(s, n)
        /\ cases' = [cases EXCEPT ![c] = CloseCase([@ EXCEPT !.family = "DISPOSITION"])]
    BY <1>7 DEF ApplyDisposition
  <2> HIDE DEF s, t, c, n, e
  <2>2. cases[c].phase = "NONE"
    BY <1>1, <1>2, <1>7, ActiveIsOpen DEF TypeOK, CaseTypeOK, Case
  <2>3. cases'[c].phase = "TERMINAL" /\ cases'[c].family = "DISPOSITION"
    BY <1>1, <2>1 DEF CloseCase, TypeOK, CaseTypeOK, Case
  <2>4. [d \in CaseIds |-> KernelCase(d)][c].phase = "NONE"
    BY <1>1, <2>2, CaseFields
  <2>5. Kernel!DisposeDirect(c, s, t, n, e)
    BY <1>1, <1>2, <1>3, <1>4, <1>5, <2>1, <2>3, <2>4, ClosedTable, UnbackedIs
    DEF Kernel!DisposeDirect
  <2> QED
    BY <1>1, <2>5 DEF Kernel!Next
<1> QED
  BY <1>6, <1>7
-----------------------------------------------------------------------------
(* Reversals *)

\* The live freezes of a subject other than its head set targets up to the one
\* the head found.
LEMMA OthersBelow ==
  ASSUME TypeOK, OverlayInv, NEW s \in Accounts, NEW head,
         head = HeadOf("FREEZE", s), head # Zero
  PROVE  /\ head \in LiveEffects("FREEZE", s) /\ frozen[s] = actions[head].amount
         /\ actions[head].amount \in Nat /\ actions[head].priorAmount \in Nat
         /\ actions[head].priorAmount < actions[head].amount
         /\ \A a \in LiveEffects("FREEZE", s) \ {head} :
              /\ actions[a].amount \in Nat /\ actions[a].amount > 0
              /\ actions[a].amount <= actions[head].priorAmount
<1>1. \A a \in LiveEffects("FREEZE", s) :
        actions[a].amount \in Nat /\ actions[a].priorAmount \in Nat
  BY RecordOf DEF LiveEffects, Action
<1>2. head \in LiveEffects("FREEZE", s)
  BY DEF OverlayInv, HeadsOwned, OwnedHead, Overlay
<1>3. \A a \in LiveEffects("FREEZE", s) : actions[a].priorAmount < actions[a].amount
  BY DEF OverlayInv, FreezeChain
<1>4. frozen[s] = actions[head].amount
  BY <1>2 DEF OverlayInv, FreezeChain, HeadOf
<1>5. \A a \in LiveEffects("FREEZE", s) \ {head} :
        \/ actions[a].amount <= actions[head].priorAmount
        \/ actions[head].amount <= actions[a].priorAmount
  BY <1>2 DEF OverlayInv, FreezeLevels
<1>6. \A a \in LiveEffects("FREEZE", s) : actions[a].amount <= frozen[s]
  BY DEF OverlayInv, FreezeLevels
<1> QED
  BY <1>1, <1>2, <1>3, <1>4, <1>5, <1>6

\* UNFREEZE takes the highest target off the open freeze of the subject, or
\* closes the case with its only one.
LEMMA UnfreezeRefines ==
  ASSUME TypeOK, OverlayInv, TypeOK', OverlayInv', NEW rid, NEW aid \in ActionIds,
         NEW ctx, ReversalAdmissible(aid, "UNFREEZE"), ApplyUnfreeze(aid),
         UNCHANGED <<effects, consumedEntitlements>>,
         RecordReversal(rid, aid, "UNFREEZE", ctx)
  PROVE  Kernel!Next
<1>1. PICK s, c, parent : /\ s = actions[aid].subject /\ c = actions[aid].caseId
                          /\ parent = effects[aid].parentActionId
  OBVIOUS
<1>2. /\ s \in Accounts /\ c \in CaseIds /\ HeadOf("FREEZE", s) = aid /\ aid # Zero
      /\ actions[aid] \in Action
  <2>1. actions[aid] \in Action
    BY RecordedReversal
  <2>2. actions[aid].action = "FREEZE"
    BY DEF ReversalAdmissible, ReversalMatches
  <2> QED
    BY <1>1, <2>1, <2>2 DEF Action, ReversalAdmissible, CurrentEffect, HeadOf
<1>3. /\ cases[c].phase = "OPEN" /\ cases[c].family = "FREEZE"
      /\ cases[c].headActionId = aid
  BY <1>1, <1>2, HeadFacts DEF OverlayInv, Overlay
<1>4. /\ CaseMoves(c) /\ ActsIn(c)
      /\ UNCHANGED <<balances, consumedEntitlements>>
  BY <1>1, <1>2, ReversalMoves, ReversalActs DEF ApplyUnfreeze, ledgerVars
<1>5. /\ aid \in LiveEffects("FREEZE", s) /\ frozen[s] = actions[aid].amount
      /\ actions[aid].amount \in Nat /\ actions[aid].priorAmount \in Nat
      /\ actions[aid].priorAmount < actions[aid].amount
      /\ \A a \in LiveEffects("FREEZE", s) \ {aid} :
           /\ actions[a].amount \in Nat /\ actions[a].amount > 0
           /\ actions[a].amount <= actions[aid].priorAmount
  BY <1>2, OthersBelow
<1>6. Levels(s)' = Levels(s) \ {frozen[s]}
  <2>1. /\ actions'[aid].lifecycle = "REVERSED"
        /\ \A a \in ActionIds \ {aid} : actions'[a] = actions[a]
    BY RecordedReversal
  <2>2. LiveEffects("FREEZE", s)' = LiveEffects("FREEZE", s) \ {aid}
    BY <2>1 DEF LiveEffects
  <2>3. \A a \in LiveEffects("FREEZE", s) \ {aid} :
          actions'[a] = actions[a] /\ actions[a].amount # frozen[s]
    BY <1>5, <2>1 DEF LiveEffects
  <2>4. Levels(s)' = {actions'[a].amount : a \in LiveEffects("FREEZE", s)'}
    BY DEF Levels
  <2> QED
    BY <1>5, <2>2, <2>3, <2>4 DEF Levels
<1>7. IF parent = Zero
        THEN Levels(s) \ {frozen[s]} = {}
        ELSE /\ Levels(s) \ {frozen[s]} # {}
             /\ actions'[parent].subject = s
  <2>1. IF parent = Zero
          THEN actions[aid].priorAmount = 0
          ELSE /\ parent \in LiveEffects("FREEZE", s)
               /\ actions[aid].priorAmount = actions[parent].amount
    BY <1>1, <1>2, <1>5 DEF OverlayInv, FreezeChain
  <2>2. CASE parent = Zero
    BY <1>5, <2>1, <2>2 DEF Levels
  <2>3. CASE parent # Zero
    <3>1. parent \in LiveEffects("FREEZE", s) /\ actions[parent].amount # frozen[s]
      BY <1>5, <2>1, <2>3
    <3>2. actions'[parent] = actions[parent] /\ actions[parent].subject = s
      BY <1>5, <3>1, RecordedReversal DEF LiveEffects
    <3> QED
      BY <2>3, <3>1, <3>2 DEF Levels
  <2> QED
    BY <2>2, <2>3
<1>8. /\ [d \in CaseIds |-> KernelCase(d)][c] = FreezeRecord(s, Levels(s))
      /\ c \in Kernel!Open("FREEZE")
  BY <1>1, <1>2, <1>3, FreezeCase, CaseFields DEF Kernel!Open
<1>9. /\ FreezeRecord(s, Levels(s)).targets = Levels(s)
      /\ [FreezeRecord(s, Levels(s)) EXCEPT !.targets = Levels(s) \ {frozen[s]}]
           = FreezeRecord(s, Levels(s) \ {frozen[s]})
  BY FreezeTargets
<1>10. Kernel!Max(Levels(s)) = frozen[s]
  BY <1>2, LevelsBelow, KernelMaxIs
<1>11. cases' = [cases EXCEPT ![c] = IF parent # Zero THEN FallBack(@, parent)
                                                      ELSE CloseCase(@)]
  BY <1>1 DEF ApplyUnfreeze
<1>12. CASE parent = Zero
  <2>1. cases'[c].phase = "TERMINAL" /\ cases'[c].family = "FREEZE"
    BY <1>2, <1>3, <1>11, <1>12 DEF CloseCase, TypeOK, CaseTypeOK, Case
  <2>2. [d \in CaseIds |-> KernelCase(d)]'
          = [[d \in CaseIds |-> KernelCase(d)] EXCEPT
               ![c] = Kernel!Blank("TERMINAL", "FREEZE")]
    BY <1>2, <1>4, <2>1, ClosedTable
  <2>3. Kernel!Unfreeze(c)
    BY <1>4, <1>7, <1>8, <1>9, <1>10, <1>12, <2>2 DEF Kernel!Unfreeze
  <2> QED
    BY <1>2, <2>3 DEF Kernel!Next
<1>13. CASE parent # Zero
  <2>1. /\ cases'[c].phase = "OPEN" /\ cases'[c].family = "FREEZE"
        /\ cases'[c].headActionId = parent
    BY <1>2, <1>3, <1>11, <1>13 DEF FallBack, TypeOK, CaseTypeOK, Case
  <2>2. KernelCase(c)' = FreezeRecord(s, Levels(s)')
    <3>1. FreezesSeen'
      BY FreezesSeenAfter
    <3> QED
      BY <1>2, <1>7, <1>13, <2>1, <3>1 DEF FreezesSeen
  <2>3. [d \in CaseIds |-> KernelCase(d)]'
          = [[d \in CaseIds |-> KernelCase(d)] EXCEPT
               ![c] = FreezeRecord(s, Levels(s) \ {frozen[s]})]
    BY <1>2, <1>4, <1>6, <2>2, TableMoves
  <2>4. [d \in CaseIds |-> KernelCase(d)]'
          = [[d \in CaseIds |-> KernelCase(d)] EXCEPT
               ![c] = [@ EXCEPT !.targets = Levels(s) \ {frozen[s]}]]
    BY <1>2, <1>8, <1>9, <2>3
  <2>5. Kernel!Unfreeze(c)
    BY <1>4, <1>7, <1>8, <1>9, <1>10, <1>13, <2>4 DEF Kernel!Unfreeze
  <2> QED
    BY <1>2, <2>5 DEF Kernel!Next
<1> QED
  BY <1>12, <1>13

\* UNRESTRICT closes the case of the restriction.
LEMMA UnrestrictRefines ==
  ASSUME TypeOK, OverlayInv, NEW rid, NEW aid \in ActionIds, NEW ctx,
         ReversalAdmissible(aid, "UNRESTRICT"), ApplyUnrestrict(aid),
         UNCHANGED <<effects, consumedEntitlements>>,
         RecordReversal(rid, aid, "UNRESTRICT", ctx)
  PROVE  Kernel!Next
<1>1. PICK s, c : s = actions[aid].subject /\ c = actions[aid].caseId
  OBVIOUS
<1>2. /\ s \in Accounts /\ c \in CaseIds /\ HeadOf("RESTRICT", s) = aid /\ aid # Zero
      /\ actions[aid] \in Action
  <2>1. actions[aid] \in Action
    BY RecordedReversal
  <2>2. actions[aid].action = "RESTRICT"
    BY DEF ReversalAdmissible, ReversalMatches
  <2> QED
    BY <1>1, <2>1, <2>2 DEF Action, ReversalAdmissible, CurrentEffect, HeadOf
<1>3. cases[c].phase = "OPEN" /\ cases[c].family = "RESTRICT"
  BY <1>1, <1>2, HeadFacts DEF OverlayInv, Overlay
<1>4. /\ CaseMoves(c) /\ ActsIn(c)
      /\ UNCHANGED <<balances, consumedEntitlements>>
  BY <1>1, <1>2, ReversalMoves, ReversalActs DEF ApplyUnrestrict, ledgerVars
<1>5. cases'[c].phase = "TERMINAL" /\ cases'[c].family = "RESTRICT"
  BY <1>1, <1>2, <1>3 DEF ApplyUnrestrict, CloseCase, TypeOK, CaseTypeOK, Case
<1>6. c \in Kernel!Open("RESTRICT")
  BY <1>2, <1>3, CaseFields DEF Kernel!Open
<1>7. Kernel!Unrestrict(c)
  BY <1>2, <1>4, <1>5, <1>6, ClosedTable DEF Kernel!Unrestrict
<1> QED
  BY <1>2, <1>7 DEF Kernel!Next

\* RELEASE returns what the open custody case holds.
LEMMA ReleaseRefines ==
  ASSUME TypeOK, OverlayInv, NEW rid, NEW aid \in ActionIds, NEW ctx,
         ReversalAdmissible(aid, "RELEASE"), ApplyRelease(aid),
         UNCHANGED <<effects, consumedEntitlements>>,
         RecordReversal(rid, aid, "RELEASE", ctx)
  PROVE  Kernel!Next
<1>1. PICK c, from, to, n :
        /\ c = actions[aid].caseId /\ n = custody[c].encumberedAmount
        /\ from = custody[c].custodian /\ to = custody[c].declaredPriorHolder
  OBVIOUS
<1>2. actions[aid] \in Action /\ actions[aid].action = "SEIZE" /\ c \in CaseIds
  <2>1. actions[aid] \in Action
    BY RecordedReversal
  <2>2. actions[aid].action = "SEIZE"
    BY DEF ReversalAdmissible, ReversalMatches
  <2> QED
    BY <1>1, <2>1, <2>2 DEF Action
<1>3. custody[c].active /\ actions[aid].amount = n
  BY <1>1, <1>2 DEF ReversalAdmissible, CurrentEffect
<1>4. cases[c].phase = "OPEN" /\ cases[c].family = "CUSTODY"
  BY <1>2, <1>3, ActiveIsOpen
<1>5. /\ CaseMoves(c) /\ ActsIn(c) /\ UNCHANGED consumedEntitlements
  BY <1>1, <1>2, ReversalMoves, ReversalActs
<1>6. cases'[c].phase = "TERMINAL" /\ cases'[c].family = "CUSTODY"
  BY <1>1, <1>2, <1>4 DEF ApplyRelease, CloseCase, TypeOK, CaseTypeOK, Case
<1>7. balances' = Kernel!Moved(from, to, n)
  <2>1. balances' = Move(from, to, n)
    BY <1>1, <1>3 DEF ApplyRelease
  <2> QED
    BY <2>1, SameMove
<1>8. /\ c \in Kernel!Open("CUSTODY")
      /\ [d \in CaseIds |-> KernelCase(d)][c] = CustodyRecord(to, from, n)
  BY <1>1, <1>2, <1>4, CaseFields, CustodyCase DEF Kernel!Open
<1>9. /\ CustodyRecord(to, from, n).custodian = from
      /\ CustodyRecord(to, from, n).subject = to
      /\ CustodyRecord(to, from, n).amount = n
  BY DEF CustodyRecord
<1>10. Kernel!Release(c)
  BY <1>2, <1>5, <1>6, <1>7, <1>8, <1>9, ClosedTable DEF Kernel!Release
<1> QED
  BY <1>2, <1>10 DEF Kernel!Next
-----------------------------------------------------------------------------
(* The whole endpoint *)

\* A step that leaves cases, custody and action records alone leaves the
\* kernel's case table alone.
LEMMA TableStays ==
  ASSUME UNCHANGED <<cases, custody, actions>>
  PROVE  [d \in CaseIds |-> KernelCase(d)]' = [d \in CaseIds |-> KernelCase(d)]
<1>1. \A d : KernelCase(d)' = KernelCase(d)
  BY DEF KernelCase, LiveEffects
<1> QED
  BY <1>1

\* What the contract lets a holder send is free in the kernel.
LEMMA TransferRefines ==
  ASSUME TypeOK, OverlayInv, CustodyAccounting, NEW from \in Accounts,
         NEW to \in Address, NEW amount \in Amounts, OrdinaryTransfer(from, to, amount)
  PROVE  Kernel!Next
<1>1. /\ to \in Accounts /\ amount \in 0 .. MaxUint
      /\ ~ restricted[from] /\ ~ restricted[to]
  BY DEF OrdinaryTransfer, CanSend, CanReceive, Address
<1>2. ~ Kernel!Restricted(from) /\ ~ Kernel!Restricted(to)
  BY <1>1, RestrictedIs
<1>3. amount = 0 \/ amount <= balances[from] - custodyBacking[from] - frozen[from]
  <2>1. /\ balances[from] \in Nat /\ custodyBacking[from] \in Nat
        /\ frozen[from] \in Nat
    BY DEF TypeOK, LedgerTypeOK, OverlayTypeOK
  <2>2. amount <= OrdinaryAvailable(from)
    BY DEF OrdinaryTransfer
  <2> QED
    BY <1>1, <2>1, <2>2 DEF OrdinaryAvailable
<1>4. /\ Kernel!Backing(from) = custodyBacking[from]
      /\ Kernel!FrozenTarget(from) = frozen[from]
  BY BackingIs, FrozenIs
<1>5. balances' = Kernel!Moved(from, to, amount)
  BY SameMove DEF OrdinaryTransfer
<1>6. UNCHANGED <<cases, custody, actions, consumedEntitlements>>
  BY DEF OrdinaryTransfer, caseVars, commandVars
<1>7. Kernel!OrdinaryTransfer(from, to, amount)
  BY <1>2, <1>3, <1>4, <1>5, <1>6, TableStays DEF Kernel!OrdinaryTransfer
<1> QED
  BY <1>1, <1>7 DEF Kernel!Next

\* executeRegulatoryAction is a transition of the table.
LEMMA ActionRefines ==
  ASSUME TypeOK, OverlayInv, CustodyAccounting, TypeOK', OverlayInv',
         NEW id \in ActionIds, ExecuteRegulatoryAction(id)
  PROVE  Kernel!Next
<1>1. PICK ctx \in Contexts, req \in Requests :
        /\ ActionShape(req)
        /\ \/ ApplyFreeze(id, req)
           \/ ApplyRestrict(id, req)
           \/ ApplySeize(id, req)
           \/ ApplyDisposition(id, req)
        /\ RecordAction(id, req, ctx)
  BY DEF ExecuteRegulatoryAction
<1>2. req \in ActionRequest /\ actions[id].lifecycle = "NONE"
  BY DEF ExecuteRegulatoryAction
<1> QED
  BY <1>1, <1>2, FreezeRefines, RestrictRefines, SeizeRefines, DispositionRefines

\* So is executeRegulatoryReversal.
LEMMA ReversalRefines ==
  ASSUME TypeOK, OverlayInv, TypeOK', OverlayInv',
         NEW rid \in ReversalIds, ExecuteRegulatoryReversal(rid)
  PROVE  Kernel!Next
<1>1. PICK ctx \in Contexts, aid \in ActionIds, reversal \in ReversalKind :
        /\ ReversalAdmissible(aid, reversal)
        /\ \/ reversal = "UNFREEZE" /\ ApplyUnfreeze(aid)
           \/ reversal = "UNRESTRICT" /\ ApplyUnrestrict(aid)
           \/ reversal = "RELEASE" /\ ApplyRelease(aid)
        /\ RecordReversal(rid, aid, reversal, ctx)
  BY DEF ExecuteRegulatoryReversal
<1>2. UNCHANGED <<effects, consumedEntitlements>>
  BY DEF ExecuteRegulatoryReversal
<1> QED
  BY <1>1, <1>2, UnfreezeRefines, UnrestrictRefines, ReleaseRefines

\* A step that touches none of what the kernel sees.
LEMMA KernelStutters ==
  ASSUME UNCHANGED <<cases, custody, actions, balances, consumedEntitlements>>
  PROVE  UNCHANGED Kernel!vars
BY TableStays DEF Kernel!vars

\* Every step of the endpoint is a step of the kernel or a stutter.
LEMMA NextRefines ==
  ASSUME TypeOK, OverlayInv, CustodyAccounting, TypeOK', OverlayInv', [Next]_vars
  PROVE  [Kernel!Next]_(Kernel!vars)
<1>1. CASE TokenStep
  <2>1. CASE \E owner \in Accounts, spender \in Address, value \in ApprovalValues :
               Approve(owner, spender, value)
    BY <2>1, KernelStutters DEF Approve, ledgerVars, caseVars, commandVars
  <2>2. CASE \E from \in Accounts, to \in Address, amount \in Amounts :
               OrdinaryTransfer(from, to, amount)
    BY <2>2, TransferRefines
  <2> QED
    BY <1>1, <2>1, <2>2 DEF TokenStep, Transfer, TransferFrom
<1>2. CASE CommandStep
  BY <1>2, ActionRefines, ReversalRefines DEF CommandStep
<1>3. CASE GovernanceStep
  BY <1>3, KernelStutters
  DEF GovernanceStep, ConfigureAuthority, RebindDependency, ledgerVars, caseVars,
      commandVars
<1>4. CASE EnvironmentStep
  BY <1>4, KernelStutters
  DEF EnvironmentStep, DependencyDrifts, Tick, ledgerVars, caseVars, commandVars
<1>5. CASE UNCHANGED vars
  BY <1>5, KernelStutters DEF vars, ledgerVars, caseVars, commandVars
<1> QED
  BY <1>1, <1>2, <1>3, <1>4, <1>5 DEF Next

\* The constructor leaves the kernel's initial state.
LEMMA InitRefines == Init => Kernel!Init
<1> SUFFICES ASSUME Init PROVE Kernel!Init
  OBVIOUS
<1>1. \A d \in CaseIds : cases[d].phase = "NONE" /\ cases[d].family = "NONE"
  BY DEF Init, NoCase
<1>2. \A d \in CaseIds : KernelCase(d) = Kernel!Blank("NONE", "NONE")
  BY <1>1, BlankCase
<1>3. /\ Supply \in 0 .. MaxUint /\ InitialHolder \in Accounts
      /\ balances = [a \in Accounts |-> IF a = InitialHolder THEN Supply ELSE 0]
      /\ consumedEntitlements = {}
  BY DEF Init
<1> QED
  BY <1>2, <1>3 DEF Kernel!Init

\* The native endpoint implements the kernel: whatever the accounts, cases,
\* requests and the order of the transactions, each is a transition of the
\* normative case table or leaves the table and the balances alone.
THEOREM EndpointImplementsKernel == Spec => ImplementsKernel
<1>1. /\ TypeOK /\ OverlayInv /\ CustodyAccounting /\ TypeOK' /\ OverlayInv'
      /\ [Next]_vars
      => [Kernel!Next]_(Kernel!vars)
  BY NextRefines
<1> QED
  BY <1>1, InitRefines, TypeCorrect, RecordsAgree, CustodyAccounted, PTL
  DEF Spec, ImplementsKernel, Kernel!Spec
=============================================================================
