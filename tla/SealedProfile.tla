--------------------------- MODULE SealedProfile ---------------------------
(***************************************************************************)
(* The two ERC-3643 profiles: an adapter that is the exclusive agent of a  *)
(* token it does not control the code of.  The partial profile             *)
(* (ERC3643TrustAdapter.sol, ProfileGovernor.sol) takes over an existing   *)
(* token by a one-way seal that imports declared state; the hook profile   *)
(* (ERC3643HookAdapter.sol and its governor, compliance and deployment) is *)
(* sealed while it is constructed and is called back on every balance      *)
(* change.                                                                 *)
(*                                                                         *)
(* One action is one transaction.  A check of the adapter on what the      *)
(* token did is a guard on the outcome of the token's call: a transaction  *)
(* that fails it reverts, which is not taking the step.  So does a command *)
(* the policy or the identity registry denies, or one that names another   *)
(* authority, epoch, root or window; those are inputs of TrustToken and    *)
(* not repeated here, and neither are the hashes of receipts.  An action   *)
(* identifier is its position in actions.                                  *)
(***************************************************************************)
EXTENDS Integers, Sequences, SequencesExt, FiniteSetsExt

CONSTANTS
  Holders, Adapter,     \* accounts; the adapter is the only custodian
  InitialBalance,       \* the token's balances when the behaviour begins
  Profiles,             \* which of "partial" and "hook" are deployed
  CaseIds, Nonces, Entitlements,
  Targets,              \* frozen targets a command may name
  MaxChanges,           \* bound on changes made behind the adapter
  None

Accounts == Holders \cup {Adapter}
Family == {"FREEZE", "RESTRICT"}
Cases == CaseIds \cup (Accounts \X Family)     \* the latter are imported
NoHead == 0

ASSUME AccountAssumption == Adapter \notin Holders /\ None \notin Accounts
ASSUME BalanceAssumption == InitialBalance \in [Accounts -> Nat]
ASSUME TargetAssumption == Targets \subseteq Nat

\* Addresses and identifiers are words of fixed width.
ASSUME FinitenessAssumption == IsFiniteSet(Holders) /\ IsFiniteSet(CaseIds)

Custody == [prior: Accounts, amount: Nat, action: Nat \ {0}]
ASSUME CustodyAssumption == None \notin Custody

Supply == SumFunction(InitialBalance)
Amounts == 0 .. Supply

VARIABLES
  profile, sealed,
  drifted,              \* the topology or a dependency is not the sealed one
  balance, frozen, restricted,                 \* the token
  owned,                                       \* the adapter's view of it
  actions, freezeHead, restrictionHead, cases, custody, backing,
  used, entitled,       \* nonces and entitlements
  changes, disturbed    \* history: changes so far, and to which accounts

tokenVars == <<balance, frozen, restricted, owned>>
caseVars == <<actions, freezeHead, restrictionHead, cases, custody, backing>>
vars == <<profile, sealed, drifted, tokenVars, caseVars, used, entitled,
          changes, disturbed>>

----------------------------------------------------------------------------
(* What one transaction works on: the token and what the adapter owns.     *)

Unit == [balance |-> balance, frozen |-> frozen, restricted |-> restricted,
         owned |-> owned]

Becomes(u) ==
  /\ balance' = u.balance /\ frozen' = u.frozen
  /\ restricted' = u.restricted /\ owned' = u.owned

_requireOwnedUpstreamState(u, a) ==
  /\ u.frozen[a] = u.owned[a].applied
  /\ u.restricted[a] = u.owned[a].restricted

(* The token's frozen amount becomes the target, capped by the balance.    *)
_syncFrozen(u, a) ==
  LET expected == Min({u.owned[a].target, u.balance[a]})
  IN [u EXCEPT !.frozen[a] = expected, !.owned[a].applied = expected]

FaultyBalanceChanged(u, from, to) ==           \* only the sender is brought back
  IF profile = "hook" THEN _syncFrozen(u, from) ELSE u

(* After every change of balances the hook profile is called back.         *)
onTokenBalanceChanged(u, from, to) ==
  IF profile = "hook" THEN _syncFrozen(_syncFrozen(u, from), to) ELSE u

Moved(u, from, to, amount) ==
  [u EXCEPT !.balance = [@ EXCEPT ![from] = u.balance[from] - amount,
                                  ![to] = u.balance[to] + amount]]

(* What the token may do when told to transfer: the move, unfreezing the   *)
(* sender as ERC-3643 does or not, in either case perhaps with one of the  *)
(* two address freezes lost on the way; or nothing at all.                 *)
forcedTransferOutcomes(u, from, to, amount) ==
  LET moved == Moved(u, from, to, amount)
      short == Max({0, amount - (u.balance[from] - u.frozen[from])})
      unfrozen == [moved EXCEPT !.frozen[from] = @ - short]
      lost(v) == {v, [v EXCEPT !.restricted[from] = FALSE],
                     [v EXCEPT !.restricted[to] = FALSE]}
      done == lost(unfrozen) \cup IF profile = "hook" THEN {} ELSE lost(moved)
  IN {u} \cup IF amount <= u.balance[from]
              THEN {onTokenBalanceChanged(v, from, to) : v \in done} ELSE {}

FaultyForcedTransfer(u, from, to, amount) ==   \* address freezes not compared
  {_syncFrozen(_syncFrozen(v, from), to) :
     v \in {w \in forcedTransferOutcomes(u, from, to, amount) :
              w.balance = Moved(u, from, to, amount).balance}}

(* Both balances are verified, both frozen amounts brought back to their   *)
(* targets, and then both address freezes verified.                        *)
_forcedTransfer(u, from, to, amount) ==
  LET verified == {v \in forcedTransferOutcomes(u, from, to, amount) :
                     v.balance = Moved(u, from, to, amount).balance}
      synced == {_syncFrozen(_syncFrozen(v, from), to) : v \in verified}
  IN {v \in synced : \A a \in {from, to} : v.restricted[a] = v.owned[a].restricted}

_setRestricted(u, a, flag) ==
  [u EXCEPT !.restricted[a] = flag, !.owned[a].restricted = flag]
----------------------------------------------------------------------------
(* Commands of the authority.                                              *)

sealedTopologyLive == sealed /\ ~drifted

Authorized(n) ==
  /\ sealedTopologyLive
  /\ n \in Nonces \ used
  /\ used' = used \cup {n}
  /\ UNCHANGED <<profile, sealed, drifted, changes, disturbed>>

FaultyRecord(kind, subject, source, destination, amount, case, parent) ==
  [kind |-> kind, lifecycle |-> "APPLIED", subject |-> subject,
   source |-> source, destination |-> destination, amount |-> amount,
   prior |-> 0,                   \* an amended target is forgotten
   priorFlag |-> FALSE, case |-> case, parent |-> parent]

Record(kind, subject, source, destination, amount, case, parent) ==
  [kind |-> kind, lifecycle |-> "APPLIED", subject |-> subject,
   source |-> source, destination |-> destination, amount |-> amount,
   prior |-> IF kind = "FREEZE" THEN owned[subject].target ELSE 0,
   priorFlag |-> kind = "RESTRICT" /\ owned[subject].restricted,
   case |-> case, parent |-> parent]

NextAction == Len(actions) + 1

_openOverlay(c, family) ==
  [cases EXCEPT ![c].head = NextAction,
                ![c].family = IF cases[c].phase = "NONE" THEN family ELSE @,
                ![c].phase = IF @ = "NONE" THEN "OPEN" ELSE @]

_closeCase(c) == [cases EXCEPT ![c].phase = "TERMINAL", ![c].head = NoHead]

_requireOverlayAdmissible(c, head) ==
  IF head = NoHead THEN cases[c].phase = "NONE" ELSE cases[c].head = head

FaultyRequireUnbacked(a, amount) ==   \* what is backing is spent too
  amount <= balance[a]

(* Only what exceeds the backing of open custody cases is free.            *)
_requireUnbacked(a, amount) ==
  amount <= balance[a] - (IF a = Adapter THEN backing ELSE 0)

Freeze(n, a, c, target) ==
  /\ Authorized(n)
  /\ _requireOverlayAdmissible(c, freezeHead[a])
  /\ target > owned[a].target
  /\ _requireOwnedUpstreamState(Unit, a)
  /\ actions' = Append(actions, Record("FREEZE", a, a, None, target, c, freezeHead[a]))
  /\ freezeHead' = [freezeHead EXCEPT ![a] = NextAction]
  /\ cases' = _openOverlay(c, "FREEZE")
  /\ Becomes(_syncFrozen([Unit EXCEPT !.owned[a].target = target], a))
  /\ UNCHANGED <<restrictionHead, custody, backing, entitled>>

RestrictAddress(n, a, c) ==
  /\ Authorized(n)
  /\ restrictionHead[a] = NoHead           \* an amendment would change nothing
  /\ _requireOverlayAdmissible(c, restrictionHead[a])
  /\ _requireOwnedUpstreamState(Unit, a)
  /\ actions' = Append(actions, Record("RESTRICT", a, a, None, 0, c, NoHead))
  /\ restrictionHead' = [restrictionHead EXCEPT ![a] = NextAction]
  /\ cases' = _openOverlay(c, "RESTRICT")
  /\ Becomes(_setRestricted(Unit, a, TRUE))
  /\ UNCHANGED <<freezeHead, custody, backing, entitled>>

Seize(n, a, c, amount) ==
  /\ Authorized(n)
  /\ a # Adapter /\ amount > 0
  /\ cases[c].phase = "NONE"
  /\ \A x \in {a, Adapter} : _requireOwnedUpstreamState(Unit, x)
  /\ _requireUnbacked(a, amount)
  /\ \E u \in _forcedTransfer(Unit, a, Adapter, amount) : Becomes(u)
  /\ actions' = Append(actions, Record("SEIZE", a, a, Adapter, amount, c, NoHead))
  /\ custody' = [custody EXCEPT ![c] = [prior |-> a, amount |-> amount,
                                        action |-> NextAction]]
  /\ backing' = backing + amount
  /\ cases' = [cases EXCEPT ![c] = [phase |-> "OPEN", family |-> "CUSTODY",
                                    head |-> NextAction]]
  /\ UNCHANGED <<freezeHead, restrictionHead, entitled>>

_consumeMatchingCustody(c, subject, source, amount) ==
  /\ custody[c] # None
  /\ source = Adapter /\ custody[c].amount = amount /\ custody[c].prior = subject
  /\ backing >= amount
  /\ custody' = [custody EXCEPT ![c] = None]
  /\ backing' = backing - amount

(* Confiscation and liquidation, which differ in commitments, and, with an *)
(* entitlement, recovery.  From custody, the seized amount as it stands.   *)
Dispose(n, subject, source, to, c, amount, entitlement) ==
  /\ Authorized(n)
  /\ source # to /\ amount > 0
  /\ cases[c].phase # "TERMINAL"
  /\ IF cases[c].phase = "OPEN" THEN cases[c].family = "CUSTODY"
     ELSE subject = source
  /\ entitlement \notin entitled
  /\ \A a \in {subject, source, to} : _requireOwnedUpstreamState(Unit, a)
  /\ \/ _consumeMatchingCustody(c, subject, source, amount)
     \/ /\ custody[c] = None /\ _requireUnbacked(source, amount)
        /\ UNCHANGED <<custody, backing>>
  /\ \E u \in _forcedTransfer(Unit, source, to, amount) : Becomes(u)
  /\ actions' = Append(actions, Record("DISPOSE", subject, source, to, amount,
                                       c, NoHead))
  /\ cases' = [_closeCase(c) EXCEPT ![c].family =
                 IF custody[c] = None THEN "DISPOSITION" ELSE @]
  /\ entitled' = entitled \cup ({entitlement} \ {None})
  /\ UNCHANGED <<freezeHead, restrictionHead>>

(* What every reversal of action i checks and writes. *)
Reversible(n, i) ==
  /\ Authorized(n)
  /\ actions[i].lifecycle = "APPLIED"
  /\ cases[actions[i].case].phase # "TERMINAL"
  /\ actions' = [actions EXCEPT ![i].lifecycle = "REVERSED"]
  /\ UNCHANGED entitled

Unfreeze(n, i) ==
  LET a == actions[i].subject IN
  /\ Reversible(n, i)
  /\ actions[i].kind = "FREEZE"
  /\ freezeHead[a] = i /\ owned[a].target = actions[i].amount
  /\ _requireOwnedUpstreamState(Unit, a)
  /\ freezeHead' = [freezeHead EXCEPT ![a] = actions[i].parent]
  /\ Becomes(_syncFrozen([Unit EXCEPT !.owned[a].target = actions[i].prior], a))
  /\ cases' = IF actions[i].parent # NoHead
              THEN [cases EXCEPT ![actions[i].case].head = actions[i].parent]
              ELSE _closeCase(actions[i].case)
  /\ UNCHANGED <<restrictionHead, custody, backing>>

Unrestrict(n, i) ==
  LET a == actions[i].subject IN
  /\ Reversible(n, i)
  /\ actions[i].kind = "RESTRICT"
  /\ restrictionHead[a] = i /\ owned[a].restricted
  /\ _requireOwnedUpstreamState(Unit, a)
  /\ restrictionHead' = [restrictionHead EXCEPT ![a] = actions[i].parent]
  /\ Becomes(_setRestricted(Unit, a, actions[i].priorFlag))
  /\ cases' = _closeCase(actions[i].case)
  /\ UNCHANGED <<freezeHead, custody, backing>>

Release(n, i) ==
  LET c == actions[i].case
      amount == actions[i].amount
  IN
  /\ Reversible(n, i)
  /\ actions[i].kind = "SEIZE"
  /\ custody[c] = [prior |-> actions[i].source, amount |-> amount, action |-> i]
  /\ backing >= amount
  /\ \A a \in {Adapter, actions[i].source} : _requireOwnedUpstreamState(Unit, a)
  /\ custody' = [custody EXCEPT ![c] = None]
  /\ backing' = backing - amount
  /\ \E u \in _forcedTransfer(Unit, Adapter, actions[i].source, amount) : Becomes(u)
  /\ cases' = _closeCase(c)
  /\ UNCHANGED <<freezeHead, restrictionHead>>
----------------------------------------------------------------------------
(* The seal, the public repair call, and what happens outside commands.    *)

(* Every declared entry is what the token shows now. *)
Matches(entries) ==
  \A a \in DOMAIN entries : /\ frozen[a] = entries[a].frozenAmount
                            /\ restricted[a] = entries[a].restricted

(* The manifest declares state of some accounts, none of it zero.          *)
Manifests ==
  UNION {[S -> [frozenAmount: Amounts, restricted: BOOLEAN]
               \ {[frozenAmount |-> 0, restricted |-> FALSE]}] : S \in SUBSET Accounts}

(* Each declared state becomes owned, and the head of an open case.        *)
seal(entries) ==
  LET imported == {e \in (DOMAIN entries) \X Family :
                     IF e[2] = "FREEZE" THEN entries[e[1]].frozenAmount # 0
                     ELSE entries[e[1]].restricted}
      order == SetToSeq(imported)
      action(a, f) == CHOOSE i \in DOMAIN order : order[i] = <<a, f>>
      head(a, f) == IF <<a, f>> \in imported THEN action(a, f) ELSE NoHead
  IN
  /\ profile = "partial" /\ ~sealed /\ ~drifted
  /\ Matches(entries)
  /\ sealed' = TRUE
  /\ owned' = [a \in Accounts |->
                 IF a \in DOMAIN entries
                 THEN [target |-> entries[a].frozenAmount,
                       applied |-> entries[a].frozenAmount,
                       restricted |-> entries[a].restricted]
                 ELSE owned[a]]
  /\ actions' = [i \in DOMAIN order |->
       [Record(order[i][2], order[i][1], order[i][1], None,
               IF order[i][2] = "FREEZE" THEN entries[order[i][1]].frozenAmount ELSE 0,
               order[i], NoHead) EXCEPT !.prior = 0, !.priorFlag = FALSE]]
  /\ freezeHead' = [a \in Accounts |-> head(a, "FREEZE")]
  /\ restrictionHead' = [a \in Accounts |-> head(a, "RESTRICT")]
  /\ cases' = [c \in Cases |->
                 IF c \in imported
                 THEN [phase |-> "OPEN", family |-> c[2], head |-> action(c[1], c[2])]
                 ELSE cases[c]]
  /\ disturbed' = {a \in Accounts \ DOMAIN entries : frozen[a] # 0 \/ restricted[a]}
  /\ UNCHANGED <<profile, drifted, balance, frozen, restricted, custody,
                 backing, used, entitled, changes>>

resynchroniseFrozen(a) ==
  /\ sealedTopologyLive
  /\ _requireOwnedUpstreamState(Unit, a)
  /\ Becomes(_syncFrozen(Unit, a))
  /\ UNCHANGED <<profile, sealed, drifted, caseVars, used, entitled, changes, disturbed>>

(* A holder's transfer.  The token of the hook profile lets it pass only   *)
(* when the callback does.                                                 *)
transfer(from, to, amount) ==
  /\ from # Adapter /\ from # to /\ amount > 0
  /\ profile = "hook" => sealedTopologyLive
  /\ ~restricted[from] /\ ~restricted[to]
  /\ amount <= balance[from] - frozen[from]
  /\ Becomes(onTokenBalanceChanged(Moved(Unit, from, to, amount), from, to))
  /\ UNCHANGED <<profile, sealed, drifted, caseVars, used, entitled, changes, disturbed>>

(* Agents before the seal, or the token itself at any time, set the frozen *)
(* amount and the address freeze of an account.                            *)
UpstreamChange(a) ==
  /\ changes < MaxChanges
  /\ changes' = changes + 1
  /\ \E amount \in 0 .. balance[a], flag \in BOOLEAN :
       /\ frozen' = [frozen EXCEPT ![a] = amount]
       /\ restricted' = [restricted EXCEPT ![a] = flag]
  /\ disturbed' = IF sealed THEN disturbed \cup {a} ELSE disturbed
  /\ UNCHANGED <<profile, sealed, drifted, balance, owned, caseVars, used, entitled>>

(* Owner, agent, registry, compliance or code becomes another, or is put   *)
(* back.                                                                   *)
TopologyChange ==
  /\ changes < MaxChanges
  /\ changes' = changes + 1
  /\ drifted' = ~drifted
  /\ UNCHANGED <<profile, sealed, tokenVars, caseVars, used, entitled, disturbed>>

Init ==
  /\ profile \in Profiles
  /\ sealed = (profile = "hook")
  /\ drifted = FALSE
  /\ balance = InitialBalance
  /\ frozen = [a \in Accounts |-> 0]
  /\ restricted = [a \in Accounts |-> FALSE]
  /\ owned = [a \in Accounts |-> [target |-> 0, applied |-> 0, restricted |-> FALSE]]
  /\ actions = <<>>
  /\ freezeHead = [a \in Accounts |-> NoHead]
  /\ restrictionHead = [a \in Accounts |-> NoHead]
  /\ cases = [c \in Cases |-> [phase |-> "NONE", family |-> "NONE", head |-> NoHead]]
  /\ custody = [c \in Cases |-> None]
  /\ backing = 0 /\ used = {} /\ entitled = {} /\ changes = 0 /\ disturbed = {}

(* A command names a case of its own or one the seal opened. *)
Nameable == CaseIds \cup {c \in Accounts \X Family : cases[c].phase # "NONE"}

Command(n) ==
  \/ \E a \in Accounts, c \in Nameable :
       \/ \E target \in Targets : Freeze(n, a, c, target)
       \/ RestrictAddress(n, a, c)
       \/ \E amount \in Amounts : Seize(n, a, c, amount)
       \/ \E source, to \in Accounts, amount \in Amounts,
             entitlement \in Entitlements \cup {None} :
            Dispose(n, a, source, to, c, amount, entitlement)
  \/ \E i \in DOMAIN actions : Unfreeze(n, i) \/ Unrestrict(n, i) \/ Release(n, i)

Next ==
  \/ \E n \in Nonces : Command(n)
  \/ \E entries \in Manifests : seal(entries)
  \/ \E a \in Accounts : resynchroniseFrozen(a) \/ UpstreamChange(a)
  \/ \E from, to \in Accounts, amount \in Amounts : transfer(from, to, amount)
  \/ TopologyChange

Spec == Init /\ [][Next]_vars
----------------------------------------------------------------------------
(* Properties.                                                             *)

(* What the adapter holds against an account is exactly what its live      *)
(* effects say, those imported at the seal included: the frozen target is  *)
(* the amount of the freeze in force, the address freeze is on while a     *)
(* restriction is, and each effect in force is the head of an open case    *)
(* that can still undo it.                                                 *)
OwnedIsAccounted ==
  \A a \in Accounts :
    LET f == freezeHead[a]
        r == restrictionHead[a]
    IN /\ owned[a].target = IF f = NoHead THEN 0 ELSE actions[f].amount
       /\ owned[a].restricted = (r # NoHead)
       /\ \A h \in {f, r} \ {NoHead} :
            /\ actions[h].lifecycle = "APPLIED" /\ actions[h].subject = a
            /\ cases[actions[h].case].head = h
            /\ cases[actions[h].case].phase = "OPEN"

(* After the seal, and unless the token was changed behind the adapter,    *)
(* the token shows what the adapter last applied.  In the partial profile  *)
(* that never exceeds the target and lags behind it only when tokens came  *)
(* in since; in the hook profile it never lags.                            *)
FrozenFloor ==
  sealed => \A a \in Accounts \ disturbed :
    LET floor == Min({owned[a].target, balance[a]}) IN
    /\ _requireOwnedUpstreamState(Unit, a)
    /\ frozen[a] <= floor
    /\ profile = "hook" => frozen[a] = floor

\* What a case holds in custody.
Encumbered(c) == IF custody[c] = None THEN 0 ELSE custody[c].amount

(* The adapter's own balance covers every open custody case, whatever      *)
(* dispositions, releases and transfers to it come in between, and backing *)
(* is the sum of those cases.                                              *)
CustodyBacked ==
  /\ backing = SumFunctionOnSet([c \in Cases |-> Encumbered(c)], Cases)
  /\ backing <= balance[Adapter]
  /\ \A c \in Cases : (custody[c] # None)
                      <=> (cases[c].phase = "OPEN" /\ cases[c].family = "CUSTODY")

(* A command acts only under the sealed topology and only on accounts in   *)
(* the state the adapter owns, and leaves each account it changes in a     *)
(* state the adapter owns again, balances conserved, whatever the token    *)
(* did in between.                                                         *)
FailsClosed ==
  [][used' # used =>
       /\ sealed /\ ~drifted
       /\ SumFunction(balance') = SumFunction(balance)
       /\ \A a \in Accounts :
            <<balance[a], frozen[a], restricted[a], owned[a]>>'
              # <<balance[a], frozen[a], restricted[a], owned[a]>>
            => _requireOwnedUpstreamState(Unit, a) /\ _requireOwnedUpstreamState(Unit, a)'
    ]_vars
=============================================================================
