---------------------------- MODULE MCTrustToken ----------------------------
(***************************************************************************)
(* Small instances of TrustToken for TLC.  Each cfg picks one of the       *)
(* request sets below.                                                     *)
(***************************************************************************)
EXTENDS TrustTokenRefinement, TLC

CONSTANTS a1, a2, a3, c1, c2, e1, d1, k1, g1, g2, id1

\* A field the action does not use is zero.
Request(action, subject, source, destination, custodian, amount, caseId) ==
  [action |-> action, subject |-> subject, source |-> source,
   destination |-> destination, custodian |-> custodian, amount |-> amount,
   caseId |-> caseId, settlement |-> action = "LIQUIDATE",
   proceeds |-> action = "LIQUIDATE",
   entitlement |-> IF action = "RECOVER" THEN e1 ELSE Zero]

FreezeRequests(subjects, amounts, ids) ==
  {Request("FREEZE", s, s, Zero, Zero, n, c) : s \in subjects, n \in amounts, c \in ids}
RestrictRequests(subjects, ids) ==
  {Request("RESTRICT", s, s, Zero, Zero, 0, c) : s \in subjects, c \in ids}
SeizeRequests(subjects, custodians, amounts, ids) ==
  {Request("SEIZE", s, s, k, k, n, c) :
     s \in subjects, k \in custodians, n \in amounts, c \in ids}
DispositionRequests(kinds, subjects, sources, destinations, amounts, ids) ==
  {Request(x, s, f, t, Zero, n, c) :
     x \in kinds, s \in subjects, f \in sources, t \in destinations,
     n \in amounts, c \in ids}

\* One request per way of getting a field wrong.
MalformedIn(c) ==
  {[Request("FREEZE", a1, a1, Zero, Zero, 1, c) EXCEPT !.source = a2],
   [Request("RESTRICT", a1, a1, Zero, Zero, 0, c) EXCEPT !.amount = 1],
   [Request("SEIZE", a1, a1, a2, a2, 1, c) EXCEPT !.custodian = Zero],
   [Request("CONFISCATE", a1, a1, a2, Zero, 1, c) EXCEPT !.settlement = TRUE],
   [Request("RECOVER", a1, a1, a2, Zero, 1, c) EXCEPT !.entitlement = Zero],
   Request("FREEZE", a1, a1, Zero, Zero, 1, Zero),
   Request("FREEZE", Zero, Zero, Zero, Zero, 1, c)}

Holders == {a1, a2}
BothCases == {c1, c2}
\* Neither case is named in Init, and the requests treat both alike.
EitherCase == Permutations(BothCases)

\* custody: seizures to and from one another's custodian, releases, and
\* dispositions of either path, beside targets and flags of either holder, so
\* that target and backing meet on one account.
CustodyRequests ==
  SeizeRequests({a1, a2}, {a2, a3}, {1, 2}, BothCases)
    \cup DispositionRequests({"CONFISCATE"}, {a1}, {a1, a2}, {a2, a3}, {1}, BothCases)
    \cup DispositionRequests({"RECOVER"}, {a1}, {a1, a2}, {a3}, {1}, BothCases)
    \cup FreezeRequests(Holders, {1}, BothCases)
    \cup RestrictRequests({a1}, {c2})
    \cup MalformedIn(c1)

\* mixed: every kind of action on two holders, with freezes amended twice and
\* past the balance, and dispositions that may leave less than the target.
MixedRequests ==
  FreezeRequests({a1}, {1, 2, 3}, BothCases)
    \cup FreezeRequests({a2}, {1}, BothCases)
    \cup RestrictRequests({a1}, BothCases)
    \cup SeizeRequests({a1}, {a2}, {1}, BothCases)
    \cup DispositionRequests(Disposition, {a1}, {a1, a2}, {a1, a2}, {1}, BothCases)
    \cup UNION {MalformedIn(c) : c \in BothCases}

\* governance: what matters is when a command is accepted and on what
\* evidence, not what it does.
GovernedRequests ==
  {Request("FREEZE", a1, a1, Zero, Zero, 1, c1),
   Request("RECOVER", a1, a1, a2, Zero, 1, c2)}

AlwaysOpen == {[validAfter |-> 0, validBefore |-> 1]}
\* Opening late, closing early, and the zero validBefore that never admits.
SomeWindows ==
  {[validAfter |-> 0, validBefore |-> 1], [validAfter |-> 1, validBefore |-> 1],
   [validAfter |-> 0, validBefore |-> 0]}

OneDependency == [k \in BindingKind |-> d1]

\* An authorization identifier, and a word that is also a nonce's key.
ClashingGovernanceIds == {id1, GovernanceKey(2)}

\* Identifiers and nonces are interchangeable: take the next one.
InOrder ==
  /\ \A i, j \in ActionIds : i < j /\ actions'[j] # NoAction => actions'[i] # NoAction
  /\ \A i, j \in ReversalIds : i < j /\ receipts'[j] # NoReceipt => receipts'[i] # NoReceipt
  /\ \A n \in usedNonces' : \A m \in Nonces : m < n[3] => <<n[1], n[2], m>> \in usedNonces'

\* Only a1 approves, and only a2.
OneAllowance ==
  \A owner, spender \in Accounts :
    allowances'[owner][spender] # 0 => <<owner, spender>> = <<a1, a2>>
=============================================================================
