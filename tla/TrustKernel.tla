----------------------------- MODULE TrustKernel -----------------------------
(***************************************************************************)
(* What a kernel endpoint promises, from the normative case transition     *)
(* table (spec/erc-trust-kernel-v2.json, CT-1 .. CT-16): cases, the        *)
(* balances they act on, and the entitlements they consume.  Nothing here  *)
(* is an incremental bookkeeping variable: the frozen target, the          *)
(* restriction flag and the custody backing of an account are read off the *)
(* open cases.                                                             *)
(***************************************************************************)
EXTENDS Integers, FiniteSetsExt

CONSTANTS Zero, Accounts, CaseIds, Entitlements, Values

VARIABLES
  case,      \* the case table
  balance,   \* the ledger
  spent      \* consumed entitlements

vars == <<case, balance, spent>>

\* Only an open case carries more than a phase and a family: the subject and
\* the live targets of a freeze (a stack of growing amounts, hence a set), the
\* subject of a restriction, or the holder, custodian and amount of a custody.
Blank(phase, family) ==
  [phase |-> phase, family |-> family, subject |-> Zero, targets |-> {},
   custodian |-> Zero, amount |-> 0]

Open(family) == {c \in CaseIds : case[c].phase = "OPEN" /\ case[c].family = family}
OpenOn(family, s) == {c \in Open(family) : case[c].subject = s}

FrozenTarget(s) ==
  Max({0} \cup UNION {case[c].targets : c \in OpenOn("FREEZE", s)})
Restricted(s) == OpenOn("RESTRICT", s) # {}
Backing(a) ==
  SumFunctionOnSet(
    [c \in CaseIds |-> IF c \in Open("CUSTODY") /\ case[c].custodian = a
                          THEN case[c].amount ELSE 0],
    CaseIds)

Moved(from, to, n) ==
  LET debited == [balance EXCEPT ![from] = @ - n]
  IN  [debited EXCEPT ![to] = @ + n]
Unbacked(a, n) == n <= balance[a] - Backing(a)
-----------------------------------------------------------------------------
\* CT-1
OpenFreeze(c, s, n) ==
  /\ case[c].phase = "NONE"
  /\ OpenOn("FREEZE", s) = {}
  /\ n > 0
  /\ case' = [case EXCEPT ![c] = [Blank("OPEN", "FREEZE") EXCEPT
                                    !.subject = s, !.targets = {n}]]
  /\ UNCHANGED <<balance, spent>>

\* CT-2
AmendFreeze(c, n) ==
  /\ c \in Open("FREEZE")
  /\ n > Max(case[c].targets)
  /\ case' = [case EXCEPT ![c].targets = @ \cup {n}]
  /\ UNCHANGED <<balance, spent>>

\* CT-4
Unfreeze(c) ==
  /\ c \in Open("FREEZE")
  /\ LET rest == case[c].targets \ {Max(case[c].targets)} IN
       case' = [case EXCEPT ![c] = IF rest = {} THEN Blank("TERMINAL", "FREEZE")
                                   ELSE [@ EXCEPT !.targets = rest]]
  /\ UNCHANGED <<balance, spent>>

\* CT-5
OpenRestrict(c, s) ==
  /\ case[c].phase = "NONE"
  /\ ~ Restricted(s)
  /\ case' = [case EXCEPT ![c] = [Blank("OPEN", "RESTRICT") EXCEPT !.subject = s]]
  /\ UNCHANGED <<balance, spent>>

\* CT-8
Unrestrict(c) ==
  /\ c \in Open("RESTRICT")
  /\ case' = [case EXCEPT ![c] = Blank("TERMINAL", "RESTRICT")]
  /\ UNCHANGED <<balance, spent>>

\* CT-9
Seize(c, s, k, n) ==
  /\ case[c].phase = "NONE"
  /\ s # k /\ n > 0
  /\ Unbacked(s, n)
  /\ case' = [case EXCEPT ![c] = [Blank("OPEN", "CUSTODY") EXCEPT
                                    !.subject = s, !.custodian = k, !.amount = n]]
  /\ balance' = Moved(s, k, n)
  /\ UNCHANGED spent

\* CT-11
Release(c) ==
  /\ c \in Open("CUSTODY")
  /\ case' = [case EXCEPT ![c] = Blank("TERMINAL", "CUSTODY")]
  /\ balance' = Moved(case[c].custodian, case[c].subject, case[c].amount)
  /\ UNCHANGED spent

\* An entitlement, where one is presented, is consumed once.
Consume(e) ==
  /\ e \notin spent
  /\ spent' = spent \cup ({e} \ {Zero})

\* CT-12: the whole custody record goes to the destination.
DisposeCustody(c, t, e) ==
  /\ c \in Open("CUSTODY")
  /\ t # case[c].custodian
  /\ case' = [case EXCEPT ![c] = Blank("TERMINAL", "CUSTODY")]
  /\ balance' = Moved(case[c].custodian, t, case[c].amount)
  /\ Consume(e)

\* CT-13
DisposeDirect(c, s, t, n, e) ==
  /\ case[c].phase = "NONE"
  /\ s # t /\ n > 0
  /\ Unbacked(s, n)
  /\ case' = [case EXCEPT ![c] = Blank("TERMINAL", "DISPOSITION")]
  /\ balance' = Moved(s, t, n)
  /\ Consume(e)

\* A holder disposes of what no open case encumbers.
OrdinaryTransfer(s, t, n) ==
  /\ ~ Restricted(s) /\ ~ Restricted(t)
  /\ n = 0 \/ n <= balance[s] - Backing(s) - FrozenTarget(s)
  /\ balance' = Moved(s, t, n)
  /\ UNCHANGED <<case, spent>>

Init ==
  /\ case = [c \in CaseIds |-> Blank("NONE", "NONE")]
  /\ \E h \in Accounts, n \in Values :
       balance = [a \in Accounts |-> IF a = h THEN n ELSE 0]
  /\ spent = {}

Next ==
  \/ \E c \in CaseIds :
       \/ Unfreeze(c) \/ Unrestrict(c) \/ Release(c)
       \/ \E n \in Values : AmendFreeze(c, n)
       \/ \E t \in Accounts, e \in Entitlements \cup {Zero} : DisposeCustody(c, t, e)
       \/ \E s \in Accounts :
            \/ OpenRestrict(c, s)
            \/ \E n \in Values :
                 \/ OpenFreeze(c, s, n)
                 \/ \E t \in Accounts :
                      \/ Seize(c, s, t, n)
                      \/ \E e \in Entitlements \cup {Zero} : DisposeDirect(c, s, t, n, e)
  \/ \E s, t \in Accounts, n \in Values : OrdinaryTransfer(s, t, n)

Spec == Init /\ [][Next]_vars
=============================================================================
