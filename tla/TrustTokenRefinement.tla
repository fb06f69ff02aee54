------------------------ MODULE TrustTokenRefinement ------------------------
(***************************************************************************)
(* The native endpoint implements the kernel: its incremental bookkeeping  *)
(* (frozen targets, flags, backing totals, effect chains, heads) amounts   *)
(* to nothing more than the open cases.                                    *)
(***************************************************************************)
EXTENDS TrustToken

\* The kernel's record of a case.  The targets of a freeze are the amounts of
\* the case's applied and unreversed freezes, wherever they are in the chain.
KernelCase(c) ==
  LET stored == cases[c]
      blank == [phase |-> stored.phase, family |-> stored.family,
                subject |-> Zero, targets |-> {}, custodian |-> Zero, amount |-> 0]
      subject == actions[stored.headActionId].subject
  IN  IF stored.phase # "OPEN" THEN blank
      ELSE CASE stored.family = "FREEZE" ->
                  [blank EXCEPT !.subject = subject,
                     !.targets = {actions[a].amount :
                        a \in {b \in LiveEffects("FREEZE", subject) :
                                 actions[b].caseId = c}}]
             [] stored.family = "RESTRICT" -> [blank EXCEPT !.subject = subject]
             [] OTHER -> [blank EXCEPT !.subject = custody[c].declaredPriorHolder,
                                       !.custodian = custody[c].custodian,
                                       !.amount = custody[c].encumberedAmount]

Kernel == INSTANCE TrustKernel WITH
  Values <- 0 .. MaxUint,
  case <- [c \in CaseIds |-> KernelCase(c)],
  balance <- balances,
  spent <- consumedEntitlements

\* Every transaction of the native endpoint is, on the cases it leaves behind,
\* a transition of the normative table or no transition at all.
ImplementsKernel == Kernel!Spec

\* The figures the contract keeps incrementally are those the open cases imply.
DerivedState ==
  \A a \in Accounts :
    /\ frozen[a] = Kernel!FrozenTarget(a)
    /\ restricted[a] = Kernel!Restricted(a)
    /\ custodyBacking[a] = Kernel!Backing(a)
=============================================================================
