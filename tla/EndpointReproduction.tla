------------------------ MODULE EndpointReproduction ------------------------
(***************************************************************************)
(* The endpoint that scripts/independent-reproduction-v3.mjs keeps in      *)
(* memory to evaluate the conformance vectors (class EndpointState),       *)
(* beside the tables of spec/erc-trust-kernel-v2.json it was transcribed   *)
(* from.  Both are given the same commands.                                *)
(*                                                                         *)
(* An identifier is a hash of the request it names: here it is the         *)
(* request.  A request says which of the common rules it breaks; balances, *)
(* authorities and assessments are in neither endpoint.  Faulty...         *)
(* definitions are plausible slips in the definition that follows.         *)
(***************************************************************************)
EXTENDS Integers, Sequences, SequencesExt

CONSTANTS
  None, Zero,
  CaseIds, Subjects, Custodian, Buyer, Recovered, Entitlement,
  Shapes,        \* the action requests offered, but for their nonce
  Pairs,         \* the kinds of reversals and of actions they are offered for
  MaxCommands    \* bound on the commands that are applied

Disposition == {"CONFISCATE", "LIQUIDATE", "RECOVER"}
Overlay == {"FREEZE", "RESTRICT"}
Reverses == [UNFREEZE |-> "FREEZE", RELEASE |-> "SEIZE", UNRESTRICT |-> "RESTRICT"]
Common == <<"DOMAIN", "IDENTIFIER", "TIME", "DEPENDENCY_BINDING", "SHAPE">>

Address == Subjects \cup {Zero, Custodian, Buyer, Recovered}

ActionRequest ==
  [action : Overlay \cup Disposition \cup {"SEIZE"}, subject : Subjects,
   source : Address, destination : Address, custodian : {Zero, Custodian},
   amount : Nat, caseId : CaseIds, commitments : SUBSET {"settlement", "proceeds"},
   entitlement : {Zero, Entitlement}, nonce : Nat, wrong : SUBSET Range(Common)]

\* None is neither an action nor what is recorded of one.  A subject is another
\* than the custodian, and who disposes of tokens does not send them there.
ASSUME ReproductionAssumption ==
  /\ Zero \notin Subjects \cup {Custodian, Buyer, Recovered, Entitlement}
  /\ Custodian \notin Subjects \cup {Buyer, Recovered}
  /\ Shapes \subseteq ActionRequest /\ Shapes # {}
  /\ \A r \in Shapes : r.action \in Disposition => r.destination # Custodian
  /\ Pairs \subseteq (DOMAIN Reverses) \X (Overlay \cup Disposition \cup {"SEIZE"})
  /\ None \notin ActionRequest
  /\ None \notin [action : ActionRequest, caseId : CaseIds]
  /\ None \notin [action : ActionRequest, custodian : Address, priorHolder : Subjects,
                 amount : Nat]
  /\ MaxCommands \in Nat

VARIABLES
  cases, overlayHeads, custody, frozenTarget, restricted, actions,
  consumedCommandIds, consumedNonces, consumedEntitlements,
  table,     \* the case table of the specification
  applied    \* the commands it has applied

endpoint == <<cases, overlayHeads, custody, frozenTarget, restricted, actions,
              consumedCommandIds, consumedNonces, consumedEntitlements>>
vars == <<endpoint, table, applied>>

-----------------------------------------------------------------------------
(* The requests of the conformance vectors (generate-normative-kernel.mjs).*)

BaseRequest(action, s, c) ==
  [action |-> action, subject |-> s, source |-> s, destination |-> Zero,
   custodian |-> Zero, amount |-> 0, caseId |-> c, commitments |-> {},
   entitlement |-> Zero, nonce |-> 0, wrong |-> {}]

ActionVector(name, s, c) ==
  LET base == BaseRequest(name, s, c)
  IN  CASE name = "FREEZE" -> [base EXCEPT !.amount = 1]
        [] name = "RESTRICT" -> base
        [] name = "SEIZE" ->
             [base EXCEPT !.destination = Custodian, !.custodian = Custodian,
                          !.amount = 1]
        [] name = "CONFISCATE" -> [base EXCEPT !.destination = Buyer, !.amount = 1]
        [] name = "LIQUIDATE" ->
             [base EXCEPT !.destination = Buyer, !.amount = 1,
                          !.commitments = {"settlement", "proceeds"}]
        [] name = "RECOVER" ->
             [base EXCEPT !.destination = Recovered, !.amount = 1,
                          !.entitlement = Entitlement]

CustodyVector(s, c) == [ActionVector("CONFISCATE", s, c) EXCEPT !.source = Custodian]

ReversalVector(kind, p, n) ==
  [reversal |-> kind, action |-> p, nonce |-> n, wrong |-> {}]

-----------------------------------------------------------------------------
(* The program's checks: the first that fails is the answer.               *)

Rule(fails, as) == [fails |-> fails, as |-> as]

Answer(rules) ==
  LET failing == {i \in DOMAIN rules : rules[i].fails}
  IN  IF failing = {} THEN "ok" ELSE rules[Min(failing)].as

CommonChecks(r) == [i \in DOMAIN Common |-> Rule(Common[i] \in r.wrong, Common[i])]

ReplayChecks(r) ==
  <<Rule(r \in consumedCommandIds, "TrustReplay"),
    Rule(r.nonce \in consumedNonces, "TrustReplay")>>

Bare(r) == r.commitments = {} /\ r.entitlement = Zero
OverlayShape(r) ==
  r.source = r.subject /\ r.destination = Zero /\ r.custodian = Zero /\ Bare(r)
DispositionShape(r) ==
  /\ r.source # Zero /\ r.destination \notin {Zero, r.source}
  /\ r.custodian = Zero /\ r.amount > 0
CommitmentShape(r) ==
  CASE r.action = "CONFISCATE" -> Bare(r)
    [] r.action = "LIQUIDATE" ->
         r.commitments = {"settlement", "proceeds"} /\ r.entitlement = Zero
    [] r.action = "RECOVER" -> r.commitments = {} /\ r.entitlement # Zero

FieldRules(r) ==
  CASE r.action = "FREEZE" ->
         <<Rule(~OverlayShape(r), "SHAPE"),
           Rule(r.amount <= frozenTarget[r.subject], "FREEZE_DIRECTION")>>
    [] r.action = "RESTRICT" ->
         <<Rule(~OverlayShape(r) \/ r.amount # 0, "SHAPE")>>
    [] r.action = "SEIZE" ->
         <<Rule(~(/\ r.source = r.subject /\ r.custodian # Zero
                  /\ r.destination = r.custodian /\ r.amount > 0 /\ Bare(r)),
                "SHAPE")>>
    [] r.action \in Disposition ->
         <<Rule(~DispositionShape(r) \/ ~CommitmentShape(r), "SHAPE"),
           Rule(r.action = "RECOVER" /\ r.entitlement \in consumedEntitlements,
                "ENTITLEMENT")>>

IsOpen(r, families) ==
  cases[r.caseId].phase = "OPEN" /\ cases[r.caseId].family \in families

MatchesCustody(r) ==
  LET held == custody[r.caseId]
  IN  /\ held # None
      /\ r.source = held.custodian
      /\ r.subject = held.priorHolder
      /\ r.amount = held.amount

CaseRules(r) ==
  LET overlay == r.action \in Overlay
      disposes == r.action \in Disposition
      inCustody == IsOpen(r, {"CUSTODY"})
      head == IF overlay THEN overlayHeads[<<r.action, r.subject>>] ELSE None
  IN  <<Rule(IsOpen(r, Overlay \ {r.action}), "CASE_CONFLICT"),
        Rule(inCustody /\ overlay, "CASE_CONFLICT"),
        Rule(inCustody /\ r.action = "SEIZE", "CUSTODY"),
        Rule(inCustody /\ disposes /\ ~MatchesCustody(r), "CUSTODY"),
        Rule(head # None /\ head.caseId # r.caseId, "CASE_CONFLICT"),
        Rule(head # None /\ r.action = "RESTRICT", "NO_STATE_CHANGE"),
        Rule(disposes /\ ~inCustody /\ cases[r.caseId].phase # "NONE", "CASE_CONFLICT"),
        Rule(disposes /\ ~inCustody /\ r.source # r.subject, "CUSTODY")>>

ActionVerdict(r) ==
  Answer(CommonChecks(r) \o ReplayChecks(r)
           \o <<Rule(cases[r.caseId].phase = "TERMINAL", "TrustTerminal")>>
           \o FieldRules(r) \o CaseRules(r))

IsHead(p) ==
  LET head == overlayHeads[<<p.action, p.subject>>]
  IN  head # None /\ head.action = p

ReversalRules(v) ==
  LET p == v.action
      held == custody[p.caseId]
  IN  IF p \notin DOMAIN actions THEN <<Rule(TRUE, "CURRENT_EFFECT")>>
      ELSE <<Rule(cases[p.caseId].phase = "TERMINAL", "TrustTerminal"),
             Rule(Reverses[v.reversal] # p.action, "REVERSAL_PAIRING"),
             Rule(p.action = "SEIZE" /\ held = None, "CUSTODY"),
             Rule(p.action = "SEIZE" /\ held # None /\ held.action # p, "CURRENT_EFFECT"),
             Rule(p.action \in Overlay /\ ~IsHead(p), "CURRENT_EFFECT")>>

ReversalVerdict(v) ==
  Answer(CommonChecks(v) \o ReplayChecks(v) \o ReversalRules(v))

-----------------------------------------------------------------------------
(* What an accepted command does.                                          *)

SetCase(c, phase, family, head) ==
  cases' = [cases EXCEPT ![c] = [phase |-> phase, family |-> family,
                                 headActionId |-> head,
                                 generation |-> @.generation + 1]]

Consumed(command) ==
  /\ consumedCommandIds' = consumedCommandIds \cup {command}
  /\ consumedNonces' = consumedNonces \cup {command.nonce}

commit(r, parent) ==
  /\ Consumed(r)
  /\ actions' = [p \in DOMAIN actions \cup {r} |-> IF p = r THEN parent ELSE actions[p]]

Freeze(r) ==
  LET head == overlayHeads[<<"FREEZE", r.subject>>]
  IN  /\ r.action = "FREEZE"
      /\ overlayHeads' = [overlayHeads EXCEPT ![<<"FREEZE", r.subject>>] =
                            [action |-> r, caseId |-> r.caseId]]
      /\ frozenTarget' = [frozenTarget EXCEPT ![r.subject] = r.amount]
      /\ SetCase(r.caseId, "OPEN", "FREEZE", r)
      /\ commit(r, IF head = None THEN None ELSE head.action)
      /\ UNCHANGED <<custody, restricted, consumedEntitlements>>

RestrictSubject(r) ==
  /\ r.action = "RESTRICT"
  /\ overlayHeads' = [overlayHeads EXCEPT ![<<"RESTRICT", r.subject>>] =
                        [action |-> r, caseId |-> r.caseId]]
  /\ restricted' = restricted \cup {r.subject}
  /\ SetCase(r.caseId, "OPEN", "RESTRICT", r)
  /\ commit(r, None)
  /\ UNCHANGED <<custody, frozenTarget, consumedEntitlements>>

Seize(r) ==
  /\ r.action = "SEIZE"
  /\ custody' = [custody EXCEPT ![r.caseId] =
                   [action |-> r, custodian |-> r.custodian,
                    priorHolder |-> r.subject, amount |-> r.amount]]
  /\ SetCase(r.caseId, "OPEN", "CUSTODY", r)
  /\ commit(r, None)
  /\ UNCHANGED <<overlayHeads, frozenTarget, restricted, consumedEntitlements>>

DisposeCustody(r) ==
  /\ r.action \in Disposition /\ IsOpen(r, {"CUSTODY"})
  /\ custody' = [custody EXCEPT ![r.caseId] = None]
  /\ SetCase(r.caseId, "TERMINAL", "CUSTODY", None)
  /\ commit(r, None)
  /\ UNCHANGED <<overlayHeads, frozenTarget, restricted, consumedEntitlements>>

DisposeDirect(r) ==
  /\ r.action \in Disposition /\ ~IsOpen(r, {"CUSTODY"})
  /\ consumedEntitlements' =
       consumedEntitlements \cup {e \in {r.entitlement} : r.action = "RECOVER"}
  /\ SetCase(r.caseId, "TERMINAL", "DISPOSITION", None)
  /\ commit(r, None)
  /\ UNCHANGED <<overlayHeads, custody, frozenTarget, restricted>>

FaultyPrior(p) == [target |-> 0, head |-> None]

\* What an unfreeze goes back to: the parent's target, in the parent's case.
Prior(p) ==
  LET parent == actions[p]
  IN  IF parent = None THEN [target |-> 0, head |-> None]
      ELSE [target |-> parent.amount,
            head |-> [action |-> parent, caseId |-> parent.caseId]]

Unfreeze(v) ==
  LET p == v.action
      prior == Prior(p)
      last == actions[p] = None
  IN  /\ v.reversal = "UNFREEZE"
      /\ overlayHeads' = [overlayHeads EXCEPT ![<<"FREEZE", p.subject>>] = prior.head]
      /\ frozenTarget' = [frozenTarget EXCEPT ![p.subject] = prior.target]
      /\ SetCase(p.caseId, IF last THEN "TERMINAL" ELSE "OPEN", "FREEZE", actions[p])
      /\ Consumed(v)
      /\ UNCHANGED <<custody, restricted, actions, consumedEntitlements>>

Unrestrict(v) ==
  LET p == v.action
  IN  /\ v.reversal = "UNRESTRICT"
      /\ overlayHeads' = [overlayHeads EXCEPT ![<<"RESTRICT", p.subject>>] = None]
      /\ restricted' = restricted \ {p.subject}
      /\ SetCase(p.caseId, "TERMINAL", "RESTRICT", None)
      /\ Consumed(v)
      /\ UNCHANGED <<custody, frozenTarget, actions, consumedEntitlements>>

Release(v) ==
  /\ v.reversal = "RELEASE"
  /\ custody' = [custody EXCEPT ![v.action.caseId] = None]
  /\ SetCase(v.action.caseId, "TERMINAL", "CUSTODY", None)
  /\ Consumed(v)
  /\ UNCHANGED <<overlayHeads, frozenTarget, restricted, actions,
                 consumedEntitlements>>

-----------------------------------------------------------------------------
(* The receipts it derives from the requests.  Both kinds of command are   *)
(* numbered from zero.                                                     *)

ActionKind == [FREEZE |-> 0, SEIZE |-> 1, CONFISCATE |-> 2, LIQUIDATE |-> 3,
               RESTRICT |-> 4, RECOVER |-> 5]
ReversalKind == [UNFREEZE |-> 0, RELEASE |-> 1, UNRESTRICT |-> 2]

deriveActionReceipt(r) ==
  [receiptKind |-> "ACTION", commandId |-> r, commandKind |-> ActionKind[r.action],
   parentCommandId |-> None, subject |-> r.subject, source |-> r.source,
   destination |-> IF r.action = "SEIZE" THEN r.custodian ELSE r.destination,
   amount |-> r.amount, caseId |-> r.caseId,
   externalCommitment |-> CASE r.action = "LIQUIDATE" -> r.commitments
                            [] r.action = "RECOVER" -> r.entitlement
                            [] OTHER -> Zero]

FaultyDeriveReversalReceipt(v) == \* both ends as in the reversed action
  LET parent == v.action
  IN  [deriveActionReceipt(parent) EXCEPT
         !.receiptKind = "REVERSAL", !.commandId = v,
         !.commandKind = ReversalKind[v.reversal], !.parentCommandId = parent,
         !.externalCommitment = Zero]

deriveReversalReceipt(v) ==
  LET parent == v.action
  IN  [receiptKind |-> "REVERSAL", commandId |-> v,
       commandKind |-> ReversalKind[v.reversal], parentCommandId |-> parent,
       subject |-> parent.subject,
       source |-> IF v.reversal = "RELEASE" THEN parent.custodian ELSE parent.subject,
       destination |-> parent.subject,
       amount |-> parent.amount, caseId |-> parent.caseId,
       externalCommitment |-> Zero]

Receipts ==
  {deriveActionReceipt(r) : r \in DOMAIN actions}
    \cup {deriveReversalReceipt(v) : v \in consumedCommandIds \ DOMAIN actions}

-----------------------------------------------------------------------------
(* The specification: shapeRules and caseTransitions.  A step of the order *)
(* is the set of reasons it gives; within the tenth the order is free.     *)

When(holds, reasons) == {x \in reasons : holds}

Step(steps) ==
  LET given == {i \in DOMAIN steps : steps[i] # {}}
  IN  IF given = {} THEN {"ok"} ELSE steps[Min(given)]

OpenOn(family, s) ==
  {c \in CaseIds : /\ table[c].phase = "OPEN" /\ table[c].family = family
                   /\ table[c].subject = s}

Target(s) ==
  LET open == OpenOn("FREEZE", s)
  IN  IF open = {} THEN 0
      ELSE Last(table[CHOOSE c \in open : TRUE].live).amount

Spent == {r.entitlement : r \in {x \in applied : "entitlement" \in DOMAIN x}} \ {Zero}

\* CT-1 to CT-16 and the rules that have a code of their own.  No row of the
\* table is for the freeze of a second subject in an open case: a conflict.
CaseReasons(r) ==
  LET c == table[r.caseId]
      open == c.phase = "OPEN"
      family == CASE r.action \in Overlay -> r.action
                  [] r.action = "SEIZE" -> "CUSTODY"
                  [] OTHER -> "DISPOSITION"
      own == IF r.action \in Overlay THEN OpenOn(family, r.subject) ELSE {}
  IN  UNION {
        When(r.action = "FREEZE" /\ r.amount <= Target(r.subject), {"FREEZE_DIRECTION"}),
        When(own \ {r.caseId} # {}, {"CASE_CONFLICT"}),
        When(open /\ r.action = "FREEZE" /\ r.caseId \notin own, {"CASE_CONFLICT"}),
        When(open /\ {r.action, c.family} = {"RESTRICT"}, {"NO_STATE_CHANGE"}),
        When(open /\ c.family \in Overlay \ {family}, {"CASE_CONFLICT"}),
        When(open /\ c.family = "CUSTODY" /\ r.action \in Overlay, {"CASE_CONFLICT"}),
        When(open /\ c.family = "CUSTODY" /\ r.action = "SEIZE", {"CUSTODY"}),
        When(/\ open /\ c.family = "CUSTODY" /\ r.action \in Disposition
             /\ <<r.source, r.subject, r.amount>> #
                  <<c.live[1].custodian, c.subject, c.live[1].amount>>, {"CUSTODY"}),
        When(~open /\ r.action \in Disposition /\ r.source # r.subject,
             {"SHAPE", "CUSTODY"}),
        When(r.action = "RECOVER" /\ r.entitlement \in Spent, {"ENTITLEMENT"})}

ShapeHolds(r) ==
  CASE r.action \in Overlay -> OverlayShape(r) /\ (r.action = "RESTRICT" => r.amount = 0)
    [] r.action = "SEIZE" ->
         /\ r.source = r.subject /\ r.custodian # Zero
         /\ r.destination = r.custodian /\ r.amount > 0 /\ Bare(r)
    [] OTHER -> DispositionShape(r) /\ CommitmentShape(r)

Preliminaries(r) ==
  <<When("DOMAIN" \in r.wrong, {"DOMAIN"}),
    When("IDENTIFIER" \in r.wrong, {"IDENTIFIER"}),
    When(r \in applied, {"TrustReplay"}),
    When("TIME" \in r.wrong, {"TIME"}),
    When("DEPENDENCY_BINDING" \in r.wrong, {"DEPENDENCY_BINDING"}),
    When(\E x \in applied : x.nonce = r.nonce, {"TrustReplay"}),
    When("SHAPE" \in r.wrong, {"SHAPE"})>>

ActionAnswers(r) ==
  Step(Preliminaries(r) \o
         <<When(table[r.caseId].phase = "TERMINAL", {"TrustTerminal"}),
           When(~ShapeHolds(r), {"SHAPE"}) \cup CaseReasons(r)>>)

ReversalAnswers(v) ==
  LET p == v.action
      c == table[p.caseId]
  IN  Step(Preliminaries(v) \o
             <<When(p \in applied /\ c.phase = "TERMINAL", {"TrustTerminal"}),
               When(p \notin applied \/ p \notin Range(c.live), {"CURRENT_EFFECT"}),
               When(Reverses[v.reversal] # p.action, {"REVERSAL_PAIRING"}),
               When(c.live # <<>> /\ Last(c.live) # p, {"CURRENT_EFFECT"})>>)

Blank(phase, family) ==
  [phase |-> phase, family |-> family, subject |-> Zero, live |-> <<>>]

\* A disposition closes its case; any other action is live in it.
TableAfterAction(r) ==
  [table EXCEPT ![r.caseId] =
     IF r.action \in Disposition THEN Blank("TERMINAL", "DISPOSITION")
     ELSE [phase |-> "OPEN", subject |-> r.subject, live |-> Append(@.live, r),
           family |-> IF r.action = "SEIZE" THEN "CUSTODY" ELSE r.action]]

TableAfterReversal(v) ==
  LET c == table[v.action.caseId]
  IN  [table EXCEPT ![v.action.caseId] =
         IF Len(c.live) = 1 THEN Blank("TERMINAL", c.family)
         ELSE [c EXCEPT !.live = Front(c.live)]]

-----------------------------------------------------------------------------
(* Both are given the same commands, each under a fresh nonce or under the *)
(* first one again.                                                        *)

NoncesOffered == {1, Cardinality(consumedNonces) + 1}

Requests == {[x EXCEPT !.nonce = n] : x \in Shapes, n \in NoncesOffered}

Reversals ==
  LET never == CHOOSE x \in Shapes : TRUE
  IN  {ReversalVector(x[1][1], x[2], x[3]) :
         x \in {y \in Pairs \X (DOMAIN actions \cup {never}) \X NoncesOffered : y[1][2] = y[2].action}}

\* EndpointState of a vector: nothing has been applied.
Init ==
  /\ cases = [c \in CaseIds |-> [phase |-> "NONE", family |-> "NONE",
                                 headActionId |-> None, generation |-> 0]]
  /\ overlayHeads = [x \in Overlay \X Subjects |-> None]
  /\ custody = [c \in CaseIds |-> None]
  /\ frozenTarget = [s \in Subjects |-> 0]
  /\ restricted = {} /\ actions = << >>
  /\ consumedCommandIds = {} /\ consumedNonces = {} /\ consumedEntitlements = {}
  /\ table = [c \in CaseIds |-> Blank("NONE", "NONE")]
  /\ applied = {}

\* The table follows where it has a transition.
TableTakes(answers, command, after) ==
  IF "ok" \in answers THEN table' = after /\ applied' = applied \cup {command}
                      ELSE UNCHANGED <<table, applied>>

executeAction(r) ==
  /\ ActionVerdict(r) = "ok"
  /\ Freeze(r) \/ RestrictSubject(r) \/ Seize(r) \/ DisposeCustody(r) \/ DisposeDirect(r)
  /\ TableTakes(ActionAnswers(r), r, TableAfterAction(r))

executeReversal(v) ==
  /\ ReversalVerdict(v) = "ok"
  /\ Unfreeze(v) \/ Unrestrict(v) \/ Release(v)
  /\ TableTakes(ReversalAnswers(v), v, TableAfterReversal(v))

\* A rejected command changes nothing.
Next ==
  /\ Cardinality(consumedCommandIds) < MaxCommands
  /\ \/ \E r \in Requests : executeAction(r)
     \/ \E v \in Reversals : executeReversal(v)

Spec == Init /\ [][Next]_vars

\* What the vectors keep to: an overlay is set on one subject of a case, tokens are
\* recovered from the subject itself, the common fields have their shape, and a
\* reversal that does not pair is one of an action that is not amended.
Regular(shapes, pairs) ==
  /\ \A r, q \in shapes :
       r.action \in Overlay /\ <<q.action, q.caseId>> = <<r.action, r.caseId>> =>
         q.subject = r.subject
  /\ \A r \in shapes :
       "SHAPE" \notin r.wrong /\ (r.action = "RECOVER" => r.source = r.subject)
  /\ \A x \in pairs : x[2] = "FREEZE" => Reverses[x[1]] = "FREEZE"

-----------------------------------------------------------------------------
(* Whatever has been applied, the reproduction answers every command as    *)
(* the specification does: it accepts exactly what the tables accept, and  *)
(* rejects with a reason that comes first in the order of validation.      *)
SameVerdict ==
  /\ \A r \in Requests : ActionVerdict(r) \in ActionAnswers(r)
  /\ \A v \in Reversals : ReversalVerdict(v) \in ReversalAnswers(v)

(* The receipts alone tell what is in force: targets and restrictions are  *)
(* those of the actions no receipt reverses, and what the custodian has    *)
(* received and not passed on is what the open cases hold in custody.      *)
ReceiptsExplain ==
  LET receipts == Receipts
      inForce(action) ==
        {x \in receipts : /\ x.receiptKind = "ACTION"
                          /\ x.commandKind = ActionKind[action]
                          /\ \A y \in receipts : y.parentCommandId # x.commandId}
      total(moves) == SumFunctionOnSet([x \in receipts |-> x.amount], moves)
      held == {c \in CaseIds : custody[c] # None}
  IN  /\ \A s \in Subjects :
           frozenTarget[s] =
             Max({0} \cup {x.amount : x \in {y \in inForce("FREEZE") : y.subject = s}})
      /\ restricted = {x.subject : x \in inForce("RESTRICT")}
      /\ total({x \in receipts : x.destination = Custodian}) =
           total({x \in receipts : x.source = Custodian})
             + SumFunctionOnSet([c \in held |-> custody[c].amount], held)

=============================================================================
