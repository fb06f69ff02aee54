---------------------- MODULE EndpointReproductionProofs ----------------------
(***************************************************************************)
(* The endpoint of the independent reproduction answers as the tables do,  *)
(* and the receipts it derives explain the state it is in, after any       *)
(* number of commands.                                                     *)
(***************************************************************************)
EXTENDS EndpointReproduction, FiniteSums, SequenceTheorems, TLAPS
-----------------------------------------------------------------------------
(* The inductive invariant *)

\* A reversal, as it is recorded.
Reversal ==
  [reversal : DOMAIN Reverses, action : ActionRequest, nonce : Nat, wrong : {{}}]
\* The head of the overlays of a subject, and what is held of a case.
OverlayHead == [action : ActionRequest, caseId : CaseIds]
Held ==
  [action : ActionRequest, custodian : {Custodian}, priorHolder : Subjects, amount : Nat]
Case ==
  [phase : {"NONE", "OPEN", "TERMINAL"},
   family : Overlay \cup {"NONE", "CUSTODY", "DISPOSITION"},
   headActionId : ActionRequest \cup {None}, generation : Nat]

\* The commands that were applied, and the action each of them refers to.
CommandsOK ==
  /\ \A p \in DOMAIN actions : actions[p] \in DOMAIN actions \cup {None}
  /\ consumedCommandIds \subseteq ActionRequest \cup Reversal
  /\ consumedCommandIds \cap ActionRequest = DOMAIN actions
  /\ \A v \in consumedCommandIds \ DOMAIN actions : v.action \in DOMAIN actions
  /\ IsFiniteSet(consumedCommandIds)
  /\ consumedNonces \subseteq Nat /\ IsFiniteSet(consumedNonces)

\* The type invariant.
TypeOK ==
  /\ cases \in [CaseIds -> Case]
  /\ overlayHeads \in [Overlay \X Subjects -> OverlayHead \cup {None}]
  /\ custody \in [CaseIds -> Held \cup {None}]
  /\ frozenTarget \in [Subjects -> Nat]
  /\ restricted \subseteq Subjects
  /\ CommandsOK

\* The actions that have been reversed, and those of a kind on a subject that
\* have not been.
Reversed == {v.action : v \in consumedCommandIds \ DOMAIN actions}
InForce(a, s) ==
  {p \in DOMAIN actions : p.action = a /\ p.subject = s /\ p \notin Reversed}

\* The freezes in force on a subject reach from the target they found to the one
\* they set, do not overlap, and the head is on top of them.
FreezesNest(s) ==
  LET head == overlayHeads[<<"FREEZE", s>>]
      live == InForce("FREEZE", s)
  IN  /\ head = None => live = {} /\ frozenTarget[s] = 0
      /\ head # None =>
           /\ head.action \in live /\ head.caseId = head.action.caseId
           /\ frozenTarget[s] = head.action.amount
      /\ \A p \in live :
           /\ p.amount <= frozenTarget[s]
           /\ Prior(p).target < p.amount
           /\ actions[p] # None => actions[p] \in live
      /\ \A p, q \in live :
           p = q \/ p.amount <= Prior(q).target \/ q.amount <= Prior(p).target

\* At most one restriction is in force on a subject.
RestrictedOnce(s) ==
  LET head == overlayHeads[<<"RESTRICT", s>>]
  IN  /\ InForce("RESTRICT", s) = IF head = None THEN {} ELSE {head.action}
      /\ s \in restricted <=> head # None

\* What is in custody is so in an open case, by a seizure.
CustodyOf(c) ==
  LET p == custody[c].action
  IN  /\ custody[c] # None <=> cases[c].phase = "OPEN" /\ cases[c].family = "CUSTODY"
      /\ custody[c] # None =>
           /\ p \in DOMAIN actions /\ p.action = "SEIZE" /\ p.caseId = c
           /\ custody[c] = [action |-> p, custodian |-> p.custodian,
                            priorHolder |-> p.subject, amount |-> p.amount]

\* The case of an overlay is open for it, or was.
OverlayCases ==
  \A p \in DOMAIN actions :
    p.action \in Overlay =>
      cases[p.caseId].phase # "NONE" /\ cases[p.caseId].family = p.action

\* What was received to hold and not passed on is what is held.
Moved(S) == SumFunctionOnSet([x \in Receipts |-> x.amount], S)
Received == Moved({x \in Receipts : x.destination = Custodian})
PassedOn == Moved({x \in Receipts : x.source = Custodian})
InCustody == {c \in CaseIds : custody[c] # None}
HeldNow == SumFunctionOnSet([c \in InCustody |-> custody[c].amount], InCustody)
CustodyBalanced == Received = PassedOn + HeldNow

\* The inductive invariant of what the receipts explain.
ReproductionInv ==
  /\ TypeOK
  /\ \A s \in Subjects : FreezesNest(s) /\ RestrictedOnce(s)
  /\ \A c \in CaseIds : CustodyOf(c)
  /\ OverlayCases
  /\ CustodyBalanced
-----------------------------------------------------------------------------
(* Ladders of checks *)

\* The reasons there are, and a rule.
Reasons ==
  {"DOMAIN", "IDENTIFIER", "TIME", "DEPENDENCY_BINDING", "SHAPE", "REVERSAL_PAIRING",
   "CUSTODY", "ENTITLEMENT", "CASE_CONFLICT", "CURRENT_EFFECT", "FREEZE_DIRECTION",
   "NO_STATE_CHANGE", "TrustReplay", "TrustTerminal"}
Rules == [fails : BOOLEAN, as : Reasons]

\* They are none but these, and accepting is not one of them.
LEMMA ReasonsAre ==
  /\ "DOMAIN" \in Reasons /\ "IDENTIFIER" \in Reasons /\ "TIME" \in Reasons
  /\ "DEPENDENCY_BINDING" \in Reasons /\ "SHAPE" \in Reasons
  /\ "REVERSAL_PAIRING" \in Reasons /\ "CUSTODY" \in Reasons
  /\ "ENTITLEMENT" \in Reasons /\ "CASE_CONFLICT" \in Reasons
  /\ "CURRENT_EFFECT" \in Reasons /\ "FREEZE_DIRECTION" \in Reasons
  /\ "NO_STATE_CHANGE" \in Reasons /\ "TrustReplay" \in Reasons
  /\ "TrustTerminal" \in Reasons /\ "ok" \notin Reasons
BY DEF Reasons

\* The answer is that of the first rule that fails, if one does.
LEMMA AnswerIs ==
  ASSUME NEW s \in Seq(Rules)
  PROVE  \/ Answer(s) = "ok" /\ \A i \in 1 .. Len(s) : ~ s[i].fails
         \/ /\ Answer(s) # "ok"
            /\ \E i \in 1 .. Len(s) : /\ s[i].fails /\ Answer(s) = s[i].as
                                      /\ \A j \in 1 .. Len(s) : s[j].fails => i <= j
<1> DEFINE failing == {i \in DOMAIN s : s[i].fails}
<1>1. Len(s) \in Nat /\ DOMAIN s = 1 .. Len(s) /\ \A i \in 1 .. Len(s) : s[i] \in Rules
  OBVIOUS
<1>2. Answer(s) = IF failing = {} THEN "ok" ELSE s[Min(failing)].as
  BY DEF Answer
<1>3. CASE failing = {}
  BY <1>1, <1>2, <1>3
<1>4. CASE failing # {}
  <2>1. Min(failing) \in failing /\ \A j \in failing : Min(failing) <= j
    <3>1. IsFiniteSet(1 .. Len(s))
      BY <1>1, FS_Interval
    <3>2. IsFiniteSet(failing) /\ failing \subseteq Int
      BY <1>1, <3>1, FS_Subset
    <3> HIDE DEF failing
    <3> QED
      BY <1>4, <3>2, MinIs
  <2> QED
    BY <1>1, <1>2, <1>4, <2>1, ReasonsAre DEF Rules
<1> QED
  BY <1>3, <1>4

\* Two ladders, one after the other.
LEMMA AnswerAfter ==
  ASSUME NEW s \in Seq(Rules), NEW t \in Seq(Rules)
  PROVE  /\ s \o t \in Seq(Rules)
         /\ Answer(s \o t) = IF Answer(s) = "ok" THEN Answer(t) ELSE Answer(s)
<1> DEFINE u == s \o t
<1>1. /\ u \in Seq(Rules) /\ Len(s) \in Nat /\ Len(t) \in Nat /\ Len(u) = Len(s) + Len(t)
      /\ \A i \in 1 .. Len(s) : u[i] = s[i]
      /\ \A i \in 1 .. Len(t) : u[Len(s) + i] = t[i]
  OBVIOUS
<1>2. \A i \in 1 .. Len(u) : i \in 1 .. Len(s) \/ i - Len(s) \in 1 .. Len(t)
  BY <1>1
<1>3. \A i \in 1 .. Len(u) : i \notin 1 .. Len(s) => u[i] = t[i - Len(s)]
  BY <1>1, <1>2
<1> HIDE DEF u
<1>4. CASE Answer(s) # "ok"
  <2>1. PICK i \in 1 .. Len(s) : /\ s[i].fails /\ Answer(s) = s[i].as
                                 /\ \A j \in 1 .. Len(s) : s[j].fails => i <= j
    BY <1>4, AnswerIs
  <2>2. i \in 1 .. Len(u) /\ u[i].fails
    BY <1>1, <2>1
  <2>3. PICK k \in 1 .. Len(u) : /\ u[k].fails /\ Answer(u) = u[k].as
                                 /\ \A j \in 1 .. Len(u) : u[j].fails => k <= j
    BY <1>1, <2>2, AnswerIs
  <2>4. k <= i /\ k \in 1 .. Len(s)
    BY <1>1, <2>2, <2>3
  <2>5. k = i
    BY <1>1, <2>1, <2>3, <2>4
  <2> QED
    BY <1>1, <1>4, <2>1, <2>3, <2>5 DEF u
<1>5. CASE Answer(s) = "ok" /\ Answer(t) # "ok"
  <2>1. PICK i \in 1 .. Len(t) : /\ t[i].fails /\ Answer(t) = t[i].as
                                 /\ \A j \in 1 .. Len(t) : t[j].fails => i <= j
    BY <1>5, AnswerIs
  <2>2. Len(s) + i \in 1 .. Len(u) /\ u[Len(s) + i].fails
    BY <1>1, <2>1
  <2>3. PICK k \in 1 .. Len(u) : /\ u[k].fails /\ Answer(u) = u[k].as
                                 /\ \A j \in 1 .. Len(u) : u[j].fails => k <= j
    BY <1>1, <2>2, AnswerIs
  <2>4. \A j \in 1 .. Len(s) : ~ s[j].fails
    BY <1>5, AnswerIs
  <2>5. k \notin 1 .. Len(s)
    BY <1>1, <2>3, <2>4
  <2>6. k - Len(s) \in 1 .. Len(t) /\ u[k] = t[k - Len(s)]
    BY <1>2, <1>3, <2>5
  <2>7. k <= Len(s) + i /\ i <= k - Len(s)
    BY <1>1, <2>1, <2>2, <2>3, <2>6
  <2>8. k \in Int /\ i \in Int /\ Len(s) \in Int
    BY <1>1, <2>1, <2>3
  <2>9. k = Len(s) + i
    BY <2>7, <2>8
  <2> QED
    BY <1>1, <1>5, <2>1, <2>3, <2>9 DEF u
<1>6. CASE Answer(s) = "ok" /\ Answer(t) = "ok"
  <2>1. \A j \in 1 .. Len(s) : ~ s[j].fails
    BY <1>6, AnswerIs
  <2>2. \A j \in 1 .. Len(t) : ~ t[j].fails
    BY <1>6, AnswerIs
  <2>3. \A j \in 1 .. Len(u) : ~ u[j].fails
    BY <1>1, <1>2, <1>3, <2>1, <2>2
  <2>4. Answer(u) = "ok"
    BY <1>1, <2>3, AnswerIs
  <2> QED
    BY <1>1, <1>6, <2>4 DEF u
<1> QED
  BY <1>4, <1>5, <1>6

\* One rule.
LEMMA AnswerOne ==
  ASSUME NEW a \in BOOLEAN, NEW x \in Reasons
  PROVE  /\ <<Rule(a, x)>> \in Seq(Rules)
         /\ Answer(<<Rule(a, x)>>) = IF a THEN x ELSE "ok"
<1> DEFINE s == <<Rule(a, x)>>
<1>1. s \in Seq(Rules) /\ Len(s) = 1 /\ s[1].fails = a /\ s[1].as = x
  BY DEF Rule, Rules
<1> HIDE DEF s
<1>2. 1 .. Len(s) = {1}
  BY <1>1
<1> QED
  BY <1>1, <1>2, AnswerIs, ReasonsAre DEF s

\* Tuples, joined.
LEMMA JoinOneOne ==
  ASSUME NEW a, NEW b
  PROVE  <<a>> \o <<b>> = <<a, b>>
<1> DEFINE S == {a, b} s == <<a>> t == <<b>>
           u == s \o t w == <<a, b>>
<1>1. /\ s \in Seq(S) /\ t \in Seq(S) /\ Len(s) = 1 /\ Len(t) = 1
      /\ w \in Seq(S) /\ Len(w) = 2
      /\ s[1] = a /\ t[1] = b
      /\ w[1] = a /\ w[2] = b
  OBVIOUS
<1> HIDE DEF s, t, w, S
<1>2. /\ u \in Seq(S) /\ Len(u) = 2
      /\ \A i \in 1 .. 2 : u[i] = IF i <= 1 THEN s[i] ELSE t[i - 1]
  <2>1. /\ u \in Seq(S) /\ Len(u) = Len(s) + Len(t)
        /\ \A i \in 1 .. Len(s) + Len(t) : u[i] = IF i <= Len(s) THEN s[i]
                                                ELSE t[i - Len(s)]
    BY <1>1, ConcatProperties
  <2> HIDE DEF u
  <2>2. Len(s) = 1 /\ Len(s) + Len(t) = 2
    BY <1>1
  <2> QED
    BY <2>1, <2>2
<1> HIDE DEF u
<1>3. 1 .. 2 = {1, 2}
  OBVIOUS
<1>4. \A i \in 1 .. 2 : u[i] = w[i]
  BY <1>1, <1>2, <1>3
<1>5. u = w
  BY <1>1, <1>2, <1>4, SeqEqual
<1> QED
  BY <1>5 DEF s, t, u, w

\* Two and two are four.
LEMMA JoinTwoTwo ==
  ASSUME NEW a, NEW b, NEW c, NEW d
  PROVE  <<a, b>> \o <<c, d>> = <<a, b, c, d>>
<1> DEFINE S == {a, b, c, d} s == <<a, b>> t == <<c, d>>
           u == s \o t w == <<a, b, c, d>>
<1>1. /\ s \in Seq(S) /\ t \in Seq(S) /\ Len(s) = 2 /\ Len(t) = 2
      /\ w \in Seq(S) /\ Len(w) = 4
      /\ s[1] = a /\ s[2] = b /\ t[1] = c /\ t[2] = d
      /\ w[1] = a /\ w[2] = b /\ w[3] = c /\ w[4] = d
  OBVIOUS
<1> HIDE DEF s, t, w, S
<1>2. /\ u \in Seq(S) /\ Len(u) = 4
      /\ \A i \in 1 .. 4 : u[i] = IF i <= 2 THEN s[i] ELSE t[i - 2]
  <2>1. /\ u \in Seq(S) /\ Len(u) = Len(s) + Len(t)
        /\ \A i \in 1 .. Len(s) + Len(t) : u[i] = IF i <= Len(s) THEN s[i]
                                                ELSE t[i - Len(s)]
    BY <1>1, ConcatProperties
  <2> HIDE DEF u
  <2>2. Len(s) = 2 /\ Len(s) + Len(t) = 4
    BY <1>1
  <2> QED
    BY <2>1, <2>2
<1> HIDE DEF u
<1>3. 1 .. 4 = {1, 2, 3, 4}
  OBVIOUS
<1>4. \A i \in 1 .. 4 : u[i] = w[i]
  BY <1>1, <1>2, <1>3
<1>5. u = w
  BY <1>1, <1>2, <1>4, SeqEqual
<1> QED
  BY <1>5 DEF s, t, u, w

\* Four and one are five.
LEMMA JoinFourOne ==
  ASSUME NEW a, NEW b, NEW c, NEW d, NEW e
  PROVE  <<a, b, c, d>> \o <<e>> = <<a, b, c, d, e>>
<1> DEFINE S == {a, b, c, d, e} s == <<a, b, c, d>> t == <<e>>
           u == s \o t w == <<a, b, c, d, e>>
<1>1. /\ s \in Seq(S) /\ t \in Seq(S) /\ Len(s) = 4 /\ Len(t) = 1
      /\ w \in Seq(S) /\ Len(w) = 5
      /\ s[1] = a /\ s[2] = b /\ s[3] = c /\ s[4] = d /\ t[1] = e
      /\ w[1] = a /\ w[2] = b /\ w[3] = c /\ w[4] = d /\ w[5] = e
  OBVIOUS
<1> HIDE DEF s, t, w, S
<1>2. /\ u \in Seq(S) /\ Len(u) = 5
      /\ \A i \in 1 .. 5 : u[i] = IF i <= 4 THEN s[i] ELSE t[i - 4]
  <2>1. /\ u \in Seq(S) /\ Len(u) = Len(s) + Len(t)
        /\ \A i \in 1 .. Len(s) + Len(t) : u[i] = IF i <= Len(s) THEN s[i]
                                                ELSE t[i - Len(s)]
    BY <1>1, ConcatProperties
  <2> HIDE DEF u
  <2>2. Len(s) = 4 /\ Len(s) + Len(t) = 5
    BY <1>1
  <2> QED
    BY <2>1, <2>2
<1> HIDE DEF u
<1>3. 1 .. 5 = {1, 2, 3, 4, 5}
  OBVIOUS
<1>4. \A i \in 1 .. 5 : u[i] = w[i]
  BY <1>1, <1>2, <1>3
<1>5. u = w
  BY <1>1, <1>2, <1>4, SeqEqual
<1> QED
  BY <1>5 DEF s, t, u, w

\* Four and four are eight.
LEMMA JoinFourFour ==
  ASSUME NEW a, NEW b, NEW c, NEW d, NEW e, NEW f, NEW g, NEW h
  PROVE  <<a, b, c, d>> \o <<e, f, g, h>> = <<a, b, c, d, e, f, g, h>>
<1> DEFINE S == {a, b, c, d, e, f, g, h} s == <<a, b, c, d>> t == <<e, f, g, h>>
           u == s \o t w == <<a, b, c, d, e, f, g, h>>
<1>1. /\ s \in Seq(S) /\ t \in Seq(S) /\ Len(s) = 4 /\ Len(t) = 4
      /\ w \in Seq(S) /\ Len(w) = 8
      /\ s[1] = a /\ s[2] = b /\ s[3] = c /\ s[4] = d /\ t[1] = e /\ t[2] = f
      /\ t[3] = g /\ t[4] = h
      /\ w[1] = a /\ w[2] = b /\ w[3] = c /\ w[4] = d /\ w[5] = e /\ w[6] = f
      /\ w[7] = g /\ w[8] = h
  OBVIOUS
<1> HIDE DEF s, t, w, S
<1>2. /\ u \in Seq(S) /\ Len(u) = 8
      /\ \A i \in 1 .. 8 : u[i] = IF i <= 4 THEN s[i] ELSE t[i - 4]
  <2>1. /\ u \in Seq(S) /\ Len(u) = Len(s) + Len(t)
        /\ \A i \in 1 .. Len(s) + Len(t) : u[i] = IF i <= Len(s) THEN s[i]
                                                ELSE t[i - Len(s)]
    BY <1>1, ConcatProperties
  <2> HIDE DEF u
  <2>2. Len(s) = 4 /\ Len(s) + Len(t) = 8
    BY <1>1
  <2> QED
    BY <2>1, <2>2
<1> HIDE DEF u
<1>3. 1 .. 8 = {1, 2, 3, 4, 5, 6, 7, 8}
  OBVIOUS
<1>4. \A i \in 1 .. 8 : u[i] = w[i]
  BY <1>1, <1>2, <1>3
<1>5. u = w
  BY <1>1, <1>2, <1>4, SeqEqual
<1> QED
  BY <1>5 DEF s, t, u, w

\* Two rules.
LEMMA AnswerTwo ==
  ASSUME NEW a \in BOOLEAN, NEW b \in BOOLEAN,
         NEW x \in Reasons, NEW y \in Reasons
  PROVE  /\ <<Rule(a, x), Rule(b, y)>> \in Seq(Rules)
         /\ Answer(<<Rule(a, x), Rule(b, y)>>) = IF a THEN x ELSE IF b THEN y ELSE "ok"
<1> DEFINE s == <<Rule(a, x)>> t == <<Rule(b, y)>>
<1>1. /\ s \in Seq(Rules) /\ Answer(s) = IF a THEN x ELSE "ok"
      /\ t \in Seq(Rules) /\ Answer(t) = IF b THEN y ELSE "ok"
  BY AnswerOne, ReasonsAre
<1>2. s \o t = <<Rule(a, x), Rule(b, y)>>
  BY JoinOneOne
<1> HIDE DEF s, t
<1> QED
  BY <1>1, <1>2, AnswerAfter, ReasonsAre

\* The common rules of a command, ...
LEMMA CommonAnswer ==
  ASSUME NEW r
  PROVE  /\ CommonChecks(r) \in Seq(Rules)
         /\ Answer(CommonChecks(r)) =
              IF "DOMAIN" \in r.wrong THEN "DOMAIN"
              ELSE IF "IDENTIFIER" \in r.wrong THEN "IDENTIFIER"
              ELSE IF "TIME" \in r.wrong THEN "TIME"
              ELSE IF "DEPENDENCY_BINDING" \in r.wrong THEN "DEPENDENCY_BINDING"
              ELSE IF "SHAPE" \in r.wrong THEN "SHAPE" ELSE "ok"
<1> DEFINE a == "DOMAIN" \in r.wrong b == "IDENTIFIER" \in r.wrong
           c == "TIME" \in r.wrong d == "DEPENDENCY_BINDING" \in r.wrong
           e == "SHAPE" \in r.wrong
           s == <<Rule(a, "DOMAIN"), Rule(b, "IDENTIFIER"), Rule(c, "TIME"),
                  Rule(d, "DEPENDENCY_BINDING")>>
           t == <<Rule(e, "SHAPE")>>
<1>1. CommonChecks(r) = s \o t
  <2>1. DOMAIN Common = 1 .. 5 /\ 1 .. 5 = {1, 2, 3, 4, 5}
    BY DEF Common
  <2>2. CommonChecks(r) = [i \in 1 .. 5 |-> Rule(Common[i] \in r.wrong, Common[i])]
    BY <2>1 DEF CommonChecks
  <2>3. CommonChecks(r) = <<Rule(a, "DOMAIN"), Rule(b, "IDENTIFIER"), Rule(c, "TIME"),
                            Rule(d, "DEPENDENCY_BINDING"), Rule(e, "SHAPE")>>
    BY <2>1, <2>2 DEF Common
  <2> HIDE DEF a, b, c, d, e
  <2> QED
    BY <2>3
<1>2. /\ a \in BOOLEAN /\ b \in BOOLEAN /\ c \in BOOLEAN /\ d \in BOOLEAN
      /\ e \in BOOLEAN
  OBVIOUS
<1> HIDE DEF a, b, c, d, e
<1>3. /\ s \in Seq(Rules)
      /\ Answer(s) = IF a THEN "DOMAIN" ELSE IF b THEN "IDENTIFIER"
                     ELSE IF c THEN "TIME" ELSE IF d THEN "DEPENDENCY_BINDING" ELSE "ok"
  <2> DEFINE p == <<Rule(a, "DOMAIN"), Rule(b, "IDENTIFIER")>>
             q == <<Rule(c, "TIME"), Rule(d, "DEPENDENCY_BINDING")>>
  <2>1. /\ p \in Seq(Rules)
        /\ Answer(p) = IF a THEN "DOMAIN" ELSE IF b THEN "IDENTIFIER" ELSE "ok"
    BY <1>2, AnswerTwo, ReasonsAre
  <2>2. /\ q \in Seq(Rules)
        /\ Answer(q) = IF c THEN "TIME" ELSE IF d THEN "DEPENDENCY_BINDING" ELSE "ok"
    BY <1>2, AnswerTwo, ReasonsAre
  <2>3. p \o q = s
    BY JoinTwoTwo
  <2> HIDE DEF p, q, s
  <2> QED
    BY <2>1, <2>2, <2>3, AnswerAfter
<1>4. t \in Seq(Rules) /\ Answer(t) = IF e THEN "SHAPE" ELSE "ok"
  BY <1>2, AnswerOne, ReasonsAre
<1> HIDE DEF s, t
<1>5. /\ s \o t \in Seq(Rules)
      /\ Answer(s \o t) = IF Answer(s) = "ok" THEN Answer(t) ELSE Answer(s)
  BY <1>3, <1>4, AnswerAfter
<1> QED
  BY <1>1, <1>3, <1>4, <1>5 DEF a, b, c, d, e

\* ... what is spent, ...
LEMMA ReplayAnswer ==
  ASSUME NEW r
  PROVE  /\ ReplayChecks(r) \in Seq(Rules)
         /\ Answer(ReplayChecks(r)) =
              IF r \in consumedCommandIds \/ r.nonce \in consumedNonces
              THEN "TrustReplay" ELSE "ok"
<1> DEFINE a == r \in consumedCommandIds b == r.nonce \in consumedNonces
<1>1. a \in BOOLEAN /\ b \in BOOLEAN
  OBVIOUS
<1>2. ReplayChecks(r) = <<Rule(a, "TrustReplay"), Rule(b, "TrustReplay")>>
  BY DEF ReplayChecks
<1> HIDE DEF a, b
<1>3. /\ ReplayChecks(r) \in Seq(Rules)
      /\ Answer(ReplayChecks(r)) = IF a THEN "TrustReplay"
                                   ELSE IF b THEN "TrustReplay" ELSE "ok"
  BY <1>1, <1>2, AnswerTwo, ReasonsAre
<1> QED
  BY <1>3 DEF a, b

\* ... the fields of an action, ...
LEMMA FieldAnswer ==
  ASSUME NEW r, r.action \in Overlay \cup Disposition \cup {"SEIZE"}
  PROVE  /\ FieldRules(r) \in Seq(Rules)
         /\ Answer(FieldRules(r)) =
              IF ~ ShapeHolds(r) THEN "SHAPE"
              ELSE IF r.action = "FREEZE" /\ r.amount <= frozenTarget[r.subject]
              THEN "FREEZE_DIRECTION"
              ELSE IF r.action = "RECOVER" /\ r.entitlement \in consumedEntitlements
              THEN "ENTITLEMENT" ELSE "ok"
<1>1. CASE r.action = "FREEZE"
  <2> DEFINE a == ~ OverlayShape(r) b == r.amount <= frozenTarget[r.subject]
  <2>1. a \in BOOLEAN /\ b \in BOOLEAN
    OBVIOUS
  <2>2. FieldRules(r) = <<Rule(a, "SHAPE"), Rule(b, "FREEZE_DIRECTION")>>
    BY <1>1 DEF FieldRules, Disposition
  <2>3. ShapeHolds(r) <=> ~ a
    BY <1>1 DEF ShapeHolds, Overlay
  <2>4. b <=> r.amount <= frozenTarget[r.subject]
    OBVIOUS
  <2> HIDE DEF a, b
  <2>5. /\ FieldRules(r) \in Seq(Rules)
        /\ Answer(FieldRules(r)) = IF a THEN "SHAPE" ELSE IF b THEN "FREEZE_DIRECTION"
                                   ELSE "ok"
    BY <2>1, <2>2, AnswerTwo, ReasonsAre
  <2> QED
    BY <1>1, <2>3, <2>4, <2>5
<1>2. CASE r.action \in {"RESTRICT", "SEIZE"}
  <2> DEFINE a == ~ ShapeHolds(r)
  <2>1. a \in BOOLEAN
    BY DEF ShapeHolds, Overlay
  <2>2. FieldRules(r) = <<Rule(a, "SHAPE")>>
    <3>1. CASE r.action = "RESTRICT"
      <4>1. a <=> ~ OverlayShape(r) \/ r.amount # 0
        BY <3>1 DEF ShapeHolds, Overlay
      <4>2. FieldRules(r) = <<Rule(~ OverlayShape(r) \/ r.amount # 0, "SHAPE")>>
        BY <3>1 DEF FieldRules, Disposition
      <4> QED
        BY <2>1, <4>1, <4>2 DEF Rule
    <3>2. CASE r.action = "SEIZE"
      <4> DEFINE b == ~ (/\ r.source = r.subject /\ r.custodian # Zero
                         /\ r.destination = r.custodian /\ r.amount > 0 /\ Bare(r))
      <4>1. a <=> b
        BY <3>2 DEF ShapeHolds, Overlay
      <4>2. FieldRules(r) = <<Rule(b, "SHAPE")>>
        BY <3>2 DEF FieldRules, Disposition
      <4> QED
        BY <2>1, <4>1, <4>2 DEF Rule
    <3> QED
      BY <1>2, <3>1, <3>2
  <2>3. a <=> ~ ShapeHolds(r)
    OBVIOUS
  <2> HIDE DEF a
  <2>4. FieldRules(r) \in Seq(Rules) /\ Answer(FieldRules(r)) = IF a THEN "SHAPE" ELSE "ok"
    BY <2>1, <2>2, AnswerOne, ReasonsAre
  <2> QED
    BY <1>2, <2>3, <2>4
<1>3. CASE r.action \in Disposition
  <2> DEFINE a == ~ DispositionShape(r) \/ ~ CommitmentShape(r)
             b == r.action = "RECOVER" /\ r.entitlement \in consumedEntitlements
  <2>1. a \in BOOLEAN /\ b \in BOOLEAN
    OBVIOUS
  <2>2. FieldRules(r) = <<Rule(a, "SHAPE"), Rule(b, "ENTITLEMENT")>>
    BY <1>3 DEF FieldRules, Disposition
  <2>3. ShapeHolds(r) <=> ~ a
    BY <1>3 DEF ShapeHolds, Overlay, Disposition
  <2>4. b <=> r.action = "RECOVER" /\ r.entitlement \in consumedEntitlements
    OBVIOUS
  <2> HIDE DEF a, b
  <2>5. /\ FieldRules(r) \in Seq(Rules)
        /\ Answer(FieldRules(r)) = IF a THEN "SHAPE" ELSE IF b THEN "ENTITLEMENT" ELSE "ok"
    BY <2>1, <2>2, AnswerTwo, ReasonsAre
  <2> QED
    BY <1>3, <2>3, <2>4, <2>5 DEF Disposition
<1> QED
  BY <1>1, <1>2, <1>3 DEF Overlay

\* ... and what the state of its case and of its subject allow.
CaseAnswerOf(r) ==
  LET overlay == r.action \in Overlay
      disposes == r.action \in Disposition
      inCustody == IsOpen(r, {"CUSTODY"})
      head == IF overlay THEN overlayHeads[<<r.action, r.subject>>] ELSE None
  IN  IF IsOpen(r, Overlay \ {r.action}) \/ (inCustody /\ overlay) THEN "CASE_CONFLICT"
      ELSE IF (inCustody /\ r.action = "SEIZE")
                \/ (inCustody /\ disposes /\ ~ MatchesCustody(r)) THEN "CUSTODY"
      ELSE IF head # None /\ head.caseId # r.caseId THEN "CASE_CONFLICT"
      ELSE IF head # None /\ r.action = "RESTRICT" THEN "NO_STATE_CHANGE"
      ELSE IF disposes /\ ~ inCustody /\ cases[r.caseId].phase # "NONE"
      THEN "CASE_CONFLICT"
      ELSE IF disposes /\ ~ inCustody /\ r.source # r.subject THEN "CUSTODY" ELSE "ok"

\* The rules of the case give that answer.
LEMMA CaseAnswer ==
  ASSUME NEW r
  PROVE  CaseRules(r) \in Seq(Rules) /\ Answer(CaseRules(r)) = CaseAnswerOf(r)
<1> DEFINE inCustody == IsOpen(r, {"CUSTODY"})
           head == IF r.action \in Overlay THEN overlayHeads[<<r.action, r.subject>>]
                                           ELSE None
           a == IsOpen(r, Overlay \ {r.action})
           b == inCustody /\ r.action \in Overlay
           c == inCustody /\ r.action = "SEIZE"
           d == inCustody /\ r.action \in Disposition /\ ~ MatchesCustody(r)
           e == head # None /\ head.caseId # r.caseId
           f == head # None /\ r.action = "RESTRICT"
           g == r.action \in Disposition /\ ~ inCustody /\ cases[r.caseId].phase # "NONE"
           h == r.action \in Disposition /\ ~ inCustody /\ r.source # r.subject
<1>1. CaseRules(r) =
        <<Rule(a, "CASE_CONFLICT"), Rule(b, "CASE_CONFLICT"), Rule(c, "CUSTODY"),
          Rule(d, "CUSTODY"), Rule(e, "CASE_CONFLICT"), Rule(f, "NO_STATE_CHANGE"),
          Rule(g, "CASE_CONFLICT"), Rule(h, "CUSTODY")>>
  BY DEF CaseRules
<1>2. /\ a \in BOOLEAN /\ b \in BOOLEAN /\ c \in BOOLEAN /\ d \in BOOLEAN
      /\ e \in BOOLEAN /\ f \in BOOLEAN /\ g \in BOOLEAN /\ h \in BOOLEAN
  BY DEF IsOpen
<1>3. CaseAnswerOf(r) = IF a \/ b THEN "CASE_CONFLICT" ELSE IF c \/ d THEN "CUSTODY"
                        ELSE IF e THEN "CASE_CONFLICT" ELSE IF f THEN "NO_STATE_CHANGE"
                        ELSE IF g THEN "CASE_CONFLICT" ELSE IF h THEN "CUSTODY" ELSE "ok"
  BY DEF CaseAnswerOf
<1> HIDE DEF inCustody, head, a, b, c, d, e, f, g, h
<1> DEFINE p == <<Rule(a, "CASE_CONFLICT"), Rule(b, "CASE_CONFLICT")>>
           q == <<Rule(c, "CUSTODY"), Rule(d, "CUSTODY")>>
           s == <<Rule(e, "CASE_CONFLICT"), Rule(f, "NO_STATE_CHANGE")>>
           t == <<Rule(g, "CASE_CONFLICT"), Rule(h, "CUSTODY")>>
<1>4. /\ p \in Seq(Rules) /\ Answer(p) = IF a \/ b THEN "CASE_CONFLICT" ELSE "ok"
      /\ q \in Seq(Rules) /\ Answer(q) = IF c \/ d THEN "CUSTODY" ELSE "ok"
      /\ s \in Seq(Rules) /\ Answer(s) = IF e THEN "CASE_CONFLICT" ELSE IF f
                                         THEN "NO_STATE_CHANGE" ELSE "ok"
      /\ t \in Seq(Rules) /\ Answer(t) = IF g THEN "CASE_CONFLICT" ELSE IF h
                                         THEN "CUSTODY" ELSE "ok"
  BY <1>2, AnswerTwo, ReasonsAre
<1>5. CaseRules(r) = (p \o q) \o (s \o t)
  <2>1. p \o q = <<Rule(a, "CASE_CONFLICT"), Rule(b, "CASE_CONFLICT"), Rule(c, "CUSTODY"),
                   Rule(d, "CUSTODY")>>
    BY JoinTwoTwo
  <2>2. s \o t = <<Rule(e, "CASE_CONFLICT"), Rule(f, "NO_STATE_CHANGE"),
                   Rule(g, "CASE_CONFLICT"), Rule(h, "CUSTODY")>>
    BY JoinTwoTwo
  <2> HIDE DEF p, q, s, t
  <2> QED
    BY <1>1, <2>1, <2>2, JoinFourFour
<1> HIDE DEF p, q, s, t
<1>6. /\ p \o q \in Seq(Rules)
      /\ Answer(p \o q) = IF a \/ b THEN "CASE_CONFLICT" ELSE IF c \/ d THEN "CUSTODY"
                          ELSE "ok"
  BY <1>4, AnswerAfter, ReasonsAre
<1>7. /\ s \o t \in Seq(Rules)
      /\ Answer(s \o t) = IF e THEN "CASE_CONFLICT" ELSE IF f THEN "NO_STATE_CHANGE"
                          ELSE IF g THEN "CASE_CONFLICT" ELSE IF h THEN "CUSTODY" ELSE "ok"
  BY <1>4, AnswerAfter, ReasonsAre
<1> QED
  BY <1>3, <1>5, <1>6, <1>7, AnswerAfter, ReasonsAre

\* The whole ladder of an action.
LEMMA ActionLadder ==
  ASSUME NEW r, r.action \in Overlay \cup Disposition \cup {"SEIZE"}
  PROVE  ActionVerdict(r) =
           IF Answer(CommonChecks(r)) # "ok" THEN Answer(CommonChecks(r))
           ELSE IF Answer(ReplayChecks(r)) # "ok" THEN Answer(ReplayChecks(r))
           ELSE IF cases[r.caseId].phase = "TERMINAL" THEN "TrustTerminal"
           ELSE IF Answer(FieldRules(r)) # "ok" THEN Answer(FieldRules(r))
           ELSE CaseAnswerOf(r)
<1> DEFINE a == cases[r.caseId].phase = "TERMINAL"
           p == CommonChecks(r)
           q == ReplayChecks(r)
           s == <<Rule(a, "TrustTerminal")>>
           t == FieldRules(r)
           u == CaseRules(r)
<1>1. ActionVerdict(r) = Answer((((p \o q) \o s) \o t) \o u)
  BY DEF ActionVerdict
<1>2. a \in BOOLEAN
  OBVIOUS
<1>3. /\ p \in Seq(Rules) /\ q \in Seq(Rules) /\ t \in Seq(Rules)
      /\ u \in Seq(Rules) /\ Answer(u) = CaseAnswerOf(r)
  BY CommonAnswer, ReplayAnswer, FieldAnswer, CaseAnswer
<1> HIDE DEF a
<1>4. s \in Seq(Rules) /\ Answer(s) = IF a THEN "TrustTerminal" ELSE "ok"
  BY <1>2, AnswerOne, ReasonsAre
<1> SUFFICES ActionVerdict(r) =
               IF Answer(p) # "ok" THEN Answer(p) ELSE IF Answer(q) # "ok" THEN Answer(q)
               ELSE IF a THEN "TrustTerminal" ELSE IF Answer(t) # "ok" THEN Answer(t)
               ELSE Answer(u)
  BY <1>3 DEF a
<1> HIDE DEF p, q, s, t, u
<1>5. p \o q \in Seq(Rules)
      /\ Answer(p \o q) = IF Answer(p) = "ok" THEN Answer(q) ELSE Answer(p)
  BY <1>3, AnswerAfter
<1>6. (p \o q) \o s \in Seq(Rules)
      /\ Answer((p \o q) \o s) = IF Answer(p \o q) = "ok" THEN Answer(s) ELSE Answer(p \o q)
  BY <1>4, <1>5, AnswerAfter
<1>7. ((p \o q) \o s) \o t \in Seq(Rules)
      /\ Answer(((p \o q) \o s) \o t) =
           IF Answer((p \o q) \o s) = "ok" THEN Answer(t) ELSE Answer((p \o q) \o s)
  BY <1>3, <1>6, AnswerAfter
<1>8. Answer((((p \o q) \o s) \o t) \o u) =
           IF Answer(((p \o q) \o s) \o t) = "ok" THEN Answer(u)
           ELSE Answer(((p \o q) \o s) \o t)
  BY <1>3, <1>7, AnswerAfter
<1> QED
  BY <1>1, <1>4, <1>5, <1>6, <1>7, <1>8

\* The ladder of a reversal.
ReversalAnswerOf(v) ==
  LET p == v.action
      held == custody[p.caseId]
  IN  IF p \notin DOMAIN actions THEN "CURRENT_EFFECT"
      ELSE IF cases[p.caseId].phase = "TERMINAL" THEN "TrustTerminal"
      ELSE IF Reverses[v.reversal] # p.action THEN "REVERSAL_PAIRING"
      ELSE IF p.action = "SEIZE" /\ held = None THEN "CUSTODY"
      ELSE IF \/ p.action = "SEIZE" /\ held # None /\ held.action # p
              \/ p.action \in Overlay /\ ~ IsHead(p)
      THEN "CURRENT_EFFECT" ELSE "ok"

\* The rules of a reversal give that answer.
LEMMA ReversalAnswer ==
  ASSUME NEW v
  PROVE  ReversalRules(v) \in Seq(Rules) /\ Answer(ReversalRules(v)) = ReversalAnswerOf(v)
<1>1. CASE v.action \notin DOMAIN actions
  <2>1. ReversalRules(v) = <<Rule(TRUE, "CURRENT_EFFECT")>>
    BY <1>1 DEF ReversalRules
  <2> QED
    BY <1>1, <2>1, AnswerOne, ReasonsAre DEF ReversalAnswerOf
<1>2. CASE v.action \in DOMAIN actions
  <2> DEFINE r == v.action
             held == custody[r.caseId]
             a == cases[r.caseId].phase = "TERMINAL"
             b == Reverses[v.reversal] # r.action
             c == r.action = "SEIZE" /\ held = None
             d == r.action = "SEIZE" /\ held # None /\ held.action # r
             e == r.action \in Overlay /\ ~ IsHead(r)
  <2>1. ReversalRules(v) =
          <<Rule(a, "TrustTerminal"), Rule(b, "REVERSAL_PAIRING"), Rule(c, "CUSTODY"),
            Rule(d, "CURRENT_EFFECT"), Rule(e, "CURRENT_EFFECT")>>
    BY <1>2 DEF ReversalRules
  <2>2. /\ a \in BOOLEAN /\ b \in BOOLEAN /\ c \in BOOLEAN /\ d \in BOOLEAN
        /\ e \in BOOLEAN
    BY DEF IsHead
  <2>3. ReversalAnswerOf(v) = IF a THEN "TrustTerminal" ELSE IF b THEN "REVERSAL_PAIRING"
                              ELSE IF c THEN "CUSTODY" ELSE IF d \/ e
                              THEN "CURRENT_EFFECT" ELSE "ok"
    BY <1>2 DEF ReversalAnswerOf
  <2> HIDE DEF r, held, a, b, c, d, e
  <2> DEFINE p == <<Rule(a, "TrustTerminal"), Rule(b, "REVERSAL_PAIRING")>>
             q == <<Rule(c, "CUSTODY"), Rule(d, "CURRENT_EFFECT")>>
             t == <<Rule(e, "CURRENT_EFFECT")>>
  <2>4. /\ p \in Seq(Rules) /\ Answer(p) = IF a THEN "TrustTerminal" ELSE IF b
                                           THEN "REVERSAL_PAIRING" ELSE "ok"
        /\ q \in Seq(Rules) /\ Answer(q) = IF c THEN "CUSTODY" ELSE IF d
                                           THEN "CURRENT_EFFECT" ELSE "ok"
    BY <2>2, AnswerTwo, ReasonsAre
  <2>5. t \in Seq(Rules) /\ Answer(t) = IF e THEN "CURRENT_EFFECT" ELSE "ok"
    BY <2>2, AnswerOne, ReasonsAre
  <2>6. ReversalRules(v) = (p \o q) \o t
    <3>1. p \o q = <<Rule(a, "TrustTerminal"), Rule(b, "REVERSAL_PAIRING"),
                     Rule(c, "CUSTODY"), Rule(d, "CURRENT_EFFECT")>>
      BY JoinTwoTwo
    <3> HIDE DEF p, q
    <3> QED
      BY <2>1, <3>1, JoinFourOne
  <2> HIDE DEF p, q, t
  <2>7. /\ p \o q \in Seq(Rules)
        /\ Answer(p \o q) = IF a THEN "TrustTerminal" ELSE IF b THEN "REVERSAL_PAIRING"
                            ELSE IF c THEN "CUSTODY" ELSE IF d THEN "CURRENT_EFFECT"
                            ELSE "ok"
    BY <2>4, AnswerAfter, ReasonsAre
  <2> QED
    BY <2>3, <2>5, <2>6, <2>7, AnswerAfter, ReasonsAre
<1> QED
  BY <1>1, <1>2

\* The whole ladder of a reversal.
LEMMA ReversalLadder ==
  ASSUME NEW v
  PROVE  ReversalVerdict(v) =
           IF Answer(CommonChecks(v)) # "ok" THEN Answer(CommonChecks(v))
           ELSE IF Answer(ReplayChecks(v)) # "ok" THEN Answer(ReplayChecks(v))
           ELSE ReversalAnswerOf(v)
<1> DEFINE p == CommonChecks(v)
           q == ReplayChecks(v)
           s == ReversalRules(v)
<1>1. ReversalVerdict(v) = Answer((p \o q) \o s)
  BY DEF ReversalVerdict
<1>2. p \in Seq(Rules) /\ q \in Seq(Rules) /\ s \in Seq(Rules)
      /\ Answer(s) = ReversalAnswerOf(v)
  BY CommonAnswer, ReplayAnswer, ReversalAnswer
<1> HIDE DEF p, q, s
<1>3. p \o q \in Seq(Rules)
      /\ Answer(p \o q) = IF Answer(p) = "ok" THEN Answer(q) ELSE Answer(p)
  BY <1>2, AnswerAfter
<1>4. Answer((p \o q) \o s) = IF Answer(p \o q) = "ok" THEN Answer(s) ELSE Answer(p \o q)
  BY <1>2, <1>3, AnswerAfter
<1> QED
  BY <1>1, <1>2, <1>3, <1>4 DEF p, q
-----------------------------------------------------------------------------
(* What an accepted command satisfies *)

\* An action and a reversal are never the same.
LEMMA ActionOrReversal == ActionRequest \cap Reversal = {}
<1>1. ASSUME NEW x \in ActionRequest, x \in Reversal PROVE FALSE
  <2>1. "subject" \in DOMAIN x
    BY DEF ActionRequest
  <2>2. "subject" \notin DOMAIN x
    BY <1>1 DEF Reversal
  <2> QED
    BY <2>1, <2>2
<1> QED
  BY <1>1

\* The next nonce is a number.
LEMMA NoncesAre == ASSUME TypeOK PROVE NoncesOffered \subseteq Nat
<1>1. Cardinality(consumedNonces) \in Nat
  BY FS_CardinalityType DEF TypeOK, CommandsOK
<1> QED
  BY <1>1 DEF NoncesOffered

\* A request is a shape under a nonce.
LEMMA RequestIs ==
  ASSUME TypeOK, NEW r \in Requests
  PROVE  /\ r \in ActionRequest
         /\ r.action \in Disposition => r.destination # Custodian
         /\ \E x \in Shapes : r = [x EXCEPT !.nonce = r.nonce]
<1>1. PICK x \in Shapes, n \in NoncesOffered : r = [x EXCEPT !.nonce = n]
  BY DEF Requests
<1>2. x \in ActionRequest /\ n \in Nat
  BY NoncesAre, ReproductionAssumption DEF ReproductionAssumption
<1>3. /\ r \in ActionRequest /\ r.nonce = n /\ r.action = x.action
      /\ r.destination = x.destination
  BY <1>1, <1>2 DEF ActionRequest
<1> QED
  BY <1>1, <1>3, ReproductionAssumption DEF ReproductionAssumption

\* What is known of an action that is accepted, ...
Accepted(r) ==
  /\ r \in ActionRequest /\ r \notin consumedCommandIds
  /\ r.action \in Disposition => r.destination # Custodian
  /\ \E x \in Shapes : r = [x EXCEPT !.nonce = r.nonce]
  /\ r.wrong = {}
  /\ cases[r.caseId].phase # "TERMINAL"
  /\ ShapeHolds(r)
  /\ r.action = "FREEZE" => ~ (r.amount <= frozenTarget[r.subject])
  /\ r.action = "RECOVER" => r.entitlement \notin consumedEntitlements
  /\ CaseAnswerOf(r) = "ok"

\* An action that is offered and answered "ok" was accepted.
LEMMA AcceptedIs ==
  ASSUME TypeOK, NEW r \in Requests, ActionVerdict(r) = "ok" PROVE Accepted(r)
<1>1. /\ r \in ActionRequest
      /\ r.action \in Disposition => r.destination # Custodian
      /\ \E x \in Shapes : r = [x EXCEPT !.nonce = r.nonce]
  BY RequestIs
<1>2. /\ r.action \in Overlay \cup Disposition \cup {"SEIZE"}
      /\ r.wrong \subseteq Range(Common)
  BY <1>1 DEF ActionRequest
<1>3. /\ Answer(CommonChecks(r)) = "ok" /\ Answer(ReplayChecks(r)) = "ok"
      /\ cases[r.caseId].phase # "TERMINAL" /\ Answer(FieldRules(r)) = "ok"
      /\ CaseAnswerOf(r) = "ok"
  BY <1>2, ActionLadder
<1>4. r \notin consumedCommandIds
  BY <1>3, ReplayAnswer
<1>5. r.wrong = {}
  <2>1. /\ "DOMAIN" \notin r.wrong /\ "IDENTIFIER" \notin r.wrong /\ "TIME" \notin r.wrong
        /\ "DEPENDENCY_BINDING" \notin r.wrong /\ "SHAPE" \notin r.wrong
    BY <1>3, CommonAnswer
  <2>2. Range(Common) = {"DOMAIN", "IDENTIFIER", "TIME", "DEPENDENCY_BINDING", "SHAPE"}
    BY DEF Range, Common
  <2> QED
    BY <1>2, <2>1, <2>2
<1>6. /\ ShapeHolds(r)
      /\ r.action = "FREEZE" => ~ (r.amount <= frozenTarget[r.subject])
      /\ r.action = "RECOVER" => r.entitlement \notin consumedEntitlements
  BY <1>2, <1>3, FieldAnswer
<1> QED
  BY <1>1, <1>3, <1>4, <1>5, <1>6 DEF Accepted

\* ... and of a reversal.
AcceptedReversal(v) ==
  /\ v \in Reversal /\ v \notin consumedCommandIds
  /\ v.action \in DOMAIN actions
  /\ cases[v.action.caseId].phase # "TERMINAL"
  /\ Reverses[v.reversal] = v.action.action
  /\ v.action.action = "SEIZE" =>
       custody[v.action.caseId] # None /\ custody[v.action.caseId].action = v.action
  /\ v.action.action \in Overlay => IsHead(v.action)

\* So was a reversal.
LEMMA AcceptedReversalIs ==
  ASSUME TypeOK, NEW v \in Reversals, ReversalVerdict(v) = "ok" PROVE AcceptedReversal(v)
<1>1. /\ Answer(CommonChecks(v)) = "ok" /\ Answer(ReplayChecks(v)) = "ok"
      /\ ReversalAnswerOf(v) = "ok"
  BY ReversalLadder
<1>2. v \notin consumedCommandIds
  BY <1>1, ReplayAnswer
<1>3. v.action \in DOMAIN actions
  BY <1>1 DEF ReversalAnswerOf
<1>4. v \in Reversal
  <2>1. \E k \in Pairs, n \in NoncesOffered : \E p : v = ReversalVector(k[1], p, n)
    <3>1. PICK D : D = DOMAIN actions \cup {CHOOSE x \in Shapes : TRUE}
      OBVIOUS
    <3>2. PICK x \in Pairs \X D \X NoncesOffered : v = ReversalVector(x[1][1], x[2], x[3])
      BY <3>1 DEF Reversals
    <3>3. x[1] \in Pairs /\ x[3] \in NoncesOffered
      OBVIOUS
    <3> QED
      BY <3>2, <3>3
  <2>2. PICK k \in Pairs, n \in NoncesOffered : \E p : v = ReversalVector(k[1], p, n)
    BY <2>1
  <2>3. k[1] \in DOMAIN Reverses /\ n \in Nat
    BY NoncesAre, ReproductionAssumption DEF ReproductionAssumption
  <2>4. v = [reversal |-> k[1], action |-> v.action, nonce |-> n, wrong |-> {}]
    BY <2>2 DEF ReversalVector
  <2>5. v.action \in ActionRequest
    BY <1>3 DEF TypeOK, CommandsOK
  <2> QED
    BY <2>3, <2>4, <2>5 DEF Reversal
<1> QED
  BY <1>1, <1>2, <1>3, <1>4 DEF AcceptedReversal, ReversalAnswerOf
-----------------------------------------------------------------------------
(* What a command adds *)

\* An action is one more that is in force.
LEMMA ActionAdds ==
  ASSUME CommandsOK, NEW r \in ActionRequest, r \notin consumedCommandIds,
         NEW parent \in DOMAIN actions \cup {None}, commit(r, parent)
  PROVE  /\ CommandsOK'
         /\ DOMAIN actions' = DOMAIN actions \cup {r} /\ r \notin DOMAIN actions
         /\ actions'[r] = parent
         /\ \A p \in DOMAIN actions : actions'[p] = actions[p]
         /\ consumedCommandIds' \ DOMAIN actions' = consumedCommandIds \ DOMAIN actions
         /\ Reversed' = Reversed
         /\ \A a, s : InForce(a, s)' = IF r.action = a /\ r.subject = s
                                       THEN InForce(a, s) \cup {r} ELSE InForce(a, s)
<1>1. /\ DOMAIN actions' = DOMAIN actions \cup {r} /\ r \notin DOMAIN actions
      /\ actions'[r] = parent
      /\ \A p \in DOMAIN actions : actions'[p] = actions[p]
  <2>1. r \notin DOMAIN actions
    BY DEF CommandsOK
  <2> QED
    BY <2>1 DEF commit
<1>2. consumedCommandIds' = consumedCommandIds \cup {r}
      /\ consumedNonces' = consumedNonces \cup {r.nonce} /\ r.nonce \in Nat
  BY DEF commit, Consumed, ActionRequest
<1>3. consumedCommandIds' \ DOMAIN actions' = consumedCommandIds \ DOMAIN actions
  BY <1>1, <1>2
<1>4. Reversed' = Reversed /\ r \notin Reversed
  BY <1>1, <1>3 DEF Reversed, CommandsOK
<1>5. ASSUME NEW a, NEW s
      PROVE  InForce(a, s)' = IF r.action = a /\ r.subject = s
                              THEN InForce(a, s) \cup {r} ELSE InForce(a, s)
  BY <1>1, <1>4 DEF InForce
<1>6. CommandsOK'
  <2>1. IsFiniteSet(consumedCommandIds') /\ IsFiniteSet(consumedNonces')
    BY <1>2, FS_AddElement DEF CommandsOK
  <2>2. \A p \in DOMAIN actions' : actions'[p] \in DOMAIN actions' \cup {None}
    BY <1>1 DEF CommandsOK
  <2>3. /\ consumedCommandIds' \subseteq ActionRequest \cup Reversal
        /\ consumedCommandIds' \cap ActionRequest = DOMAIN actions'
        /\ consumedNonces' \subseteq Nat
    BY <1>1, <1>2 DEF CommandsOK
  <2>4. \A v \in consumedCommandIds' \ DOMAIN actions' : v.action \in DOMAIN actions'
    BY <1>1, <1>3 DEF CommandsOK
  <2> QED
    BY <2>1, <2>2, <2>3, <2>4 DEF CommandsOK
<1> QED
  BY <1>1, <1>3, <1>4, <1>5, <1>6

\* A reversal leaves one less.
LEMMA ReversalTakes ==
  ASSUME CommandsOK, NEW v \in Reversal, v \notin consumedCommandIds,
         v.action \in DOMAIN actions, Consumed(v), actions' = actions
  PROVE  /\ CommandsOK'
         /\ consumedCommandIds' \ DOMAIN actions' = (consumedCommandIds \ DOMAIN actions)
                                                      \cup {v}
         /\ Reversed' = Reversed \cup {v.action}
         /\ \A a, s : InForce(a, s)' = InForce(a, s) \ {v.action}
<1>1. /\ consumedCommandIds' = consumedCommandIds \cup {v} /\ v \notin DOMAIN actions
      /\ consumedNonces' = consumedNonces \cup {v.nonce} /\ v.nonce \in Nat
      /\ v \notin ActionRequest
  BY ActionOrReversal DEF Consumed, Reversal, CommandsOK
<1>2. consumedCommandIds' \ DOMAIN actions' = (consumedCommandIds \ DOMAIN actions) \cup {v}
  BY <1>1
<1>3. Reversed' = Reversed \cup {v.action}
  BY <1>2 DEF Reversed
<1>4. ASSUME NEW a, NEW s PROVE InForce(a, s)' = InForce(a, s) \ {v.action}
  BY <1>3 DEF InForce
<1>5. CommandsOK'
  <2>1. IsFiniteSet(consumedCommandIds') /\ IsFiniteSet(consumedNonces')
    BY <1>1, FS_AddElement DEF CommandsOK
  <2>2. /\ consumedCommandIds' \subseteq ActionRequest \cup Reversal
        /\ consumedCommandIds' \cap ActionRequest = DOMAIN actions'
        /\ consumedNonces' \subseteq Nat
    BY <1>1 DEF CommandsOK
  <2>3. \A x \in consumedCommandIds' \ DOMAIN actions' : x.action \in DOMAIN actions'
    BY <1>2 DEF CommandsOK
  <2> QED
    BY <2>1, <2>2, <2>3 DEF CommandsOK
<1> QED
  BY <1>2, <1>3, <1>4, <1>5
-----------------------------------------------------------------------------
(* Receipts *)

\* There are finitely many, each of a command that was applied, with an amount.
LEMMA ReceiptsAre ==
  ASSUME CommandsOK
  PROVE  /\ IsFiniteSet(Receipts)
         /\ \A x \in Receipts : x.amount \in Nat /\ x.commandId \in consumedCommandIds
<1> DEFINE A == {deriveActionReceipt(r) : r \in DOMAIN actions}
           B == {deriveReversalReceipt(v) : v \in consumedCommandIds \ DOMAIN actions}
<1>1. IsFiniteSet(DOMAIN actions) /\ IsFiniteSet(consumedCommandIds \ DOMAIN actions)
  BY FS_Subset DEF CommandsOK
<1>2. IsFiniteSet(A)
  <2> DEFINE f == [r \in DOMAIN actions |-> deriveActionReceipt(r)]
  <2>1. f \in Surjection(DOMAIN actions, A)
    BY DEF Surjection
  <2> HIDE DEF f, A
  <2> QED
    BY <1>1, <2>1, FS_Surjection
<1>3. IsFiniteSet(B)
  <2> DEFINE f == [v \in consumedCommandIds \ DOMAIN actions |-> deriveReversalReceipt(v)]
  <2>1. f \in Surjection(consumedCommandIds \ DOMAIN actions, B)
    BY DEF Surjection
  <2> HIDE DEF f, B
  <2> QED
    BY <1>1, <2>1, FS_Surjection
<1>4. Receipts = A \cup B
  BY DEF Receipts
<1>5. ASSUME NEW r \in DOMAIN actions
      PROVE  /\ deriveActionReceipt(r).amount \in Nat
             /\ deriveActionReceipt(r).commandId \in consumedCommandIds
  BY DEF deriveActionReceipt, CommandsOK, ActionRequest
<1>6. ASSUME NEW v \in consumedCommandIds \ DOMAIN actions
      PROVE  /\ deriveReversalReceipt(v).amount \in Nat
             /\ deriveReversalReceipt(v).commandId \in consumedCommandIds
  <2>1. v.action \in ActionRequest
    BY DEF CommandsOK
  <2> QED
    BY <2>1 DEF deriveReversalReceipt, ActionRequest
<1>7. IsFiniteSet(Receipts)
  <2> HIDE DEF A, B
  <2> QED
    BY <1>2, <1>3, <1>4, FS_Union
<1> QED
  BY <1>4, <1>5, <1>6, <1>7

\* What adding a receipt does to a sum of amounts.
LEMMA SumGrows ==
  ASSUME NEW R, IsFiniteSet(R), \A y \in R : y.amount \in Nat,
         NEW x, x \notin R, x.amount \in Nat, NEW S \in SUBSET R
  PROVE  LET sum == SumFunctionOnSet([y \in R |-> y.amount], S)
             after == [y \in R \cup {x} |-> y.amount]
         IN  /\ sum \in Nat
             /\ SumFunctionOnSet(after, S) = sum
             /\ SumFunctionOnSet(after, S \cup {x}) = sum + x.amount
<1> DEFINE f == [y \in R |-> y.amount]
           g == [y \in R \cup {x} |-> y.amount]
<1>1. /\ \A y \in S : f[y] \in Nat /\ f[y] \in Int /\ g[y] = f[y]
      /\ g[x] = x.amount /\ \A y \in S \cup {x} : g[y] \in Int
  OBVIOUS
<1>2. IsFiniteSet(S) /\ IsFiniteSet(S \cup {x})
  BY FS_Subset, FS_AddElement
<1>3. (S \cup {x}) \ {x} = S
  OBVIOUS
<1> SUFFICES /\ SumFunctionOnSet(f, S) \in Nat
             /\ SumFunctionOnSet(g, S) = SumFunctionOnSet(f, S)
             /\ SumFunctionOnSet(g, S \cup {x}) = SumFunctionOnSet(f, S) + x.amount
  OBVIOUS
<1> HIDE DEF f, g
<1>4. SumFunctionOnSet(f, S) \in Nat /\ SumFunctionOnSet(g, S) = SumFunctionOnSet(f, S)
  BY <1>1, <1>2, SumNat, SumSame
<1>5. SumFunctionOnSet(g, S \cup {x}) = g[x] + SumFunctionOnSet(g, (S \cup {x}) \ {x})
  BY <1>1, <1>2, SumRemove
<1> QED
  BY <1>1, <1>3, <1>4, <1>5

\* A receipt more, towards the custodian or away from it.
LEMMA ReceiptAdded ==
  ASSUME CommandsOK, NEW x, x \notin Receipts, x.amount \in Nat,
         Receipts' = Receipts \cup {x}
  PROVE  /\ Received \in Nat /\ PassedOn \in Nat
         /\ Received' = Received + (IF x.destination = Custodian THEN x.amount ELSE 0)
         /\ PassedOn' = PassedOn + (IF x.source = Custodian THEN x.amount ELSE 0)
<1> DEFINE to == {y \in Receipts : y.destination = Custodian}
           from == {y \in Receipts : y.source = Custodian}
           after == [y \in Receipts \cup {x} |-> y.amount]
<1>1. IsFiniteSet(Receipts) /\ \A y \in Receipts : y.amount \in Nat
  BY ReceiptsAre
<1>2. ASSUME NEW S \in SUBSET Receipts
      PROVE  /\ Moved(S) \in Nat /\ SumFunctionOnSet(after, S) = Moved(S)
             /\ SumFunctionOnSet(after, S \cup {x}) = Moved(S) + x.amount
  BY <1>1, SumGrows DEF Moved
<1>3. Received' =
        SumFunctionOnSet(after, {y \in Receipts \cup {x} : y.destination = Custodian})
  BY DEF Moved, Received
<1>4. PassedOn' = SumFunctionOnSet(after, {y \in Receipts \cup {x} : y.source = Custodian})
  BY DEF Moved, PassedOn
<1>5. {y \in Receipts \cup {x} : y.destination = Custodian} =
        IF x.destination = Custodian THEN to \cup {x} ELSE to
  OBVIOUS
<1>6. {y \in Receipts \cup {x} : y.source = Custodian} =
        IF x.source = Custodian THEN from \cup {x} ELSE from
  OBVIOUS
<1>7. to \in SUBSET Receipts /\ from \in SUBSET Receipts
  OBVIOUS
<1>8. Received = Moved(to) /\ PassedOn = Moved(from)
  BY DEF Received, PassedOn
<1> HIDE DEF to, from, after
<1>9. /\ Received \in Nat /\ SumFunctionOnSet(after, to) = Received
       /\ SumFunctionOnSet(after, to \cup {x}) = Received + x.amount
  BY <1>2, <1>7, <1>8
<1>10. /\ PassedOn \in Nat /\ SumFunctionOnSet(after, from) = PassedOn
       /\ SumFunctionOnSet(after, from \cup {x}) = PassedOn + x.amount
  BY <1>2, <1>7, <1>8
<1>11. Received' = Received + (IF x.destination = Custodian THEN x.amount ELSE 0)
  <2>1. CASE x.destination = Custodian
    BY <1>3, <1>5, <1>9, <2>1 DEF after
  <2>2. CASE x.destination # Custodian
    <3>1. Received' = Received
      BY <1>3, <1>5, <1>9, <2>2 DEF after
    <3> QED
      BY <1>9, <2>2, <3>1
  <2> QED
    BY <2>1, <2>2
<1>12. PassedOn' = PassedOn + (IF x.source = Custodian THEN x.amount ELSE 0)
  <2>1. CASE x.source = Custodian
    BY <1>4, <1>6, <1>10, <2>1 DEF after
  <2>2. CASE x.source # Custodian
    <3>1. PassedOn' = PassedOn
      BY <1>4, <1>6, <1>10, <2>2 DEF after
    <3> QED
      BY <1>10, <2>2, <3>1
  <2> QED
    BY <2>1, <2>2
<1> QED
  BY <1>9, <1>10, <1>11, <1>12

\* The receipt of an action is one more.
LEMMA ActionReceipt ==
  ASSUME CommandsOK, NEW r \in ActionRequest, r \notin consumedCommandIds,
         NEW parent \in DOMAIN actions \cup {None}, commit(r, parent)
  PROVE  LET x == deriveActionReceipt(r)
         IN  x \notin Receipts /\ x.amount \in Nat /\ Receipts' = Receipts \cup {x}
<1> DEFINE x == deriveActionReceipt(r)
<1>1. x.commandId = r /\ x.amount \in Nat
  BY DEF deriveActionReceipt, ActionRequest
<1>2. x \notin Receipts
  BY <1>1, ReceiptsAre
<1>3. /\ DOMAIN actions' = DOMAIN actions \cup {r}
      /\ consumedCommandIds' \ DOMAIN actions' = consumedCommandIds \ DOMAIN actions
  BY ActionAdds
<1>4. Receipts' = Receipts \cup {x}
  BY <1>3 DEF Receipts
<1> QED
  BY <1>1, <1>2, <1>4

\* So is the receipt of a reversal.
LEMMA ReversalReceipt ==
  ASSUME CommandsOK, NEW v \in Reversal, v \notin consumedCommandIds,
         v.action \in DOMAIN actions, Consumed(v), actions' = actions
  PROVE  LET x == deriveReversalReceipt(v)
         IN  x \notin Receipts /\ x.amount \in Nat /\ Receipts' = Receipts \cup {x}
<1> DEFINE x == deriveReversalReceipt(v)
<1>1. x.commandId = v /\ x.amount \in Nat
  BY DEF deriveReversalReceipt, ActionRequest, Reversal
<1>2. x \notin Receipts
  BY <1>1, ReceiptsAre
<1>3. consumedCommandIds' \ DOMAIN actions' = (consumedCommandIds \ DOMAIN actions) \cup {v}
  BY ReversalTakes
<1>4. Receipts' = Receipts \cup {x}
  BY <1>3 DEF Receipts
<1> QED
  BY <1>1, <1>2, <1>4

\* What is held is finitely many amounts.
LEMMA HeldIs ==
  ASSUME TypeOK, \A c \in CaseIds : CustodyOf(c)
  PROVE  /\ IsFiniteSet(InCustody) /\ HeldNow \in Nat
         /\ \A c \in InCustody : custody[c] \in Held /\ custody[c].amount \in Nat
<1>1. \A c \in InCustody : custody[c] \in Held /\ custody[c].amount \in Nat
  BY DEF InCustody, TypeOK, Held
<1>2. IsFiniteSet(InCustody)
  <2> DEFINE S == {p \in DOMAIN actions : p.caseId \in InCustody}
             f == [p \in S |-> p.caseId]
  <2>1. IsFiniteSet(S)
    BY FS_Subset DEF TypeOK, CommandsOK
  <2>2. \A c \in InCustody : custody[c].action \in S /\ f[custody[c].action] = c
    BY DEF InCustody, CustodyOf
  <2>3. f \in Surjection(S, InCustody)
    <3>1. f \in [S -> InCustody]
      OBVIOUS
    <3> HIDE DEF f, S
    <3> QED
      BY <2>2, <3>1 DEF Surjection
  <2> HIDE DEF f, S
  <2> QED
    BY <2>1, <2>3, FS_Surjection
<1>3. HeldNow \in Nat
  <2> DEFINE g == [c \in InCustody |-> custody[c].amount]
  <2>1. \A c \in InCustody : g[c] \in Nat
    BY <1>1
  <2> HIDE DEF g
  <2>2. SumFunctionOnSet(g, InCustody) \in Nat
    BY <1>2, <2>1, SumNat
  <2> QED
    BY <2>2 DEF g, HeldNow
<1> QED
  BY <1>1, <1>2, <1>3

\* What is held is more by what is seized.
LEMMA HeldMore ==
  ASSUME TypeOK, \A c \in CaseIds : CustodyOf(c), NEW c \in CaseIds, custody[c] = None,
         NEW h \in Held, h # None, custody' = [custody EXCEPT ![c] = h]
  PROVE  HeldNow' = HeldNow + h.amount
<1> DEFINE f == [d \in InCustody |-> custody[d].amount]
           S == InCustody \cup {c}
           g == [d \in S |-> custody'[d].amount]
<1>1. /\ IsFiniteSet(InCustody) /\ \A d \in InCustody : f[d] \in Int
      /\ HeldNow = SumFunctionOnSet(f, InCustody) /\ c \notin InCustody
  BY HeldIs DEF HeldNow, InCustody
<1>2. /\ custody'[c] = h /\ \A d \in InCustody : custody'[d] = custody[d]
      /\ InCustody' = S
  BY DEF TypeOK, InCustody
<1>3. HeldNow' = SumFunctionOnSet(g, S)
  BY <1>2 DEF HeldNow
<1>4. /\ h.amount \in Nat /\ g[c] = h.amount
      /\ \A d \in InCustody : g[d] = f[d]
  BY <1>2 DEF Held
<1>5. c \in S /\ S \ {c} = InCustody
  BY <1>1
<1> HIDE DEF f, g, S
<1>6. IsFiniteSet(S) /\ \A d \in S : g[d] \in Int
  BY <1>1, <1>4, FS_AddElement DEF S
<1>7. SumFunctionOnSet(g, S) = g[c] + SumFunctionOnSet(g, InCustody)
  BY <1>5, <1>6, SumRemove
<1>8. /\ SumFunctionOnSet(g, InCustody) = SumFunctionOnSet(f, InCustody)
      /\ SumFunctionOnSet(f, InCustody) \in Int
  BY <1>1, <1>4, SumSame, SumType
<1> QED
  BY <1>1, <1>3, <1>4, <1>7, <1>8

\* What is held is less by the amount of a case that is left.
LEMMA HeldLess ==
  ASSUME TypeOK, \A c \in CaseIds : CustodyOf(c), NEW c \in CaseIds, custody[c] # None,
         custody' = [custody EXCEPT ![c] = None]
  PROVE  HeldNow' \in Nat /\ HeldNow = HeldNow' + custody[c].amount
<1> DEFINE f == [d \in InCustody |-> custody[d].amount]
           S == InCustody \ {c}
           g == [d \in S |-> custody'[d].amount]
<1>1. /\ IsFiniteSet(InCustody) /\ \A d \in InCustody : f[d] \in Nat
      /\ HeldNow = SumFunctionOnSet(f, InCustody) /\ c \in InCustody
      /\ f[c] = custody[c].amount
  BY HeldIs DEF HeldNow, InCustody
<1>2. InCustody' = S /\ \A d \in S : custody'[d] = custody[d]
  BY DEF TypeOK, InCustody
<1>3. HeldNow' = SumFunctionOnSet(g, S)
  BY <1>2 DEF HeldNow
<1>4. \A d \in S : g[d] = f[d] /\ f[d] \in Nat /\ f[d] \in Int
  BY <1>1, <1>2
<1>5. IsFiniteSet(S)
  BY <1>1, FS_Subset
<1> HIDE DEF f, g
<1>6. SumFunctionOnSet(f, InCustody) = f[c] + SumFunctionOnSet(f, S)
  BY <1>1, SumRemove
<1> HIDE DEF S
<1>7. SumFunctionOnSet(g, S) = SumFunctionOnSet(f, S) /\ SumFunctionOnSet(f, S) \in Nat
  BY <1>4, <1>5, SumSame, SumNat
<1> QED
  BY <1>1, <1>3, <1>6, <1>7
-----------------------------------------------------------------------------
(* What each effect keeps *)

\* The case a command is about.
LEMMA CaseSet ==
  ASSUME TypeOK, NEW c \in CaseIds, NEW phase \in {"OPEN", "TERMINAL"},
         NEW family \in Overlay \cup {"CUSTODY", "DISPOSITION"},
         NEW head \in ActionRequest \cup {None}, SetCase(c, phase, family, head)
  PROVE  /\ cases' \in [CaseIds -> Case]
         /\ cases'[c].phase = phase /\ cases'[c].family = family
         /\ \A d \in CaseIds : d # c => cases'[d] = cases[d]
<1>1. cases[c] \in Case /\ cases[c].generation + 1 \in Nat
  BY DEF TypeOK, Case
<1>2. [phase |-> phase, family |-> family, headActionId |-> head,
       generation |-> cases[c].generation + 1] \in Case
  BY <1>1 DEF Case
<1>3. cases' = [cases EXCEPT ![c] = [phase |-> phase, family |-> family,
                    headActionId |-> head, generation |-> cases[c].generation + 1]]
  BY DEF SetCase
<1> QED
  BY <1>2, <1>3 DEF TypeOK

\* The custody of the other cases, when that of one is set or left.
LEMMA CustodyKept ==
  ASSUME NEW d \in CaseIds, CustodyOf(d), custody'[d] = custody[d],
         /\ cases'[d] = cases[d]
         \/ /\ cases'[d].phase = "OPEN" /\ cases'[d].family = "CUSTODY"
            /\ custody[d] # None
         \/ /\ ~ (cases'[d].phase = "OPEN" /\ cases'[d].family = "CUSTODY")
            /\ custody[d] = None,
         DOMAIN actions \subseteq DOMAIN actions'
  PROVE  CustodyOf(d)'
BY DEF CustodyOf

\* Custody is balanced after a receipt that is not of it.
LEMMA NotOfCustody ==
  ASSUME CommandsOK, CustodyBalanced, NEW x, x \notin Receipts, x.amount \in Nat,
         Receipts' = Receipts \cup {x}, custody' = custody,
         x.destination # Custodian, x.source # Custodian
  PROVE  CustodyBalanced'
<1>1. /\ Received' = Received + 0 /\ PassedOn' = PassedOn + 0
      /\ Received \in Nat /\ PassedOn \in Nat
  BY ReceiptAdded
<1>2. HeldNow' = HeldNow
  BY DEF HeldNow, InCustody
<1> QED
  BY <1>1, <1>2 DEF CustodyBalanced

\* The overlays of a subject that the command is not about.
LEMMA FreezesKept ==
  ASSUME NEW s \in Subjects, FreezesNest(s),
         overlayHeads'[<<"FREEZE", s>>] = overlayHeads[<<"FREEZE", s>>],
         frozenTarget'[s] = frozenTarget[s],
         InForce("FREEZE", s)' = InForce("FREEZE", s),
         \A p \in DOMAIN actions : actions'[p] = actions[p]
  PROVE  FreezesNest(s)'
<1>1. \A p \in InForce("FREEZE", s) : Prior(p)' = Prior(p) /\ actions'[p] = actions[p]
  BY DEF InForce, Prior
<1> QED
  BY <1>1 DEF FreezesNest

\* The restriction of a subject that the command is not about.
LEMMA RestrictionKept ==
  ASSUME NEW s \in Subjects, RestrictedOnce(s),
         overlayHeads'[<<"RESTRICT", s>>] = overlayHeads[<<"RESTRICT", s>>],
         s \in restricted' <=> s \in restricted,
         InForce("RESTRICT", s)' = InForce("RESTRICT", s)
  PROVE  RestrictedOnce(s)'
BY DEF RestrictedOnce

\* An accepted action, whatever it does, and the case it is in.
LEMMA ActionKeeps ==
  ASSUME ReproductionInv, NEW r, Accepted(r),
         NEW parent \in DOMAIN actions \cup {None}, commit(r, parent),
         NEW phase \in {"OPEN", "TERMINAL"},
         NEW family \in Overlay \cup {"CUSTODY", "DISPOSITION"},
         r.action \in Overlay => family = r.action,
         NEW head \in ActionRequest \cup {None}, SetCase(r.caseId, phase, family, head)
  PROVE  /\ CommandsOK' /\ cases' \in [CaseIds -> Case] /\ OverlayCases'
         /\ cases'[r.caseId].phase = phase /\ cases'[r.caseId].family = family
         /\ \A c \in CaseIds :
              c # r.caseId /\ custody'[c] = custody[c] => CustodyOf(c)'
<1>1. /\ r \in ActionRequest /\ r \notin consumedCommandIds /\ r.caseId \in CaseIds
      /\ r.action \in Overlay \cup Disposition \cup {"SEIZE"}
      /\ cases[r.caseId].phase # "TERMINAL" /\ ~ IsOpen(r, Overlay \ {r.action})
  BY DEF Accepted, ActionRequest, CaseAnswerOf
<1>2. /\ CommandsOK' /\ DOMAIN actions' = DOMAIN actions \cup {r}
  BY <1>1, ActionAdds DEF ReproductionInv, TypeOK
<1>3. /\ cases' \in [CaseIds -> Case]
      /\ cases'[r.caseId].phase = phase /\ cases'[r.caseId].family = family
      /\ \A d \in CaseIds : d # r.caseId => cases'[d] = cases[d]
  BY <1>1, CaseSet DEF ReproductionInv
<1>4. OverlayCases'
  <2>1. ASSUME NEW p \in DOMAIN actions, p.action \in Overlay
        PROVE  cases'[p.caseId].phase # "NONE" /\ cases'[p.caseId].family = p.action
    <3>1. p.caseId \in CaseIds /\ cases[p.caseId].phase # "NONE"
          /\ cases[p.caseId].family = p.action
      BY <2>1 DEF ReproductionInv, TypeOK, CommandsOK, OverlayCases, ActionRequest
    <3>2. CASE p.caseId # r.caseId
      BY <1>3, <3>1, <3>2
    <3>3. CASE p.caseId = r.caseId
      <4>1. cases[r.caseId].phase = "OPEN"
        BY <1>1, <3>1, <3>3 DEF ReproductionInv, TypeOK, Case
      <4>2. p.action = r.action
        BY <1>1, <2>1, <3>1, <3>3, <4>1 DEF IsOpen
      <4> QED
        BY <1>3, <2>1, <3>3, <4>2
    <3> QED
      BY <3>2, <3>3
  <2>2. r.action \in Overlay =>
          cases'[r.caseId].phase # "NONE" /\ cases'[r.caseId].family = r.action
    BY <1>3
  <2> QED
    BY <1>2, <2>1, <2>2 DEF OverlayCases
<1>5. \A c \in CaseIds : c # r.caseId /\ custody'[c] = custody[c] => CustodyOf(c)'
  BY <1>2, <1>3, CustodyKept DEF ReproductionInv
<1> QED
  BY <1>2, <1>3, <1>4, <1>5

\* An accepted reversal leaves its case to the family it is of.
LEMMA ReversalKeeps ==
  ASSUME ReproductionInv, NEW v, AcceptedReversal(v), Consumed(v), actions' = actions,
         NEW phase \in {"OPEN", "TERMINAL"},
         NEW family \in Overlay \cup {"CUSTODY"},
         IF v.action.action = "SEIZE" THEN family = "CUSTODY" ELSE family = v.action.action,
         NEW head \in ActionRequest \cup {None},
         SetCase(v.action.caseId, phase, family, head)
  PROVE  /\ CommandsOK' /\ cases' \in [CaseIds -> Case] /\ OverlayCases'
         /\ v.action.caseId \in CaseIds
         /\ cases'[v.action.caseId].phase = phase /\ cases'[v.action.caseId].family = family
         /\ \A c \in CaseIds :
              c # v.action.caseId /\ custody'[c] = custody[c] => CustodyOf(c)'
<1> DEFINE q == v.action
<1>1. /\ v \in Reversal /\ v \notin consumedCommandIds /\ q \in DOMAIN actions
      /\ q \in ActionRequest /\ q.caseId \in CaseIds
  BY DEF AcceptedReversal, Reversal, ActionRequest
<1>2. CommandsOK'
  BY <1>1, ReversalTakes DEF ReproductionInv, TypeOK
<1>3. /\ cases' \in [CaseIds -> Case]
      /\ cases'[q.caseId].phase = phase /\ cases'[q.caseId].family = family
      /\ \A d \in CaseIds : d # q.caseId => cases'[d] = cases[d]
  BY <1>1, CaseSet DEF ReproductionInv
<1>4. cases[q.caseId].family = family
  <2>1. CASE q.action = "SEIZE"
    BY <1>1, <2>1 DEF AcceptedReversal, ReproductionInv, CustodyOf
  <2>2. CASE q.action # "SEIZE"
    <3>1. q.action \in Overlay
      BY <1>1, <2>2 DEF AcceptedReversal, Reversal, Reverses, Overlay
    <3> QED
      BY <1>1, <2>2, <3>1 DEF ReproductionInv, OverlayCases
  <2> QED
    BY <2>1, <2>2
<1>5. OverlayCases'
  <2>1. ASSUME NEW p \in DOMAIN actions, p.action \in Overlay
        PROVE  cases'[p.caseId].phase # "NONE" /\ cases'[p.caseId].family = p.action
    <3>1. p.caseId \in CaseIds /\ cases[p.caseId].phase # "NONE"
          /\ cases[p.caseId].family = p.action
      BY <2>1 DEF ReproductionInv, TypeOK, CommandsOK, OverlayCases, ActionRequest
    <3>2. CASE p.caseId # q.caseId
      BY <1>3, <3>1, <3>2
    <3>3. CASE p.caseId = q.caseId
      BY <1>3, <1>4, <3>1, <3>3
    <3> QED
      BY <3>2, <3>3
  <2> QED
    BY <2>1 DEF OverlayCases
<1>6. \A c \in CaseIds : c # q.caseId /\ custody'[c] = custody[c] => CustodyOf(c)'
  BY <1>3, CustodyKept DEF ReproductionInv
<1> QED
  BY <1>1, <1>2, <1>3, <1>5, <1>6
-----------------------------------------------------------------------------
(* The effects *)

\* A freeze is on top of the ones in force on its subject.
LEMMA FreezeKeeps ==
  ASSUME ReproductionInv, NEW r, Accepted(r), Freeze(r) PROVE ReproductionInv'
<1> DEFINE s == r.subject
           head == overlayHeads[<<"FREEZE", s>>]
           parent == IF head = None THEN None ELSE head.action
           new == [action |-> r, caseId |-> r.caseId]
<1>1. /\ r \in ActionRequest /\ r \notin consumedCommandIds /\ r.caseId \in CaseIds
      /\ s \in Subjects /\ r.action = "FREEZE" /\ r.amount \in Nat
      /\ ~ (r.amount <= frozenTarget[s])
      /\ r.source = s /\ r.destination = Zero
      /\ ~ IsOpen(r, {"CUSTODY"})
  BY DEF Accepted, ActionRequest, Freeze, ShapeHolds, OverlayShape, Overlay, CaseAnswerOf
<1>2. parent \in DOMAIN actions \cup {None} /\ commit(r, parent)
  <2>1. head # None => head.action \in DOMAIN actions
    BY <1>1 DEF ReproductionInv, FreezesNest, InForce
  <2> QED
    BY <2>1 DEF Freeze
<1>3. SetCase(r.caseId, "OPEN", "FREEZE", r)
  BY DEF Freeze
<1>4. /\ CommandsOK' /\ cases' \in [CaseIds -> Case] /\ OverlayCases'
      /\ cases'[r.caseId].family = "FREEZE"
      /\ \A c \in CaseIds : c # r.caseId => CustodyOf(c)'
  <2>1. custody' = custody
    BY DEF Freeze
  <2> HIDE DEF parent
  <2> QED
    BY <1>1, <1>2, <1>3, <2>1, ActionKeeps DEF Overlay
<1>5. CustodyOf(r.caseId)'
  <2>1. custody[r.caseId] = None
    BY <1>1 DEF ReproductionInv, CustodyOf, IsOpen
  <2> QED
    BY <1>4, <2>1 DEF CustodyOf, Freeze
<1>6. /\ new \in OverlayHead /\ new # None
      /\ overlayHeads' = [overlayHeads EXCEPT ![<<"FREEZE", s>>] = new]
      /\ overlayHeads'[<<"FREEZE", s>>] = new
      /\ \A t \in Subjects :
           overlayHeads'[<<"RESTRICT", t>>] = overlayHeads[<<"RESTRICT", t>>]
      /\ \A t \in Subjects :
           t # s => overlayHeads'[<<"FREEZE", t>>] = overlayHeads[<<"FREEZE", t>>]
  BY <1>1, ReproductionAssumption
     DEF Freeze, OverlayHead, ReproductionInv, TypeOK, Overlay, ReproductionAssumption
<1>7. /\ frozenTarget' = [frozenTarget EXCEPT ![s] = r.amount]
      /\ frozenTarget'[s] = r.amount /\ frozenTarget[s] \in Nat
      /\ \A t \in Subjects : t # s => frozenTarget'[t] = frozenTarget[t]
  BY <1>1 DEF Freeze, ReproductionInv, TypeOK
<1>8. TypeOK'
  <2>1. overlayHeads' \in [Overlay \X Subjects -> OverlayHead \cup {None}]
    BY <1>1, <1>6 DEF ReproductionInv, TypeOK, Overlay
  <2>2. frozenTarget' \in [Subjects -> Nat]
    BY <1>1, <1>7 DEF ReproductionInv, TypeOK
  <2> QED
    BY <1>4, <2>1, <2>2 DEF Freeze, ReproductionInv, TypeOK
<1>9. /\ DOMAIN actions' = DOMAIN actions \cup {r} /\ r \notin DOMAIN actions
      /\ actions'[r] = parent
      /\ \A p \in DOMAIN actions : actions'[p] = actions[p]
      /\ \A a, t : InForce(a, t)' = IF r.action = a /\ s = t
                                    THEN InForce(a, t) \cup {r} ELSE InForce(a, t)
  <2> HIDE DEF parent
  <2> QED
    BY <1>1, <1>2, ActionAdds DEF ReproductionInv, TypeOK
<1>10. FreezesNest(s)'
  <2> DEFINE live == InForce("FREEZE", s)
  <2>1. live' = live \cup {r} /\ live \subseteq DOMAIN actions /\ r \notin live
    BY <1>1, <1>9 DEF InForce
  <2>2. /\ head = None => live = {} /\ frozenTarget[s] = 0
        /\ head # None => head.action \in live /\ frozenTarget[s] = head.action.amount
        /\ \A p \in live :
             /\ p.amount <= frozenTarget[s]
             /\ Prior(p).target < p.amount
             /\ actions[p] # None => actions[p] \in live
        /\ \A p, q \in live :
             p = q \/ p.amount <= Prior(q).target \/ q.amount <= Prior(p).target
    BY <1>1 DEF ReproductionInv, FreezesNest
  <2>3. \A p \in live : p.amount \in Nat /\ actions'[p] = actions[p] /\ Prior(p)' = Prior(p)
    BY <1>9, <2>1 DEF Prior, ReproductionInv, TypeOK, CommandsOK, ActionRequest
  <2>4. Prior(r)'.target = frozenTarget[s]
    <3>1. head # None => head.action # None
      BY <2>1, <2>2, ReproductionAssumption
         DEF ReproductionInv, TypeOK, CommandsOK, ReproductionAssumption
    <3> QED
      BY <1>9, <2>2, <3>1 DEF Prior
  <2>5. parent # None => parent \in live
    BY <2>2
  <2> HIDE DEF live
  <2>6. \A p \in live' :
          /\ p.amount <= frozenTarget'[s]
          /\ Prior(p)'.target < p.amount
          /\ actions'[p] # None => actions'[p] \in live'
    BY <1>1, <1>7, <1>9, <2>1, <2>2, <2>3, <2>4, <2>5
  <2>7. \A p, q \in live' :
          p = q \/ p.amount <= Prior(q)'.target \/ q.amount <= Prior(p)'.target
    BY <2>1, <2>2, <2>3, <2>4
  <2> QED
    BY <1>6, <1>7, <2>1, <2>6, <2>7 DEF FreezesNest, live
<1>11. \A t \in Subjects : FreezesNest(t)' /\ RestrictedOnce(t)'
  <2>1. \A t \in Subjects : t # s => FreezesNest(t)'
    BY <1>6, <1>7, <1>9, FreezesKept DEF ReproductionInv
  <2>2. \A t \in Subjects : RestrictedOnce(t)'
    BY <1>1, <1>6, <1>9, RestrictionKept DEF ReproductionInv, Freeze
  <2> QED
    BY <1>10, <2>1, <2>2
<1>12. CustodyBalanced'
  <2> DEFINE x == deriveActionReceipt(r)
  <2>1. x \notin Receipts /\ x.amount \in Nat /\ Receipts' = Receipts \cup {x}
    <3> HIDE DEF parent
    <3> QED
      BY <1>1, <1>2, ActionReceipt DEF ReproductionInv, TypeOK
  <2>2. x.source # Custodian /\ x.destination # Custodian
    BY <1>1, ReproductionAssumption DEF deriveActionReceipt, ReproductionAssumption
  <2>3. custody' = custody
    BY DEF Freeze
  <2> HIDE DEF x
  <2> QED
    BY <2>1, <2>2, <2>3, NotOfCustody DEF ReproductionInv, TypeOK
<1> QED
  BY <1>4, <1>5, <1>8, <1>11, <1>12 DEF ReproductionInv

\* A restriction is the only one of its subject.
LEMMA RestrictKeeps ==
  ASSUME ReproductionInv, NEW r, Accepted(r), RestrictSubject(r) PROVE ReproductionInv'
<1> DEFINE s == r.subject
           new == [action |-> r, caseId |-> r.caseId]
<1>1. /\ r \in ActionRequest /\ r \notin consumedCommandIds /\ r.caseId \in CaseIds
      /\ s \in Subjects /\ r.action = "RESTRICT"
      /\ r.source = s /\ r.destination = Zero
      /\ ~ IsOpen(r, {"CUSTODY"}) /\ overlayHeads[<<"RESTRICT", s>>] = None
  BY DEF Accepted, ActionRequest, RestrictSubject, ShapeHolds, OverlayShape, Overlay,
         CaseAnswerOf
<1>2. commit(r, None) /\ SetCase(r.caseId, "OPEN", "RESTRICT", r)
  BY DEF RestrictSubject
<1>3. /\ CommandsOK' /\ cases' \in [CaseIds -> Case] /\ OverlayCases'
      /\ cases'[r.caseId].family = "RESTRICT"
      /\ \A c \in CaseIds : c # r.caseId => CustodyOf(c)'
  <2>1. custody' = custody
    BY DEF RestrictSubject
  <2> QED
    BY <1>1, <1>2, <2>1, ActionKeeps DEF Overlay
<1>4. CustodyOf(r.caseId)'
  <2>1. custody[r.caseId] = None
    BY <1>1 DEF ReproductionInv, CustodyOf, IsOpen
  <2> QED
    BY <1>3, <2>1 DEF CustodyOf, RestrictSubject
<1>5. /\ new \in OverlayHead /\ new # None
      /\ overlayHeads' = [overlayHeads EXCEPT ![<<"RESTRICT", s>>] = new]
      /\ overlayHeads'[<<"RESTRICT", s>>] = new
      /\ \A t \in Subjects : overlayHeads'[<<"FREEZE", t>>] = overlayHeads[<<"FREEZE", t>>]
      /\ \A t \in Subjects :
           t # s => overlayHeads'[<<"RESTRICT", t>>] = overlayHeads[<<"RESTRICT", t>>]
  BY <1>1, ReproductionAssumption
     DEF RestrictSubject, OverlayHead, ReproductionInv, TypeOK, Overlay,
         ReproductionAssumption
<1>6. TypeOK'
  <2>1. overlayHeads' \in [Overlay \X Subjects -> OverlayHead \cup {None}]
    BY <1>1, <1>5 DEF ReproductionInv, TypeOK, Overlay
  <2>2. restricted' \subseteq Subjects
    BY <1>1 DEF ReproductionInv, TypeOK, RestrictSubject
  <2> QED
    BY <1>3, <2>1, <2>2 DEF RestrictSubject, ReproductionInv, TypeOK
<1>7. /\ \A p \in DOMAIN actions : actions'[p] = actions[p]
      /\ \A a, t : InForce(a, t)' = IF r.action = a /\ s = t
                                    THEN InForce(a, t) \cup {r} ELSE InForce(a, t)
  BY <1>1, <1>2, ActionAdds DEF ReproductionInv, TypeOK
<1>8. RestrictedOnce(s)'
  <2>1. InForce("RESTRICT", s) = {}
    BY <1>1 DEF ReproductionInv, RestrictedOnce
  <2>2. InForce("RESTRICT", s)' = {r}
    BY <1>1, <1>7, <2>1
  <2> QED
    BY <1>5, <2>2 DEF RestrictedOnce, RestrictSubject
<1>9. \A t \in Subjects : FreezesNest(t)' /\ RestrictedOnce(t)'
  <2>1. \A t \in Subjects : t # s => RestrictedOnce(t)'
    BY <1>5, <1>7, RestrictionKept DEF ReproductionInv, RestrictSubject
  <2>2. \A t \in Subjects : FreezesNest(t)'
    BY <1>1, <1>5, <1>7, FreezesKept DEF ReproductionInv, RestrictSubject
  <2> QED
    BY <1>8, <2>1, <2>2
<1>10. CustodyBalanced'
  <2> DEFINE x == deriveActionReceipt(r)
  <2>1. x \notin Receipts /\ x.amount \in Nat /\ Receipts' = Receipts \cup {x}
    BY <1>1, <1>2, ActionReceipt DEF ReproductionInv, TypeOK
  <2>2. x.source # Custodian /\ x.destination # Custodian
    BY <1>1, ReproductionAssumption DEF deriveActionReceipt, ReproductionAssumption
  <2>3. custody' = custody
    BY DEF RestrictSubject
  <2> HIDE DEF x
  <2> QED
    BY <2>1, <2>2, <2>3, NotOfCustody DEF ReproductionInv, TypeOK
<1> QED
  BY <1>3, <1>4, <1>6, <1>9, <1>10 DEF ReproductionInv

\* What is about tokens leaves the overlays as they were.
LEMMA OverlaysApart ==
  ASSUME ReproductionInv, overlayHeads' = overlayHeads, frozenTarget' = frozenTarget,
         restricted' = restricted,
         \A a \in Overlay, s \in Subjects : InForce(a, s)' = InForce(a, s),
         \A p \in DOMAIN actions : actions'[p] = actions[p]
  PROVE  \A s \in Subjects : FreezesNest(s)' /\ RestrictedOnce(s)'
<1>1. "FREEZE" \in Overlay /\ "RESTRICT" \in Overlay
  BY DEF Overlay
<1>2. \A s \in Subjects : FreezesNest(s)'
  BY <1>1, FreezesKept DEF ReproductionInv
<1>3. \A s \in Subjects : RestrictedOnce(s)'
  BY <1>1, RestrictionKept DEF ReproductionInv
<1> QED
  BY <1>2, <1>3

\* What is seized is received, and held in a case that held nothing.
LEMMA SeizeKeeps ==
  ASSUME ReproductionInv, NEW r, Accepted(r), Seize(r) PROVE ReproductionInv'
<1> DEFINE h == [action |-> r, custodian |-> r.custodian, priorHolder |-> r.subject,
                 amount |-> r.amount]
           x == deriveActionReceipt(r)
<1>1. /\ r \in ActionRequest /\ r \notin consumedCommandIds /\ r.caseId \in CaseIds
      /\ r.subject \in Subjects /\ r.action = "SEIZE" /\ r.amount \in Nat
      /\ r.source = r.subject /\ r.custodian = Custodian
      /\ ~ IsOpen(r, {"CUSTODY"})
  BY DEF Accepted, ActionRequest, Seize, ShapeHolds, Overlay, CaseAnswerOf
<1>2. commit(r, None) /\ SetCase(r.caseId, "OPEN", "CUSTODY", r)
  BY DEF Seize
<1>3. /\ h \in Held /\ h # None /\ custody[r.caseId] = None
      /\ custody' = [custody EXCEPT ![r.caseId] = h]
      /\ custody' \in [CaseIds -> Held \cup {None}]
      /\ custody'[r.caseId] = h
      /\ \A c \in CaseIds : c # r.caseId => custody'[c] = custody[c]
  <2>1. h \in Held
    BY <1>1 DEF Held
  <2>2. h # None
    BY <1>1, ReproductionAssumption DEF ReproductionAssumption, Address
  <2>3. custody[r.caseId] = None
    BY <1>1 DEF ReproductionInv, CustodyOf, IsOpen
  <2> QED
    BY <1>1, <2>1, <2>2, <2>3 DEF Seize, ReproductionInv, TypeOK
<1>4. /\ CommandsOK' /\ cases' \in [CaseIds -> Case] /\ OverlayCases'
      /\ cases'[r.caseId].phase = "OPEN" /\ cases'[r.caseId].family = "CUSTODY"
      /\ \A c \in CaseIds : c # r.caseId => CustodyOf(c)'
  BY <1>1, <1>2, <1>3, ActionKeeps DEF Overlay
<1>5. /\ DOMAIN actions' = DOMAIN actions \cup {r}
      /\ \A p \in DOMAIN actions : actions'[p] = actions[p]
      /\ \A a \in Overlay, t \in Subjects : InForce(a, t)' = InForce(a, t)
  BY <1>1, <1>2, ActionAdds DEF ReproductionInv, TypeOK, Overlay
<1>6. CustodyOf(r.caseId)'
  BY <1>1, <1>3, <1>4, <1>5 DEF CustodyOf
<1>7. TypeOK'
  BY <1>3, <1>4 DEF ReproductionInv, TypeOK, Seize
<1>8. \A t \in Subjects : FreezesNest(t)' /\ RestrictedOnce(t)'
  BY <1>5, OverlaysApart DEF Seize
<1>9. CustodyBalanced'
  <2>1. x \notin Receipts /\ x.amount \in Nat /\ Receipts' = Receipts \cup {x}
    BY <1>1, <1>2, ActionReceipt DEF ReproductionInv, TypeOK
  <2>2. x.source # Custodian /\ x.destination = Custodian /\ x.amount = r.amount
    BY <1>1, ReproductionAssumption DEF deriveActionReceipt, ReproductionAssumption
  <2>3. HeldNow' = HeldNow + r.amount
    <3>1. h.amount = r.amount
      OBVIOUS
    <3> HIDE DEF h
    <3> QED
      BY <1>1, <1>3, <3>1, HeldMore DEF ReproductionInv
  <2>4. HeldNow \in Nat
    BY HeldIs DEF ReproductionInv
  <2> HIDE DEF x
  <2>5. /\ Received \in Nat /\ PassedOn \in Nat
        /\ Received' = Received + r.amount /\ PassedOn' = PassedOn + 0
    BY <2>1, <2>2, ReceiptAdded DEF ReproductionInv, TypeOK
  <2> QED
    BY <1>1, <2>3, <2>4, <2>5 DEF ReproductionInv, CustodyBalanced
<1> QED
  BY <1>4, <1>6, <1>7, <1>8, <1>9 DEF ReproductionInv

\* What leaves custody to end a case leaves nothing held in it.
LEMMA CustodyLeft ==
  ASSUME ReproductionInv, NEW c \in CaseIds, custody[c] # None, CommandsOK',
         custody' = [custody EXCEPT ![c] = None],
         NEW x, x \notin Receipts, x.amount = custody[c].amount,
         Receipts' = Receipts \cup {x}, x.source = Custodian, x.destination # Custodian,
         cases'[c].phase = "TERMINAL"
  PROVE  /\ CustodyBalanced' /\ CustodyOf(c)'
         /\ custody' \in [CaseIds -> Held \cup {None}]
         /\ \A d \in CaseIds : d # c => custody'[d] = custody[d]
<1>1. custody' \in [CaseIds -> Held \cup {None}] /\ custody'[c] = None
      /\ \A d \in CaseIds : d # c => custody'[d] = custody[d]
  BY DEF ReproductionInv, TypeOK
<1>2. CustodyOf(c)'
  BY <1>1 DEF CustodyOf
<1>3. HeldNow' \in Nat /\ HeldNow = HeldNow' + x.amount /\ x.amount \in Nat
  <2>1. x.amount \in Nat
    BY DEF ReproductionInv, TypeOK, Held
  <2> QED
    BY <2>1, HeldLess DEF ReproductionInv
<1>4. /\ Received \in Nat /\ PassedOn \in Nat
      /\ Received' = Received + 0 /\ PassedOn' = PassedOn + x.amount
  BY <1>3, ReceiptAdded DEF ReproductionInv, TypeOK
<1>5. CustodyBalanced'
  BY <1>3, <1>4 DEF ReproductionInv, CustodyBalanced
<1> QED
  BY <1>1, <1>2, <1>5

\* Tokens disposed of from custody, ...
LEMMA DisposeCustodyKeeps ==
  ASSUME ReproductionInv, NEW r, Accepted(r), DisposeCustody(r) PROVE ReproductionInv'
<1> DEFINE x == deriveActionReceipt(r)
<1>1. /\ r \in ActionRequest /\ r \notin consumedCommandIds /\ r.caseId \in CaseIds
      /\ r.action \in Disposition /\ r.action \notin Overlay /\ r.action # "SEIZE"
      /\ r.destination # Custodian /\ MatchesCustody(r)
  BY DEF Accepted, ActionRequest, DisposeCustody, Overlay, Disposition, CaseAnswerOf
<1>2. commit(r, None) /\ SetCase(r.caseId, "TERMINAL", "CUSTODY", None)
  BY DEF DisposeCustody
<1>3. /\ CommandsOK' /\ cases' \in [CaseIds -> Case] /\ OverlayCases'
      /\ cases'[r.caseId].phase = "TERMINAL"
      /\ \A c \in CaseIds : c # r.caseId /\ custody'[c] = custody[c] => CustodyOf(c)'
  BY <1>1, <1>2, ActionKeeps
<1>4. /\ \A p \in DOMAIN actions : actions'[p] = actions[p]
      /\ \A a \in Overlay, t \in Subjects : InForce(a, t)' = InForce(a, t)
  BY <1>1, <1>2, ActionAdds DEF ReproductionInv, TypeOK
<1>5. /\ x \notin Receipts /\ Receipts' = Receipts \cup {x}
      /\ x.source = r.source /\ x.destination = r.destination /\ x.amount = r.amount
  <2>1. x.source = r.source /\ x.destination = r.destination /\ x.amount = r.amount
    BY <1>1 DEF deriveActionReceipt
  <2> QED
    BY <1>1, <1>2, <2>1, ActionReceipt DEF ReproductionInv, TypeOK
<1>6. /\ custody[r.caseId] # None /\ custody[r.caseId].amount = r.amount
      /\ r.source = Custodian /\ custody' = [custody EXCEPT ![r.caseId] = None]
  BY <1>1 DEF MatchesCustody, DisposeCustody, ReproductionInv, TypeOK, Held
<1> HIDE DEF x
<1>7. /\ CustodyBalanced' /\ CustodyOf(r.caseId)'
      /\ custody' \in [CaseIds -> Held \cup {None}]
      /\ \A d \in CaseIds : d # r.caseId => custody'[d] = custody[d]
  BY <1>1, <1>3, <1>5, <1>6, CustodyLeft
<1>8. TypeOK'
  BY <1>3, <1>7 DEF ReproductionInv, TypeOK, DisposeCustody
<1>9. \A t \in Subjects : FreezesNest(t)' /\ RestrictedOnce(t)'
  BY <1>4, OverlaysApart DEF DisposeCustody
<1> QED
  BY <1>3, <1>7, <1>8, <1>9 DEF ReproductionInv

\* ... and those that their holder had.
LEMMA DisposeDirectKeeps ==
  ASSUME ReproductionInv, NEW r, Accepted(r), DisposeDirect(r) PROVE ReproductionInv'
<1> DEFINE x == deriveActionReceipt(r)
<1>1. /\ r \in ActionRequest /\ r \notin consumedCommandIds /\ r.caseId \in CaseIds
      /\ r.action \in Disposition /\ r.action \notin Overlay /\ r.action # "SEIZE"
      /\ r.destination # Custodian /\ r.source # Custodian
      /\ cases[r.caseId].phase = "NONE"
  <2>1. r.source = r.subject /\ r.subject \in Subjects
    BY DEF Accepted, ActionRequest, DisposeDirect, CaseAnswerOf
  <2> QED
    BY <2>1, ReproductionAssumption
       DEF Accepted, ActionRequest, DisposeDirect, Overlay, Disposition, CaseAnswerOf,
           ReproductionAssumption
<1>2. commit(r, None) /\ SetCase(r.caseId, "TERMINAL", "DISPOSITION", None)
      /\ custody' = custody
  BY DEF DisposeDirect
<1>3. /\ CommandsOK' /\ cases' \in [CaseIds -> Case] /\ OverlayCases'
      /\ cases'[r.caseId].phase = "TERMINAL"
      /\ \A c \in CaseIds : c # r.caseId => CustodyOf(c)'
  BY <1>1, <1>2, ActionKeeps
<1>4. CustodyOf(r.caseId)'
  BY <1>1, <1>2, <1>3 DEF CustodyOf, ReproductionInv
<1>5. /\ \A p \in DOMAIN actions : actions'[p] = actions[p]
      /\ \A a \in Overlay, t \in Subjects : InForce(a, t)' = InForce(a, t)
  <2>1. CommandsOK /\ commit(r, None) /\ \A a \in Overlay : a # r.action
    BY <1>1, <1>2 DEF ReproductionInv, TypeOK
  <2> HIDE DEF x
  <2> QED
    BY <1>1, <2>1, ActionAdds
<1>6. /\ x \notin Receipts /\ x.amount \in Nat /\ Receipts' = Receipts \cup {x}
      /\ x.source = r.source /\ x.destination = r.destination
  <2>1. x.source = r.source /\ x.destination = r.destination
    BY <1>1 DEF deriveActionReceipt
  <2> QED
    BY <1>1, <1>2, <2>1, ActionReceipt DEF ReproductionInv, TypeOK
<1> HIDE DEF x
<1>7. CustodyBalanced'
  BY <1>1, <1>2, <1>6, NotOfCustody DEF ReproductionInv, TypeOK
<1>8. TypeOK'
  BY <1>3 DEF ReproductionInv, TypeOK, DisposeDirect
<1>9. \A t \in Subjects : FreezesNest(t)' /\ RestrictedOnce(t)'
  BY <1>5, OverlaysApart DEF DisposeDirect
<1> QED
  BY <1>3, <1>4, <1>7, <1>8, <1>9 DEF ReproductionInv

\* What an unfreeze goes back to is the highest of the freezes that stay.
LEMMA UnfreezeKeeps ==
  ASSUME ReproductionInv, NEW v, AcceptedReversal(v), Unfreeze(v) PROVE ReproductionInv'
<1> DEFINE q == v.action
           s == q.subject
           parent == actions[q]
           prior == Prior(q)
           last == parent = None
           phase == IF last THEN "TERMINAL" ELSE "OPEN"
           live == InForce("FREEZE", s)
<1>1. /\ v \in Reversal /\ v \notin consumedCommandIds /\ q \in DOMAIN actions
      /\ q \in ActionRequest /\ q.caseId \in CaseIds /\ s \in Subjects
      /\ q.action = "FREEZE" /\ q.action # "SEIZE"
      /\ overlayHeads[<<"FREEZE", s>>] # None
      /\ overlayHeads[<<"FREEZE", s>>].action = q
      /\ q.amount \in Nat
  BY DEF AcceptedReversal, Reversal, ActionRequest, Unfreeze, Reverses, Overlay, IsHead
<1>2. parent \in ActionRequest \cup {None} /\ parent \in DOMAIN actions \cup {None}
  BY <1>1 DEF ReproductionInv, TypeOK, CommandsOK
<1>3. /\ Consumed(v) /\ actions' = actions /\ custody' = custody
      /\ SetCase(q.caseId, phase, "FREEZE", parent)
      /\ overlayHeads' = [overlayHeads EXCEPT ![<<"FREEZE", s>>] = prior.head]
      /\ frozenTarget' = [frozenTarget EXCEPT ![s] = prior.target]
      /\ restricted' = restricted
  BY DEF Unfreeze
<1>4. /\ CommandsOK' /\ cases' \in [CaseIds -> Case] /\ OverlayCases'
      /\ cases'[q.caseId].family = "FREEZE"
      /\ \A c \in CaseIds : c # q.caseId => CustodyOf(c)'
  <2>1. phase \in {"OPEN", "TERMINAL"} /\ "FREEZE" \in Overlay \cup {"CUSTODY"}
    BY DEF Overlay
  <2> HIDE DEF phase
  <2> QED
    BY <1>1, <1>2, <1>3, <2>1, ReversalKeeps
<1>5. CustodyOf(q.caseId)'
  <2>1. custody[q.caseId] = None
    BY <1>1 DEF ReproductionInv, OverlayCases, CustodyOf, Overlay
  <2> QED
    BY <1>3, <1>4, <2>1 DEF CustodyOf
<1>6. /\ prior.target \in Nat /\ prior.head \in OverlayHead \cup {None}
      /\ last => prior.target = 0 /\ prior.head = None
      /\ ~ last => /\ prior.target = parent.amount
                   /\ prior.head = [action |-> parent, caseId |-> parent.caseId]
                   /\ prior.head # None
  <2>1. CASE last
    BY <2>1 DEF Prior
  <2>2. CASE ~ last
    BY <1>2, <2>2, ReproductionAssumption
       DEF Prior, OverlayHead, ActionRequest, ReproductionAssumption
  <2> QED
    BY <2>1, <2>2
<1>7. /\ overlayHeads'[<<"FREEZE", s>>] = prior.head
      /\ \A t \in Subjects :
           overlayHeads'[<<"RESTRICT", t>>] = overlayHeads[<<"RESTRICT", t>>]
      /\ \A t \in Subjects :
           t # s => overlayHeads'[<<"FREEZE", t>>] = overlayHeads[<<"FREEZE", t>>]
      /\ overlayHeads' \in [Overlay \X Subjects -> OverlayHead \cup {None}]
  <2> HIDE DEF prior
  <2> QED
    BY <1>1, <1>3, <1>6 DEF ReproductionInv, TypeOK, Overlay
<1>8. /\ frozenTarget'[s] = prior.target /\ frozenTarget[s] \in Nat
      /\ \A t \in Subjects : t # s => frozenTarget'[t] = frozenTarget[t]
      /\ frozenTarget' \in [Subjects -> Nat]
  <2> HIDE DEF prior
  <2> QED
    BY <1>1, <1>3, <1>6 DEF ReproductionInv, TypeOK
<1>9. TypeOK'
  BY <1>4, <1>7, <1>8 DEF ReproductionInv, TypeOK, Unfreeze
<1>10. \A a, t : InForce(a, t)' = InForce(a, t) \ {q}
  BY <1>1, <1>3, ReversalTakes DEF ReproductionInv, TypeOK
<1>11. FreezesNest(s)'
  <2>1. live' = live \ {q} /\ live \subseteq DOMAIN actions
    BY <1>10 DEF InForce
  <2>2. /\ q \in live /\ frozenTarget[s] = q.amount
        /\ \A p \in live :
             /\ p.amount <= frozenTarget[s]
             /\ Prior(p).target < p.amount
             /\ actions[p] # None => actions[p] \in live
        /\ \A p1, p2 \in live :
             p1 = p2 \/ p1.amount <= Prior(p2).target \/ p2.amount <= Prior(p1).target
    BY <1>1 DEF ReproductionInv, FreezesNest
  <2>3. \A p \in live : /\ p.amount \in Nat
                        /\ actions'[p] = actions[p] /\ Prior(p)' = Prior(p)
                        /\ Prior(p).target \in Nat
                        /\ actions[p] # None => Prior(p).target = actions[p].amount
    BY <1>3, <2>1, <2>2 DEF Prior, ReproductionInv, TypeOK, CommandsOK, ActionRequest
  <2> HIDE DEF live, prior
  <2>4. \A p \in live' : p.amount <= prior.target
    BY <2>1, <2>2, <2>3 DEF prior
  <2>5. \A p \in live' : actions[p] # None => actions[p] \in live'
    BY <2>1, <2>2, <2>3
  <2>6. last => live' = {}
    <3>1. ASSUME NEW p \in live', last PROVE FALSE
      <4>1. p.amount <= 0 /\ Prior(p).target < p.amount /\ p.amount \in Nat
            /\ Prior(p).target \in Nat
        BY <1>6, <2>1, <2>2, <2>3, <2>4, <3>1
      <4> QED
        BY <4>1
    <3> QED
      BY <3>1
  <2>7. ~ last => parent \in live'
    BY <1>6, <2>1, <2>2, <2>3
  <2>8. \A p \in live' : /\ p.amount <= frozenTarget'[s] /\ Prior(p)'.target < p.amount
                         /\ actions'[p] # None => actions'[p] \in live'
    BY <1>8, <2>1, <2>2, <2>3, <2>4, <2>5
  <2>9. \A p1, p2 \in live' :
          p1 = p2 \/ p1.amount <= Prior(p2)'.target \/ p2.amount <= Prior(p1)'.target
    BY <2>1, <2>2, <2>3
  <2>10. prior.head = None => live' = {} /\ frozenTarget'[s] = 0
    BY <1>6, <1>8, <2>6
  <2>11. prior.head # None => /\ prior.head.action \in live'
                              /\ prior.head.caseId = prior.head.action.caseId
                              /\ frozenTarget'[s] = prior.head.action.amount
    BY <1>6, <1>8, <2>7
  <2> QED
    BY <1>7, <2>8, <2>9, <2>10, <2>11 DEF FreezesNest, live
<1>12. \A t \in Subjects : FreezesNest(t)' /\ RestrictedOnce(t)'
  <2>1. \A t \in Subjects : t # s => InForce("FREEZE", t)' = InForce("FREEZE", t)
    BY <1>10 DEF InForce
  <2>2. \A t \in Subjects : InForce("RESTRICT", t)' = InForce("RESTRICT", t)
    BY <1>1, <1>10 DEF InForce
  <2> HIDE DEF prior
  <2>3. \A t \in Subjects : t # s => FreezesNest(t)'
    BY <1>3, <1>7, <1>8, <2>1, FreezesKept DEF ReproductionInv
  <2>4. \A t \in Subjects : RestrictedOnce(t)'
    BY <1>3, <1>7, <2>2, RestrictionKept DEF ReproductionInv
  <2> QED
    BY <1>11, <2>3, <2>4
<1>13. CustodyBalanced'
  <2> DEFINE x == deriveReversalReceipt(v)
  <2>1. x \notin Receipts /\ x.amount \in Nat /\ Receipts' = Receipts \cup {x}
    BY <1>1, <1>3, ReversalReceipt DEF ReproductionInv, TypeOK
  <2>2. x.source # Custodian /\ x.destination # Custodian
    <3>1. v.reversal # "RELEASE"
      BY DEF Unfreeze
    <3> QED
      BY <1>1, <3>1, ReproductionAssumption
         DEF deriveReversalReceipt, ReproductionAssumption
  <2> HIDE DEF x
  <2> QED
    BY <1>3, <2>1, <2>2, NotOfCustody DEF ReproductionInv, TypeOK
<1> QED
  BY <1>4, <1>5, <1>9, <1>12, <1>13 DEF ReproductionInv

\* No restriction stays once the only one is lifted.
LEMMA UnrestrictKeeps ==
  ASSUME ReproductionInv, NEW v, AcceptedReversal(v), Unrestrict(v) PROVE ReproductionInv'
<1> DEFINE q == v.action
           s == q.subject
<1>1. /\ v \in Reversal /\ v \notin consumedCommandIds /\ q \in DOMAIN actions
      /\ q \in ActionRequest /\ q.caseId \in CaseIds /\ s \in Subjects
      /\ q.action = "RESTRICT" /\ q.action # "SEIZE"
      /\ overlayHeads[<<"RESTRICT", s>>] # None
      /\ overlayHeads[<<"RESTRICT", s>>].action = q
  BY DEF AcceptedReversal, Reversal, ActionRequest, Unrestrict, Reverses, Overlay, IsHead
<1>2. /\ Consumed(v) /\ actions' = actions /\ custody' = custody
      /\ SetCase(q.caseId, "TERMINAL", "RESTRICT", None)
      /\ overlayHeads' = [overlayHeads EXCEPT ![<<"RESTRICT", s>>] = None]
      /\ frozenTarget' = frozenTarget /\ restricted' = restricted \ {s}
  BY DEF Unrestrict
<1>3. /\ CommandsOK' /\ cases' \in [CaseIds -> Case] /\ OverlayCases'
      /\ cases'[q.caseId].family = "RESTRICT"
      /\ \A c \in CaseIds : c # q.caseId => CustodyOf(c)'
  BY <1>1, <1>2, ReversalKeeps DEF Overlay
<1>4. CustodyOf(q.caseId)'
  <2>1. custody[q.caseId] = None
    BY <1>1 DEF ReproductionInv, OverlayCases, CustodyOf, Overlay
  <2> QED
    BY <1>2, <1>3, <2>1 DEF CustodyOf
<1>5. /\ overlayHeads'[<<"RESTRICT", s>>] = None
      /\ \A t \in Subjects : overlayHeads'[<<"FREEZE", t>>] = overlayHeads[<<"FREEZE", t>>]
      /\ \A t \in Subjects :
           t # s => overlayHeads'[<<"RESTRICT", t>>] = overlayHeads[<<"RESTRICT", t>>]
      /\ overlayHeads' \in [Overlay \X Subjects -> OverlayHead \cup {None}]
  BY <1>1, <1>2 DEF ReproductionInv, TypeOK, Overlay
<1>6. TypeOK'
  BY <1>2, <1>3, <1>5 DEF ReproductionInv, TypeOK
<1>7. \A a, t : InForce(a, t)' = InForce(a, t) \ {q}
  BY <1>1, <1>2, ReversalTakes DEF ReproductionInv, TypeOK
<1>8. RestrictedOnce(s)'
  <2>1. InForce("RESTRICT", s) = {q}
    BY <1>1 DEF ReproductionInv, RestrictedOnce
  <2>2. InForce("RESTRICT", s)' = {}
    BY <1>7, <2>1
  <2> QED
    BY <1>2, <1>5, <2>2 DEF RestrictedOnce
<1>9. \A t \in Subjects : FreezesNest(t)' /\ RestrictedOnce(t)'
  <2>1. \A t \in Subjects : t # s => InForce("RESTRICT", t)' = InForce("RESTRICT", t)
    BY <1>7 DEF InForce
  <2>2. \A t \in Subjects : InForce("FREEZE", t)' = InForce("FREEZE", t)
    BY <1>1, <1>7 DEF InForce
  <2>3. \A t \in Subjects : t # s => RestrictedOnce(t)'
    BY <1>2, <1>5, <2>1, RestrictionKept DEF ReproductionInv
  <2>4. \A t \in Subjects : FreezesNest(t)'
    BY <1>2, <1>5, <2>2, FreezesKept DEF ReproductionInv
  <2> QED
    BY <1>8, <2>3, <2>4
<1>10. CustodyBalanced'
  <2> DEFINE x == deriveReversalReceipt(v)
  <2>1. x \notin Receipts /\ x.amount \in Nat /\ Receipts' = Receipts \cup {x}
    BY <1>1, <1>2, ReversalReceipt DEF ReproductionInv, TypeOK
  <2>2. x.source # Custodian /\ x.destination # Custodian
    <3>1. v.reversal # "RELEASE"
      BY DEF Unrestrict
    <3> QED
      BY <1>1, <3>1, ReproductionAssumption
         DEF deriveReversalReceipt, ReproductionAssumption
  <2> HIDE DEF x
  <2> QED
    BY <1>2, <2>1, <2>2, NotOfCustody DEF ReproductionInv, TypeOK
<1> QED
  BY <1>3, <1>4, <1>6, <1>9, <1>10 DEF ReproductionInv

\* A release passes on what was held.
LEMMA ReleaseKeeps ==
  ASSUME ReproductionInv, NEW v, AcceptedReversal(v), Release(v) PROVE ReproductionInv'
<1> DEFINE q == v.action
           x == deriveReversalReceipt(v)
<1>1. /\ v \in Reversal /\ v \notin consumedCommandIds /\ q \in DOMAIN actions
      /\ q \in ActionRequest /\ q.caseId \in CaseIds /\ q.subject \in Subjects
      /\ q.action = "SEIZE" /\ q.action \notin Overlay
      /\ custody[q.caseId] # None /\ custody[q.caseId].action = q
  BY DEF AcceptedReversal, Reversal, ActionRequest, Release, Reverses, Overlay
<1>2. /\ Consumed(v) /\ actions' = actions
      /\ SetCase(q.caseId, "TERMINAL", "CUSTODY", None)
      /\ custody' = [custody EXCEPT ![q.caseId] = None]
      /\ v.reversal = "RELEASE"
  BY DEF Release
<1>3. /\ CommandsOK' /\ cases' \in [CaseIds -> Case] /\ OverlayCases'
      /\ cases'[q.caseId].phase = "TERMINAL"
      /\ \A c \in CaseIds : c # q.caseId /\ custody'[c] = custody[c] => CustodyOf(c)'
  BY <1>1, <1>2, ReversalKeeps DEF Overlay
<1>4. custody[q.caseId].custodian = Custodian
      /\ custody[q.caseId].custodian = q.custodian /\ custody[q.caseId].amount = q.amount
  BY <1>1 DEF ReproductionInv, TypeOK, CustodyOf, Held
<1>5. /\ x \notin Receipts /\ Receipts' = Receipts \cup {x}
      /\ x.source = q.custodian /\ x.destination = q.subject /\ x.amount = q.amount
  <2>1. x.source = q.custodian /\ x.destination = q.subject /\ x.amount = q.amount
    BY <1>2 DEF deriveReversalReceipt
  <2> QED
    BY <1>1, <1>2, <2>1, ReversalReceipt DEF ReproductionInv, TypeOK
<1>6. q.subject # Custodian
  BY <1>1, ReproductionAssumption DEF ReproductionAssumption
<1> HIDE DEF x
<1>7. /\ CustodyBalanced' /\ CustodyOf(q.caseId)'
      /\ custody' \in [CaseIds -> Held \cup {None}]
      /\ \A d \in CaseIds : d # q.caseId => custody'[d] = custody[d]
  BY <1>1, <1>2, <1>3, <1>4, <1>5, <1>6, CustodyLeft
<1>8. TypeOK'
  BY <1>3, <1>7 DEF ReproductionInv, TypeOK, Release
<1>9. \A a \in Overlay, t \in Subjects : InForce(a, t)' = InForce(a, t)
  <2>1. \A a, t : InForce(a, t)' = InForce(a, t) \ {q}
    BY <1>1, <1>2, ReversalTakes DEF ReproductionInv, TypeOK
  <2> QED
    BY <1>1, <2>1 DEF InForce
<1>10. \A t \in Subjects : FreezesNest(t)' /\ RestrictedOnce(t)'
  BY <1>2, <1>9, OverlaysApart DEF Release
<1> QED
  BY <1>3, <1>7, <1>8, <1>10 DEF ReproductionInv
-----------------------------------------------------------------------------
(* Every step *)

\* The invariant holds where nothing has been applied ...
LEMMA ReproductionInit == Init => ReproductionInv
<1> SUFFICES ASSUME Init PROVE ReproductionInv
  OBVIOUS
<1>1. /\ DOMAIN actions = {} /\ consumedCommandIds = {} /\ consumedNonces = {}
      /\ restricted = {} /\ \A c \in CaseIds : custody[c] = None
      /\ \A s \in Subjects : /\ frozenTarget[s] = 0
                             /\ overlayHeads[<<"FREEZE", s>>] = None
                             /\ overlayHeads[<<"RESTRICT", s>>] = None
  BY DEF Init, Overlay
<1>2. CommandsOK
  BY <1>1, FS_EmptySet DEF CommandsOK
<1>3. TypeOK
  BY <1>1, <1>2 DEF Init, TypeOK, Case
<1>4. \A a, s : InForce(a, s) = {}
  BY <1>1 DEF InForce
<1>5. \A s \in Subjects : FreezesNest(s) /\ RestrictedOnce(s)
  BY <1>1, <1>4 DEF FreezesNest, RestrictedOnce
<1>6. \A c \in CaseIds : CustodyOf(c)
  BY <1>1 DEF CustodyOf, Init
<1>7. OverlayCases
  BY <1>1 DEF OverlayCases
<1>8. CustodyBalanced
  <2>1. Receipts = {} /\ InCustody = {}
    BY <1>1 DEF Receipts, InCustody
  <2>2. Received = 0 /\ PassedOn = 0 /\ HeldNow = 0
    <3>1. {x \in Receipts : x.destination = Custodian} = {}
          /\ {x \in Receipts : x.source = Custodian} = {}
      BY <2>1
    <3> QED
      BY <2>1, <3>1, SumEmpty DEF Received, PassedOn, HeldNow, Moved
  <2> QED
    BY <2>2 DEF CustodyBalanced
<1> QED
  BY <1>3, <1>5, <1>6, <1>7, <1>8 DEF ReproductionInv

\* ... and every step keeps it.
LEMMA ReproductionNext == ReproductionInv /\ [Next]_vars => ReproductionInv'
<1> SUFFICES ASSUME ReproductionInv, [Next]_vars PROVE ReproductionInv'
  OBVIOUS
<1>1. CASE UNCHANGED vars
  <2>1. UNCHANGED <<cases, overlayHeads, custody, frozenTarget, restricted, actions,
                    consumedCommandIds, consumedNonces>>
    BY <1>1 DEF vars, endpoint
  <2>2. TypeOK' /\ OverlayCases'
    BY <2>1 DEF ReproductionInv, TypeOK, CommandsOK, OverlayCases
  <2>3. \A a, s : InForce(a, s)' = InForce(a, s)
    BY <2>1 DEF InForce, Reversed
  <2>4. \A s \in Subjects : FreezesNest(s)' /\ RestrictedOnce(s)'
    BY <2>1, <2>3, OverlaysApart
  <2>5. \A c \in CaseIds : CustodyOf(c)'
    BY <2>1 DEF ReproductionInv, CustodyOf
  <2>6. CustodyBalanced'
    <3>1. Receipts' = Receipts
      BY <2>1 DEF Receipts
    <3> QED
      BY <2>1, <3>1
         DEF ReproductionInv, CustodyBalanced, Received, PassedOn, Moved, HeldNow, InCustody
  <2> QED
    BY <2>2, <2>4, <2>5, <2>6 DEF ReproductionInv
<1>2. ASSUME NEW r \in Requests, executeAction(r) PROVE ReproductionInv'
  <2>1. Accepted(r)
    BY <1>2, AcceptedIs DEF executeAction, ReproductionInv
  <2>2. \/ Freeze(r) \/ RestrictSubject(r) \/ Seize(r)
        \/ DisposeCustody(r) \/ DisposeDirect(r)
    BY <1>2 DEF executeAction
  <2> QED
    BY <2>1, <2>2, FreezeKeeps, RestrictKeeps, SeizeKeeps, DisposeCustodyKeeps,
       DisposeDirectKeeps
<1>3. ASSUME NEW v \in Reversals, executeReversal(v) PROVE ReproductionInv'
  <2>1. AcceptedReversal(v)
    BY <1>3, AcceptedReversalIs DEF executeReversal, ReproductionInv
  <2>2. Unfreeze(v) \/ Unrestrict(v) \/ Release(v)
    BY <1>3 DEF executeReversal
  <2> QED
    BY <2>1, <2>2, UnfreezeKeeps, UnrestrictKeeps, ReleaseKeeps
<1> QED
  BY <1>1, <1>2, <1>3 DEF Next

\* The inductive invariant holds for every set of shapes and of pairs.
THEOREM ReproductionInvariant == Spec => []ReproductionInv
<1> QED
  BY ReproductionInit, ReproductionNext, PTL DEF Spec
-----------------------------------------------------------------------------
(* What the receipts tell *)

\* The receipts that none reverses are those of the actions in force.
UnreversedReceipts(action) ==
  {x \in Receipts : /\ x.receiptKind = "ACTION"
                    /\ x.commandKind = ActionKind[action]
                    /\ \A y \in Receipts : y.parentCommandId # x.commandId}

\* Receipts and actions correspond: kinds of command have numbers of their own.
LEMMA UnreversedAre ==
  ASSUME CommandsOK, NEW a \in Overlay
  PROVE  UnreversedReceipts(a) =
           {deriveActionReceipt(p) :
              p \in {q \in DOMAIN actions : q.action = a /\ q \notin Reversed}}
<1>1. ASSUME NEW p \in DOMAIN actions
      PROVE  LET x == deriveActionReceipt(p)
             IN  /\ p \in ActionRequest /\ p # None /\ x \in Receipts
                 /\ x.receiptKind = "ACTION" /\ x.commandId = p /\ x.parentCommandId = None
                 /\ x.commandKind = ActionKind[a] <=> p.action = a
  <2>1. p \in ActionRequest /\ p # None
    BY ReproductionAssumption DEF CommandsOK, ReproductionAssumption
  <2>2. p.action \in Overlay \cup Disposition \cup {"SEIZE"}
    BY <2>1 DEF ActionRequest
  <2>3. ActionKind[p.action] = ActionKind[a] <=> p.action = a
    BY <2>2 DEF ActionKind, Overlay, Disposition
  <2> QED
    BY <2>1, <2>3 DEF deriveActionReceipt, Receipts
<1>2. ASSUME NEW v \in consumedCommandIds \ DOMAIN actions
      PROVE  LET y == deriveReversalReceipt(v)
             IN  /\ y \in Receipts /\ y.receiptKind = "REVERSAL"
                 /\ y.parentCommandId = v.action
  BY DEF deriveReversalReceipt, Receipts
<1>3. ASSUME NEW x \in Receipts
      PROVE  \/ \E p \in DOMAIN actions : x = deriveActionReceipt(p)
             \/ \E v \in consumedCommandIds \ DOMAIN actions : x = deriveReversalReceipt(v)
  BY DEF Receipts
<1>4. ASSUME NEW p \in DOMAIN actions
      PROVE  (\A y \in Receipts : y.parentCommandId # p) <=> p \notin Reversed
  <2>1. ASSUME \A y \in Receipts : y.parentCommandId # p PROVE p \notin Reversed
    BY <1>2, <2>1 DEF Reversed
  <2>2. ASSUME p \notin Reversed, NEW y \in Receipts PROVE y.parentCommandId # p
    <3>1. CASE \E q \in DOMAIN actions : y = deriveActionReceipt(q)
      BY <1>1, <3>1
    <3>2. CASE \E v \in consumedCommandIds \ DOMAIN actions : y = deriveReversalReceipt(v)
      BY <1>2, <2>2, <3>2 DEF Reversed
    <3> QED
      BY <1>3, <3>1, <3>2
  <2> QED
    BY <2>1, <2>2
<1>5. ASSUME NEW x \in UnreversedReceipts(a)
      PROVE  \E p \in DOMAIN actions :
               p.action = a /\ p \notin Reversed /\ x = deriveActionReceipt(p)
  <2>1. /\ x \in Receipts /\ x.receiptKind = "ACTION" /\ x.commandKind = ActionKind[a]
        /\ \A y \in Receipts : y.parentCommandId # x.commandId
    BY DEF UnreversedReceipts
  <2>2. PICK p \in DOMAIN actions : x = deriveActionReceipt(p)
    BY <1>2, <1>3, <2>1
  <2> QED
    BY <1>1, <1>4, <2>1, <2>2
<1>6. ASSUME NEW p \in DOMAIN actions, p.action = a, p \notin Reversed
      PROVE  deriveActionReceipt(p) \in UnreversedReceipts(a)
  BY <1>1, <1>4, <1>6 DEF UnreversedReceipts
<1> QED
  BY <1>5, <1>6

\* The target is that of the highest freeze in force.
LEMMA TargetExplained ==
  ASSUME ReproductionInv, NEW s \in Subjects
  PROVE  frozenTarget[s] =
           Max({0} \cup {x.amount : x \in {y \in UnreversedReceipts("FREEZE") :
                                             y.subject = s}})
<1> DEFINE amounts == {p.amount : p \in InForce("FREEZE", s)}
           S == {0} \cup amounts
<1>1. {x.amount : x \in {y \in UnreversedReceipts("FREEZE") : y.subject = s}} = amounts
  <2> DEFINE L == {q \in DOMAIN actions : q.action = "FREEZE" /\ q \notin Reversed}
  <2>1. UnreversedReceipts("FREEZE") = {deriveActionReceipt(p) : p \in L}
    BY UnreversedAre DEF Overlay, ReproductionInv, TypeOK
  <2>2. \A p \in L : /\ deriveActionReceipt(p).amount = p.amount
                     /\ deriveActionReceipt(p).subject = p.subject
    BY DEF deriveActionReceipt
  <2>3. InForce("FREEZE", s) = {p \in L : p.subject = s}
    BY DEF InForce
  <2> HIDE DEF L
  <2> QED
    BY <2>1, <2>2, <2>3
<1>2. frozenTarget[s] \in S /\ \A n \in S : n <= frozenTarget[s] /\ n \in Int
  <2>1. /\ frozenTarget[s] \in Nat
        /\ \A p \in InForce("FREEZE", s) : p.amount \in Nat /\ p.amount <= frozenTarget[s]
    BY DEF ReproductionInv, TypeOK, CommandsOK, FreezesNest, InForce, ActionRequest
  <2>2. \/ frozenTarget[s] = 0
        \/ \E p \in InForce("FREEZE", s) : frozenTarget[s] = p.amount
    BY DEF ReproductionInv, FreezesNest
  <2> QED
    BY <2>1, <2>2
<1>3. IsFiniteSet(S)
  <2> DEFINE L == InForce("FREEZE", s)
             f == [p \in L |-> p.amount]
  <2>1. IsFiniteSet(L)
    BY FS_Subset DEF InForce, ReproductionInv, TypeOK, CommandsOK
  <2>2. f \in Surjection(L, amounts)
    <3> HIDE DEF L
    <3> QED
      BY DEF Surjection, L
  <2> HIDE DEF f, L, amounts
  <2>3. IsFiniteSet(amounts)
    BY <2>1, <2>2, FS_Surjection
  <2> QED
    BY <2>3, FS_Singleton, FS_Union
<1> HIDE DEF S, amounts
<1>4. Max(S) \in S /\ \A n \in S : n <= Max(S)
  BY <1>2, <1>3, MaxIs
<1>5. Max(S) = frozenTarget[s]
  BY <1>2, <1>4
<1> QED
  BY <1>1, <1>5 DEF S

\* Those restricted are the subjects of the restrictions in force.
LEMMA RestrictedExplained ==
  ASSUME ReproductionInv
  PROVE  restricted = {x.subject : x \in UnreversedReceipts("RESTRICT")}
<1> DEFINE L == {q \in DOMAIN actions : q.action = "RESTRICT" /\ q \notin Reversed}
<1>1. UnreversedReceipts("RESTRICT") = {deriveActionReceipt(p) : p \in L}
  BY UnreversedAre DEF Overlay, ReproductionInv, TypeOK
<1>2. \A p \in L : deriveActionReceipt(p).subject = p.subject /\ p.subject \in Subjects
  BY DEF deriveActionReceipt, ReproductionInv, TypeOK, CommandsOK, ActionRequest
<1>3. \A s \in Subjects : s \in restricted <=> \E p \in L : p.subject = s
  BY DEF ReproductionInv, RestrictedOnce, InForce
<1>4. restricted \subseteq Subjects
  BY DEF ReproductionInv, TypeOK
<1> HIDE DEF L
<1> QED
  BY <1>1, <1>2, <1>3, <1>4

\* Whatever the shapes of the commands offered, the receipts alone tell the
\* targets, the restrictions and what is in custody.
THEOREM ReceiptsAlwaysExplain == Spec => []ReceiptsExplain
<1>1. ReproductionInv => ReceiptsExplain
  <2> SUFFICES ASSUME ReproductionInv PROVE ReceiptsExplain
    OBVIOUS
  <2>1. \A s \in Subjects :
          frozenTarget[s] =
            Max({0} \cup {x.amount : x \in {y \in UnreversedReceipts("FREEZE") :
                                              y.subject = s}})
    BY TargetExplained
  <2>2. restricted = {x.subject : x \in UnreversedReceipts("RESTRICT")}
    BY RestrictedExplained
  <2>3. Received = PassedOn + HeldNow
    BY DEF ReproductionInv, CustodyBalanced
  <2> QED
    BY <2>1, <2>2, <2>3
       DEF ReceiptsExplain, UnreversedReceipts, Received, PassedOn, Moved, HeldNow,
           InCustody
<1> QED
  BY <1>1, ReproductionInvariant, PTL
-----------------------------------------------------------------------------
(* The order of validation of the specification *)

Steps == SUBSET Reasons

\* A step of the order gives the reasons, if no step before it gives any.
LEMMA StepIs ==
  ASSUME NEW s \in Seq(Steps)
  PROVE  \/ Step(s) = {"ok"} /\ \A i \in 1 .. Len(s) : s[i] = {}
         \/ /\ Step(s) # {"ok"}
            /\ \E i \in 1 .. Len(s) : /\ s[i] # {} /\ Step(s) = s[i]
                                      /\ \A j \in 1 .. Len(s) : s[j] # {} => i <= j
<1> DEFINE given == {i \in DOMAIN s : s[i] # {}}
<1>1. Len(s) \in Nat /\ DOMAIN s = 1 .. Len(s) /\ \A i \in 1 .. Len(s) : s[i] \in Steps
  OBVIOUS
<1>2. Step(s) = IF given = {} THEN {"ok"} ELSE s[Min(given)]
  BY DEF Step
<1>3. CASE given = {}
  BY <1>1, <1>2, <1>3
<1>4. CASE given # {}
  <2>1. Min(given) \in given /\ \A j \in given : Min(given) <= j
    <3>1. IsFiniteSet(1 .. Len(s))
      BY <1>1, FS_Interval
    <3>2. IsFiniteSet(given) /\ given \subseteq Int
      BY <1>1, <3>1, FS_Subset
    <3> HIDE DEF given
    <3> QED
      BY <1>4, <3>2, MinIs
  <2>2. Step(s) = s[Min(given)] /\ s[Min(given)] \subseteq Reasons
    BY <1>1, <1>2, <1>4, <2>1 DEF Steps
  <2>3. Step(s) # {"ok"}
    BY <2>2, ReasonsAre
  <2> QED
    BY <1>1, <2>1, <2>2, <2>3
<1> QED
  BY <1>3, <1>4

\* Two orders, one after the other.
LEMMA StepAfter ==
  ASSUME NEW s \in Seq(Steps), NEW t \in Seq(Steps)
  PROVE  Step(s \o t) = IF Step(s) = {"ok"} THEN Step(t) ELSE Step(s)
<1> DEFINE u == s \o t
<1>1. /\ u \in Seq(Steps) /\ Len(s) \in Nat /\ Len(t) \in Nat /\ Len(u) = Len(s) + Len(t)
      /\ \A i \in 1 .. Len(s) : u[i] = s[i]
      /\ \A i \in 1 .. Len(t) : u[Len(s) + i] = t[i]
  OBVIOUS
<1>2. \A i \in 1 .. Len(u) : i \in 1 .. Len(s) \/ i - Len(s) \in 1 .. Len(t)
  BY <1>1
<1>3. \A i \in 1 .. Len(u) : i \notin 1 .. Len(s) => u[i] = t[i - Len(s)]
  BY <1>1, <1>2
<1> HIDE DEF u
<1>4. CASE Step(s) # {"ok"}
  <2>1. PICK i \in 1 .. Len(s) : /\ s[i] # {} /\ Step(s) = s[i]
                                 /\ \A j \in 1 .. Len(s) : s[j] # {} => i <= j
    BY <1>4, StepIs
  <2>2. i \in 1 .. Len(u) /\ u[i] # {}
    BY <1>1, <2>1
  <2>3. PICK k \in 1 .. Len(u) : /\ u[k] # {} /\ Step(u) = u[k]
                                 /\ \A j \in 1 .. Len(u) : u[j] # {} => k <= j
    BY <1>1, <2>2, StepIs
  <2>4. k <= i /\ k \in 1 .. Len(s)
    BY <1>1, <2>2, <2>3
  <2>5. k = i
    BY <1>1, <2>1, <2>3, <2>4
  <2> QED
    BY <1>1, <1>4, <2>1, <2>3, <2>5 DEF u
<1>5. CASE Step(s) = {"ok"} /\ Step(t) # {"ok"}
  <2>1. PICK i \in 1 .. Len(t) : /\ t[i] # {} /\ Step(t) = t[i]
                                 /\ \A j \in 1 .. Len(t) : t[j] # {} => i <= j
    BY <1>5, StepIs
  <2>2. Len(s) + i \in 1 .. Len(u) /\ u[Len(s) + i] # {}
    BY <1>1, <2>1
  <2>3. PICK k \in 1 .. Len(u) : /\ u[k] # {} /\ Step(u) = u[k]
                                 /\ \A j \in 1 .. Len(u) : u[j] # {} => k <= j
    BY <1>1, <2>2, StepIs
  <2>4. \A j \in 1 .. Len(s) : s[j] = {}
    BY <1>5, StepIs
  <2>5. k \notin 1 .. Len(s)
    BY <1>1, <2>3, <2>4
  <2>6. k - Len(s) \in 1 .. Len(t) /\ u[k] = t[k - Len(s)]
    BY <1>2, <1>3, <2>5
  <2>7. k <= Len(s) + i /\ i <= k - Len(s)
    BY <1>1, <2>1, <2>2, <2>3, <2>6
  <2>8. k \in Int /\ i \in Int /\ Len(s) \in Int
    BY <1>1, <2>1, <2>3
  <2>9. k = Len(s) + i
    BY <2>7, <2>8
  <2> QED
    BY <1>1, <1>5, <2>1, <2>3, <2>9 DEF u
<1>6. CASE Step(s) = {"ok"} /\ Step(t) = {"ok"}
  <2>1. \A j \in 1 .. Len(s) : s[j] = {}
    BY <1>6, StepIs
  <2>2. \A j \in 1 .. Len(t) : t[j] = {}
    BY <1>6, StepIs
  <2>3. \A j \in 1 .. Len(u) : u[j] = {}
    BY <1>1, <1>2, <1>3, <2>1, <2>2
  <2>4. Step(u) = {"ok"}
    BY <1>1, <2>3, StepIs
  <2> QED
    BY <1>1, <1>6, <2>4 DEF u
<1> QED
  BY <1>4, <1>5, <1>6

\* The first step that gives reasons gives them.
LEMMA StepFirst ==
  ASSUME NEW s \in Seq(Steps), NEW i \in 1 .. Len(s), s[i] # {},
         \A j \in 1 .. Len(s) : j < i => s[j] = {}
  PROVE  Step(s) = s[i]
<1>1. PICK k \in 1 .. Len(s) : /\ s[k] # {} /\ Step(s) = s[k]
                               /\ \A j \in 1 .. Len(s) : s[j] # {} => k <= j
  BY StepIs
<1>2. k <= i /\ ~ (k < i) /\ k \in Int /\ i \in Int
  BY <1>1
<1>3. k = i
  BY <1>2
<1> QED
  BY <1>1, <1>3

\* Two sets of reasons.
LEMMA StepTwo ==
  ASSUME NEW x \in Steps, NEW y \in Steps
  PROVE  /\ <<x, y>> \in Seq(Steps)
         /\ Step(<<x, y>>) =
              IF x # {} THEN x ELSE IF y # {} THEN y ELSE {"ok"}
<1> DEFINE s == <<x, y>>
<1>1. s \in Seq(Steps) /\ Len(s) = 2
      /\ s[1] = x /\ s[2] = y
  OBVIOUS
<1> HIDE DEF s
<1>2. 1 .. Len(s) = {1, 2}
  BY <1>1
<1>3. CASE x # {}
  <2>1. /\ 1 \in 1 .. Len(s) /\ s[1] # {}
        /\ \A j \in 1 .. Len(s) : j < 1 => s[j] = {}
    BY <1>1, <1>2, <1>3
  <2>2. Step(s) = s[1]
    BY <1>1, <2>1, StepFirst
  <2> QED
    BY <1>1, <1>3, <2>2 DEF s
<1>4. CASE x = {} /\ y # {}
  <2>1. /\ 2 \in 1 .. Len(s) /\ s[2] # {}
        /\ \A j \in 1 .. Len(s) : j < 2 => s[j] = {}
    BY <1>1, <1>2, <1>4
  <2>2. Step(s) = s[2]
    BY <1>1, <2>1, StepFirst
  <2> QED
    BY <1>1, <1>4, <2>2 DEF s
<1>5. CASE x = {} /\ y = {}
  <2>1. Step(s) = {"ok"}
    BY <1>1, <1>2, <1>5, StepIs
  <2> QED
    BY <1>1, <1>5, <2>1 DEF s
<1> QED
  BY <1>3, <1>4, <1>5

\* Four sets of reasons.
LEMMA StepFour ==
  ASSUME NEW x \in Steps, NEW y \in Steps, NEW z \in Steps, NEW w \in Steps
  PROVE  /\ <<x, y, z, w>> \in Seq(Steps)
         /\ Step(<<x, y, z, w>>) =
              IF x # {} THEN x ELSE IF y # {} THEN y ELSE IF z # {} THEN z
              ELSE IF w # {} THEN w ELSE {"ok"}
<1> DEFINE s == <<x, y, z, w>>
<1>1. s \in Seq(Steps) /\ Len(s) = 4
      /\ s[1] = x /\ s[2] = y /\ s[3] = z /\ s[4] = w
  OBVIOUS
<1> HIDE DEF s
<1>2. 1 .. Len(s) = {1, 2, 3, 4}
  BY <1>1
<1>3. CASE x # {}
  <2>1. /\ 1 \in 1 .. Len(s) /\ s[1] # {}
        /\ \A j \in 1 .. Len(s) : j < 1 => s[j] = {}
    BY <1>1, <1>2, <1>3
  <2>2. Step(s) = s[1]
    BY <1>1, <2>1, StepFirst
  <2> QED
    BY <1>1, <1>3, <2>2 DEF s
<1>4. CASE x = {} /\ y # {}
  <2>1. /\ 2 \in 1 .. Len(s) /\ s[2] # {}
        /\ \A j \in 1 .. Len(s) : j < 2 => s[j] = {}
    BY <1>1, <1>2, <1>4
  <2>2. Step(s) = s[2]
    BY <1>1, <2>1, StepFirst
  <2> QED
    BY <1>1, <1>4, <2>2 DEF s
<1>5. CASE x = {} /\ y = {} /\ z # {}
  <2>1. /\ 3 \in 1 .. Len(s) /\ s[3] # {}
        /\ \A j \in 1 .. Len(s) : j < 3 => s[j] = {}
    BY <1>1, <1>2, <1>5
  <2>2. Step(s) = s[3]
    BY <1>1, <2>1, StepFirst
  <2> QED
    BY <1>1, <1>5, <2>2 DEF s
<1>6. CASE x = {} /\ y = {} /\ z = {} /\ w # {}
  <2>1. /\ 4 \in 1 .. Len(s) /\ s[4] # {}
        /\ \A j \in 1 .. Len(s) : j < 4 => s[j] = {}
    BY <1>1, <1>2, <1>6
  <2>2. Step(s) = s[4]
    BY <1>1, <2>1, StepFirst
  <2> QED
    BY <1>1, <1>6, <2>2 DEF s
<1>7. CASE x = {} /\ y = {} /\ z = {} /\ w = {}
  <2>1. Step(s) = {"ok"}
    BY <1>1, <1>2, <1>7, StepIs
  <2> QED
    BY <1>1, <1>7, <2>1 DEF s
<1> QED
  BY <1>3, <1>4, <1>5, <1>6, <1>7

\* The first seven steps, of a command whose fields have their shape and that is
\* not one of those applied unless it is well made.
LEMMA PreliminariesStep ==
  ASSUME NEW r, "SHAPE" \notin r.wrong, r \in applied => r.wrong = {}
  PROVE  /\ Preliminaries(r) \in Seq(Steps)
         /\ Step(Preliminaries(r)) =
              IF "DOMAIN" \in r.wrong THEN {"DOMAIN"}
              ELSE IF "IDENTIFIER" \in r.wrong THEN {"IDENTIFIER"}
              ELSE IF "TIME" \in r.wrong THEN {"TIME"}
              ELSE IF "DEPENDENCY_BINDING" \in r.wrong THEN {"DEPENDENCY_BINDING"}
              ELSE IF r \in applied \/ \E x \in applied : x.nonce = r.nonce
              THEN {"TrustReplay"} ELSE {"ok"}
<1> DEFINE a == When("DOMAIN" \in r.wrong, {"DOMAIN"})
           b == When("IDENTIFIER" \in r.wrong, {"IDENTIFIER"})
           c == When(r \in applied, {"TrustReplay"})
           d == When("TIME" \in r.wrong, {"TIME"})
           e == When("DEPENDENCY_BINDING" \in r.wrong, {"DEPENDENCY_BINDING"})
           f == When(\E x \in applied : x.nonce = r.nonce, {"TrustReplay"})
           g == When("SHAPE" \in r.wrong, {"SHAPE"})
           s == <<a, b, c, d, e, f, g>>
<1>1. Preliminaries(r) = s
  BY DEF Preliminaries
<1>2. /\ a = IF "DOMAIN" \in r.wrong THEN {"DOMAIN"} ELSE {}
      /\ b = IF "IDENTIFIER" \in r.wrong THEN {"IDENTIFIER"} ELSE {}
      /\ c = IF r \in applied THEN {"TrustReplay"} ELSE {}
      /\ d = IF "TIME" \in r.wrong THEN {"TIME"} ELSE {}
      /\ e = IF "DEPENDENCY_BINDING" \in r.wrong THEN {"DEPENDENCY_BINDING"} ELSE {}
      /\ f = IF \E x \in applied : x.nonce = r.nonce THEN {"TrustReplay"} ELSE {}
      /\ g = {}
  BY DEF When
<1>3. /\ a \in Steps /\ b \in Steps /\ c \in Steps /\ d \in Steps /\ e \in Steps
      /\ f \in Steps /\ g \in Steps
  <2> HIDE DEF a, b, c, d, e, f, g
  <2> QED
    BY <1>2, ReasonsAre DEF Steps
<1> HIDE DEF a, b, c, d, e, f, g
<1>4. /\ s \in Seq(Steps) /\ Len(s) = 7
      /\ s[1] = a /\ s[2] = b /\ s[3] = c /\ s[4] = d /\ s[5] = e /\ s[6] = f /\ s[7] = g
  BY <1>3
<1> HIDE DEF s
<1>5. 1 .. Len(s) = {1, 2, 3, 4, 5, 6, 7}
  BY <1>4
<1>6. CASE "DOMAIN" \in r.wrong
  <2>1. /\ 1 \in 1 .. Len(s) /\ s[1] # {}
        /\ \A j \in 1 .. Len(s) : j < 1 => s[j] = {}
    BY <1>2, <1>4, <1>5, <1>6
  <2>2. Step(s) = s[1]
    BY <1>4, <2>1, StepFirst
  <2> QED
    BY <1>1, <1>2, <1>4, <1>6, <2>2
<1>7. CASE "DOMAIN" \notin r.wrong /\ "IDENTIFIER" \in r.wrong
  <2>1. /\ 2 \in 1 .. Len(s) /\ s[2] # {}
        /\ \A j \in 1 .. Len(s) : j < 2 => s[j] = {}
    BY <1>2, <1>4, <1>5, <1>7
  <2>2. Step(s) = s[2]
    BY <1>4, <2>1, StepFirst
  <2> QED
    BY <1>1, <1>2, <1>4, <1>7, <2>2
<1>8. CASE /\ "DOMAIN" \notin r.wrong /\ "IDENTIFIER" \notin r.wrong
             /\ "TIME" \in r.wrong
  <2>1. /\ 4 \in 1 .. Len(s) /\ s[4] # {}
        /\ \A j \in 1 .. Len(s) : j < 4 => s[j] = {}
    BY <1>2, <1>4, <1>5, <1>8
  <2>2. Step(s) = s[4]
    BY <1>4, <2>1, StepFirst
  <2> QED
    BY <1>1, <1>2, <1>4, <1>8, <2>2
<1>9. CASE /\ "DOMAIN" \notin r.wrong /\ "IDENTIFIER" \notin r.wrong
             /\ "TIME" \notin r.wrong /\ "DEPENDENCY_BINDING" \in r.wrong
  <2>1. /\ 5 \in 1 .. Len(s) /\ s[5] # {}
        /\ \A j \in 1 .. Len(s) : j < 5 => s[j] = {}
    BY <1>2, <1>4, <1>5, <1>9
  <2>2. Step(s) = s[5]
    BY <1>4, <2>1, StepFirst
  <2> QED
    BY <1>1, <1>2, <1>4, <1>9, <2>2
<1>10. CASE r \in applied
  <2>1. /\ 3 \in 1 .. Len(s) /\ s[3] # {}
        /\ \A j \in 1 .. Len(s) : j < 3 => s[j] = {}
    BY <1>2, <1>4, <1>5, <1>10
  <2>2. Step(s) = s[3]
    BY <1>4, <2>1, StepFirst
  <2> QED
    BY <1>1, <1>2, <1>4, <1>10, <2>2
<1>11. CASE /\ "DOMAIN" \notin r.wrong /\ "IDENTIFIER" \notin r.wrong
              /\ "TIME" \notin r.wrong /\ "DEPENDENCY_BINDING" \notin r.wrong
              /\ r \notin applied /\ \E x \in applied : x.nonce = r.nonce
  <2>1. /\ 6 \in 1 .. Len(s) /\ s[6] # {}
        /\ \A j \in 1 .. Len(s) : j < 6 => s[j] = {}
    BY <1>2, <1>4, <1>5, <1>11
  <2>2. Step(s) = s[6]
    BY <1>4, <2>1, StepFirst
  <2> QED
    BY <1>1, <1>2, <1>4, <1>11, <2>2
<1>12. CASE /\ "DOMAIN" \notin r.wrong /\ "IDENTIFIER" \notin r.wrong
              /\ "TIME" \notin r.wrong /\ "DEPENDENCY_BINDING" \notin r.wrong
              /\ r \notin applied /\ ~ \E x \in applied : x.nonce = r.nonce
  <2>1. \A j \in 1 .. Len(s) : s[j] = {}
    BY <1>2, <1>4, <1>5, <1>12
  <2>2. Step(s) = {"ok"}
    BY <1>4, <2>1, StepIs
  <2> QED
    BY <1>1, <1>4, <1>12, <2>2
<1> QED
  BY <1>6, <1>7, <1>8, <1>9, <1>10, <1>11, <1>12
-----------------------------------------------------------------------------
(* The tables and the program *)

TableCase ==
  [phase : {"NONE", "OPEN", "TERMINAL"},
   family : Overlay \cup {"NONE", "CUSTODY", "DISPOSITION"},
   subject : Subjects \cup {Zero}, live : Seq(ActionRequest)]

\* The live actions of an open case are a chain of amendments on one subject, and
\* its end is what the program has for the head.
CaseLive(c) ==
  LET live == table[c].live
      subject == table[c].subject
      family == table[c].family
  IN  /\ live \in Seq(DOMAIN actions) /\ live # <<>>
      /\ family = cases[c].family /\ family \in Overlay \cup {"CUSTODY"}
      /\ \A i \in DOMAIN live :
           /\ live[i].caseId = c /\ live[i].subject = subject
           /\ actions[live[i]] = IF i = 1 THEN None ELSE live[i - 1]
      /\ family \in Overlay =>
           overlayHeads[<<family, subject>>] = [action |-> Last(live), caseId |-> c]
      /\ family # "FREEZE" => Len(live) = 1
      /\ family = "CUSTODY" => custody[c].action = live[1]

CaseTold(c) ==
  /\ table[c].phase = cases[c].phase
  /\ table[c].phase = "NONE" => table[c].live = <<>>
  /\ table[c].phase = "OPEN" => CaseLive(c)

\* A head is that of an open case.
HeadTold(a, s) ==
  LET head == overlayHeads[<<a, s>>]
      c == table[head.caseId]
  IN  head # None => c.phase = "OPEN" /\ c.family = a /\ c.subject = s

\* An action is a shape that was offered, and set the family of its case.
ActionTold(p) ==
  LET c == table[p.caseId]
  IN  /\ \E x \in Shapes : p = [x EXCEPT !.nonce = p.nonce]
      /\ p.wrong = {}
      /\ c.phase # "NONE"
      /\ c.phase = "OPEN" =>
           /\ IF p.action = "SEIZE" THEN c.family = "CUSTODY" ELSE p.action = c.family
           /\ c.family # "FREEZE" => p = c.live[1]
           /\ p.action \in Overlay => p.subject = c.subject

\* What the tables know of a program that has been given the same commands.
TableInv ==
  /\ table \in [CaseIds -> TableCase]
  /\ applied = consumedCommandIds
  /\ consumedNonces = {x.nonce : x \in consumedCommandIds}
  /\ consumedEntitlements = Spent
  /\ \A c \in CaseIds : CaseTold(c)
  /\ \A a \in Overlay, s \in Subjects : HeadTold(a, s)
  /\ \A p \in DOMAIN actions : ActionTold(p)

\* The open cases of a family on a subject are that of the head.
LEMMA OpenOnIs ==
  ASSUME ReproductionInv, TableInv, NEW a \in Overlay, NEW s \in Subjects
  PROVE  LET head == overlayHeads[<<a, s>>]
         IN  /\ head # None => head.caseId \in CaseIds
             /\ OpenOn(a, s) = IF head = None THEN {} ELSE {head.caseId}
<1> DEFINE head == overlayHeads[<<a, s>>]
<1>1. head \in OverlayHead \cup {None}
  BY DEF ReproductionInv, TypeOK
<1>2. head # None => head.caseId \in CaseIds /\ head.caseId \in OpenOn(a, s)
  BY <1>1 DEF TableInv, HeadTold, OpenOn, OverlayHead
<1>3. ASSUME NEW c \in OpenOn(a, s) PROVE head # None /\ head.caseId = c
  <2>1. c \in CaseIds /\ table[c].phase = "OPEN" /\ table[c].family = a
        /\ table[c].subject = s
    BY DEF OpenOn
  <2>2. CaseLive(c)
    BY <2>1 DEF TableInv, CaseTold
  <2>3. head = [action |-> Last(table[c].live), caseId |-> c]
    BY <2>1, <2>2 DEF CaseLive
  <2>4. Last(table[c].live) \in ActionRequest
    <3>1. table[c].live \in Seq(DOMAIN actions) /\ table[c].live # <<>>
      BY <2>2 DEF CaseLive
    <3>2. Last(table[c].live) \in DOMAIN actions
      BY <3>1 DEF Last
    <3> QED
      BY <3>2 DEF ReproductionInv, TypeOK, CommandsOK
  <2>5. head # None
    BY <2>1, <2>3, <2>4, ReproductionAssumption DEF ReproductionAssumption
  <2> QED
    BY <2>3, <2>5
<1> HIDE DEF head
<1>4. OpenOn(a, s) = IF head = None THEN {} ELSE {head.caseId}
  <2>1. CASE head = None
    BY <1>3, <2>1
  <2>2. CASE head # None
    BY <1>2, <1>3, <2>2
  <2> QED
    BY <2>1, <2>2
<1> QED
  BY <1>2, <1>4 DEF head

\* The target of a subject is that of its open case.
LEMMA TargetIs ==
  ASSUME ReproductionInv, TableInv, NEW s \in Subjects
  PROVE  Target(s) = frozenTarget[s]
<1> DEFINE head == overlayHeads[<<"FREEZE", s>>]
           open == OpenOn("FREEZE", s)
<1>1. /\ head # None => head.caseId \in CaseIds
      /\ open = IF head = None THEN {} ELSE {head.caseId}
  BY OpenOnIs DEF Overlay
<1>2. /\ head = None => frozenTarget[s] = 0
      /\ head # None => frozenTarget[s] = head.action.amount
  BY DEF ReproductionInv, FreezesNest
<1>3. CASE head = None
  BY <1>1, <1>2, <1>3 DEF Target
<1>4. CASE head # None
  <2>1. (CHOOSE c \in open : TRUE) = head.caseId
    BY <1>1, <1>4
  <2>2. Target(s) = Last(table[head.caseId].live).amount
    BY <1>1, <1>4, <2>1 DEF Target
  <2>3. /\ table[head.caseId].phase = "OPEN" /\ table[head.caseId].family = "FREEZE"
        /\ table[head.caseId].subject = s
    BY <1>4 DEF TableInv, HeadTold, Overlay
  <2>4. head = [action |-> Last(table[head.caseId].live), caseId |-> head.caseId]
    BY <1>1, <1>4, <2>3 DEF TableInv, CaseTold, CaseLive, Overlay
  <2>5. head.action = Last(table[head.caseId].live)
    BY <2>4
  <2> QED
    BY <1>2, <1>4, <2>2, <2>5
<1> QED
  BY <1>3, <1>4

\* When the tables give no reason, and the reasons they give.
LEMMA CaseReasonsAre ==
  ASSUME NEW r
  PROVE  LET c == table[r.caseId]
             open == c.phase = "OPEN"
             family == CASE r.action \in Overlay -> r.action
                         [] r.action = "SEIZE" -> "CUSTODY"
                         [] OTHER -> "DISPOSITION"
             own == IF r.action \in Overlay THEN OpenOn(family, r.subject) ELSE {}
             direction == r.action = "FREEZE" /\ r.amount <= Target(r.subject)
             conflict ==
               \/ own \ {r.caseId} # {}
               \/ open /\ r.action = "FREEZE" /\ r.caseId \notin own
               \/ open /\ c.family \in Overlay \ {family}
               \/ open /\ c.family = "CUSTODY" /\ r.action \in Overlay
             unchanged == open /\ {r.action, c.family} = {"RESTRICT"}
             held ==
               \/ open /\ c.family = "CUSTODY" /\ r.action = "SEIZE"
               \/ /\ open /\ c.family = "CUSTODY" /\ r.action \in Disposition
                  /\ <<r.source, r.subject, r.amount>> #
                       <<c.live[1].custodian, c.subject, c.live[1].amount>>
             elsewhere == ~ open /\ r.action \in Disposition /\ r.source # r.subject
             spent == r.action = "RECOVER" /\ r.entitlement \in Spent
         IN  /\ CaseReasons(r) \in Steps
             /\ direction => "FREEZE_DIRECTION" \in CaseReasons(r)
             /\ conflict => "CASE_CONFLICT" \in CaseReasons(r)
             /\ unchanged => "NO_STATE_CHANGE" \in CaseReasons(r)
             /\ held \/ elsewhere => "CUSTODY" \in CaseReasons(r)
             /\ spent => "ENTITLEMENT" \in CaseReasons(r)
             /\ ~ (direction \/ conflict \/ unchanged \/ held \/ elsewhere \/ spent) =>
                  CaseReasons(r) = {}
<1> DEFINE c == table[r.caseId]
           open == c.phase = "OPEN"
           family == CASE r.action \in Overlay -> r.action
                       [] r.action = "SEIZE" -> "CUSTODY"
                       [] OTHER -> "DISPOSITION"
           own == IF r.action \in Overlay THEN OpenOn(family, r.subject) ELSE {}
           direction == r.action = "FREEZE" /\ r.amount <= Target(r.subject)
           a == own \ {r.caseId} # {}
           b == open /\ r.action = "FREEZE" /\ r.caseId \notin own
           d == open /\ {r.action, c.family} = {"RESTRICT"}
           e == open /\ c.family \in Overlay \ {family}
           f == open /\ c.family = "CUSTODY" /\ r.action \in Overlay
           g == open /\ c.family = "CUSTODY" /\ r.action = "SEIZE"
           h == /\ open /\ c.family = "CUSTODY" /\ r.action \in Disposition
                /\ <<r.source, r.subject, r.amount>> #
                     <<c.live[1].custodian, c.subject, c.live[1].amount>>
           i == ~ open /\ r.action \in Disposition /\ r.source # r.subject
           j == r.action = "RECOVER" /\ r.entitlement \in Spent
           R == CaseReasons(r)
<1>1. R = UNION {When(direction, {"FREEZE_DIRECTION"}), When(a, {"CASE_CONFLICT"}),
                 When(b, {"CASE_CONFLICT"}), When(d, {"NO_STATE_CHANGE"}),
                 When(e, {"CASE_CONFLICT"}), When(f, {"CASE_CONFLICT"}),
                 When(g, {"CUSTODY"}), When(h, {"CUSTODY"}),
                 When(i, {"SHAPE", "CUSTODY"}), When(j, {"ENTITLEMENT"})}
  BY DEF CaseReasons
<1> HIDE DEF c, open, family, own, direction, a, b, d, e, f, g, h, i, j, R
<1>2. \A x : x \in R <=>
        \/ x \in When(direction, {"FREEZE_DIRECTION"}) \/ x \in When(a, {"CASE_CONFLICT"})
        \/ x \in When(b, {"CASE_CONFLICT"}) \/ x \in When(d, {"NO_STATE_CHANGE"})
        \/ x \in When(e, {"CASE_CONFLICT"}) \/ x \in When(f, {"CASE_CONFLICT"})
        \/ x \in When(g, {"CUSTODY"}) \/ x \in When(h, {"CUSTODY"})
        \/ x \in When(i, {"SHAPE", "CUSTODY"}) \/ x \in When(j, {"ENTITLEMENT"})
  BY <1>1
<1>3. \A x : x \in R <=>
        \/ direction /\ x = "FREEZE_DIRECTION"
        \/ (a \/ b \/ e \/ f) /\ x = "CASE_CONFLICT"
        \/ d /\ x = "NO_STATE_CHANGE"
        \/ (g \/ h \/ i) /\ x = "CUSTODY"
        \/ i /\ x = "SHAPE"
        \/ j /\ x = "ENTITLEMENT"
  BY <1>2 DEF When
<1>4. R \in Steps
  BY <1>3, ReasonsAre DEF Steps
<1>5. /\ direction => "FREEZE_DIRECTION" \in R
      /\ a \/ b \/ e \/ f => "CASE_CONFLICT" \in R
      /\ d => "NO_STATE_CHANGE" \in R
      /\ g \/ h \/ i => "CUSTODY" \in R
      /\ j => "ENTITLEMENT" \in R
      /\ ~ (direction \/ a \/ b \/ d \/ e \/ f \/ g \/ h \/ i \/ j) => R = {}
  BY <1>3
<1> QED
  BY <1>4, <1>5 DEF c, open, family, own, direction, a, b, d, e, f, g, h, i, j, R

\* What is known of an open case.
LEMMA OpenCase ==
  ASSUME ReproductionInv, TableInv, NEW c \in CaseIds, table[c].phase = "OPEN"
  PROVE  LET live == table[c].live
             family == table[c].family
         IN  /\ CaseLive(c) /\ cases[c].phase = "OPEN" /\ cases[c].family = family
             /\ Len(live) \in Nat \ {0} /\ DOMAIN live = 1 .. Len(live)
             /\ \A i \in 1 .. Len(live) :
                  /\ live[i] \in DOMAIN actions /\ live[i] \in ActionRequest
                  /\ live[i].caseId = c /\ live[i].subject = table[c].subject
             /\ Last(live) = live[Len(live)]
             /\ live[1].action = IF family = "CUSTODY" THEN "SEIZE" ELSE family
<1> DEFINE live == table[c].live
           family == table[c].family
<1>1. /\ CaseLive(c) /\ cases[c].phase = "OPEN"
      /\ live \in Seq(DOMAIN actions) /\ live # <<>> /\ cases[c].family = family
      /\ family \in Overlay \cup {"CUSTODY"}
      /\ \A i \in DOMAIN live : live[i].caseId = c /\ live[i].subject = table[c].subject
  BY DEF TableInv, CaseTold, CaseLive
<1>2. /\ Len(live) \in Nat \ {0} /\ DOMAIN live = 1 .. Len(live)
      /\ \A i \in 1 .. Len(live) : live[i] \in DOMAIN actions
      /\ Last(live) = live[Len(live)]
  <2> HIDE DEF live
  <2> QED
    BY <1>1 DEF Last
<1>3. DOMAIN actions \subseteq ActionRequest
  BY DEF ReproductionInv, TypeOK, CommandsOK
<1>4. live[1].action = IF family = "CUSTODY" THEN "SEIZE" ELSE family
  <2>1. /\ live[1] \in DOMAIN actions /\ live[1] \in ActionRequest /\ live[1].caseId = c
        /\ ActionTold(live[1])
    BY <1>1, <1>2, <1>3 DEF TableInv
  <2>2. IF live[1].action = "SEIZE" THEN family = "CUSTODY" ELSE live[1].action = family
    BY <2>1 DEF ActionTold
  <2>3. live[1].action # "CUSTODY"
    BY <2>1 DEF ActionRequest, Overlay, Disposition
  <2> QED
    BY <2>2, <2>3
<1> QED
  BY <1>1, <1>2, <1>3, <1>4

\* In a case that is open for the family of a shape, its subject is that of the case.
LEMMA SameSubject ==
  ASSUME Regular(Shapes, Pairs), ReproductionInv, TableInv, NEW r \in ActionRequest,
         \E x \in Shapes : r = [x EXCEPT !.nonce = r.nonce], r.action \in Overlay,
         table[r.caseId].phase = "OPEN", table[r.caseId].family = r.action
  PROVE  /\ table[r.caseId].subject = r.subject
         /\ overlayHeads[<<r.action, r.subject>>] # None
         /\ overlayHeads[<<r.action, r.subject>>].caseId = r.caseId
         /\ overlayHeads[<<r.action, r.subject>>].action = Last(table[r.caseId].live)
<1> DEFINE c == r.caseId
           p == table[c].live[1]
<1>1. c \in CaseIds /\ r.subject \in Subjects
  BY DEF ActionRequest
<1>2. /\ CaseLive(c) /\ p \in DOMAIN actions /\ p \in ActionRequest
      /\ p.caseId = c /\ p.action = r.action /\ p.subject = table[c].subject
  BY <1>1, OpenCase DEF Overlay
<1>3. p.subject = r.subject
  <2>1. PICK x \in Shapes : r = [x EXCEPT !.nonce = r.nonce]
    OBVIOUS
  <2>2. PICK y \in Shapes : p = [y EXCEPT !.nonce = p.nonce]
    BY <1>2 DEF TableInv, ActionTold
  <2>3. x \in ActionRequest /\ y \in ActionRequest
    BY ReproductionAssumption DEF ReproductionAssumption
  <2>4. /\ x.action = r.action /\ x.caseId = r.caseId /\ x.subject = r.subject
        /\ y.action = p.action /\ y.caseId = p.caseId /\ y.subject = p.subject
    BY <2>1, <2>2, <2>3 DEF ActionRequest
  <2> QED
    BY <1>2, <2>4 DEF Regular
<1>4. overlayHeads[<<r.action, r.subject>>] = [action |-> Last(table[c].live), caseId |-> c]
  BY <1>2, <1>3 DEF CaseLive
<1>5. overlayHeads[<<r.action, r.subject>>] # None
  <2>1. r.caseId \in OpenOn(r.action, r.subject)
    BY <1>1, <1>2, <1>3 DEF OpenOn
  <2> QED
    BY <1>1, <2>1, OpenOnIs
<1> QED
  BY <1>2, <1>3, <1>4, <1>5

\* What the fields and the case give.
LastAnswer(r) ==
  IF Answer(FieldRules(r)) # "ok" THEN Answer(FieldRules(r)) ELSE CaseAnswerOf(r)
LastReasons(r) == When(~ ShapeHolds(r), {"SHAPE"}) \cup CaseReasons(r)

\* The last step of the order: the program answers one of its reasons.
LEMMA LastStep ==
  ASSUME Regular(Shapes, Pairs), ReproductionInv, TableInv, NEW r \in ActionRequest,
         \E x \in Shapes : r = [x EXCEPT !.nonce = r.nonce],
         cases[r.caseId].phase # "TERMINAL"
  PROVE  /\ LastReasons(r) \in Steps
         /\ IF LastAnswer(r) = "ok" THEN LastReasons(r) = {}
                                    ELSE LastAnswer(r) \in LastReasons(r)
<1> DEFINE c == table[r.caseId]
           open == c.phase = "OPEN"
           overlay == r.action \in Overlay
           disposes == r.action \in Disposition
           head == IF overlay THEN overlayHeads[<<r.action, r.subject>>] ELSE None
           family == CASE overlay -> r.action
                       [] r.action = "SEIZE" -> "CUSTODY"
                       [] OTHER -> "DISPOSITION"
           own == IF overlay THEN OpenOn(family, r.subject) ELSE {}
           inCustody == IsOpen(r, {"CUSTODY"})
           low == r.action = "FREEZE" /\ r.amount <= frozenTarget[r.subject]
           spent == r.action = "RECOVER" /\ r.entitlement \in consumedEntitlements
           differs == <<r.source, r.subject, r.amount>> #
                        <<c.live[1].custodian, c.subject, c.live[1].amount>>
           R == CaseReasons(r)
<1>1. /\ r.caseId \in CaseIds /\ r.subject \in Subjects
      /\ r.action \in Overlay \cup Disposition \cup {"SEIZE"}
  BY DEF ActionRequest
<1>2. /\ c.phase = cases[r.caseId].phase /\ c.phase \in {"NONE", "OPEN"}
      /\ open => c.family = cases[r.caseId].family /\ c.family \in Overlay \cup {"CUSTODY"}
  <2>1. c.phase = cases[r.caseId].phase /\ cases[r.caseId].phase \in {"NONE", "OPEN"}
    BY <1>1 DEF TableInv, CaseTold, ReproductionInv, TypeOK, Case
  <2>2. open => CaseLive(r.caseId)
    BY <1>1 DEF TableInv, CaseTold
  <2> QED
    BY <2>1, <2>2 DEF CaseLive
<1>3. /\ inCustody <=> open /\ c.family = "CUSTODY"
      /\ IsOpen(r, Overlay \ {r.action}) <=> open /\ c.family \in Overlay \ {r.action}
  BY <1>2 DEF IsOpen
<1>4. low <=> r.action = "FREEZE" /\ r.amount <= Target(r.subject)
  BY <1>1, TargetIs
<1>5. spent <=> r.action = "RECOVER" /\ r.entitlement \in Spent
  BY DEF TableInv
<1>6. own = IF head = None THEN {} ELSE {head.caseId}
  <2>1. CASE overlay
    <3>1. own = OpenOn(r.action, r.subject) /\ head = overlayHeads[<<r.action, r.subject>>]
      BY <2>1 DEF Overlay
    <3> HIDE DEF own, head
    <3> QED
      BY <1>1, <2>1, <3>1, OpenOnIs
  <2>2. CASE ~ overlay
    BY <2>2
  <2> QED
    BY <2>1, <2>2
<1>7. overlay /\ open /\ c.family = r.action => head # None /\ head.caseId = r.caseId
  BY SameSubject
<1>8. inCustody => (MatchesCustody(r) <=> ~ differs)
  <2>1. SUFFICES ASSUME open, c.family = "CUSTODY" PROVE MatchesCustody(r) <=> ~ differs
    BY <1>3
  <2>2. /\ custody[r.caseId] # None /\ CustodyOf(r.caseId)
        /\ custody[r.caseId].action = c.live[1]
        /\ c.live[1].subject = c.subject
    <3> HIDE DEF R, own, head, family, inCustody, low, spent, differs
    <3>1. /\ CaseLive(r.caseId) /\ cases[r.caseId].phase = "OPEN"
          /\ cases[r.caseId].family = "CUSTODY" /\ 1 \in 1 .. Len(c.live)
          /\ \A i \in 1 .. Len(c.live) : c.live[i].subject = c.subject
      BY <1>1, <2>1, OpenCase
    <3>2. CustodyOf(r.caseId)
      BY <1>1 DEF ReproductionInv
    <3> QED
      BY <2>1, <3>1, <3>2 DEF CaseLive, CustodyOf
  <2>3. /\ custody[r.caseId].custodian = c.live[1].custodian
        /\ custody[r.caseId].priorHolder = c.subject
        /\ custody[r.caseId].amount = c.live[1].amount
    BY <2>2 DEF CustodyOf
  <2> QED
    BY <2>2, <2>3 DEF MatchesCustody
<1>9. head # None /\ r.action = "RESTRICT" /\ head.caseId = r.caseId =>
        open /\ {r.action, c.family} = {"RESTRICT"}
  BY <1>1 DEF TableInv, HeadTold, Overlay
<1>10. /\ R \in Steps
       /\ low => "FREEZE_DIRECTION" \in R
       /\ \/ own \ {r.caseId} # {}
          \/ open /\ c.family \in Overlay \ {family}
          \/ open /\ c.family = "CUSTODY" /\ overlay
          => "CASE_CONFLICT" \in R
       /\ open /\ {r.action, c.family} = {"RESTRICT"} => "NO_STATE_CHANGE" \in R
       /\ \/ open /\ c.family = "CUSTODY" /\ r.action = "SEIZE"
          \/ open /\ c.family = "CUSTODY" /\ disposes /\ differs
          \/ ~ open /\ disposes /\ r.source # r.subject
          => "CUSTODY" \in R
       /\ spent => "ENTITLEMENT" \in R
       /\ ~ (\/ low \/ own \ {r.caseId} # {}
             \/ open /\ r.action = "FREEZE" /\ r.caseId \notin own
             \/ open /\ c.family \in Overlay \ {family}
             \/ open /\ c.family = "CUSTODY" /\ overlay
             \/ open /\ {r.action, c.family} = {"RESTRICT"}
             \/ open /\ c.family = "CUSTODY" /\ r.action = "SEIZE"
             \/ open /\ c.family = "CUSTODY" /\ disposes /\ differs
             \/ ~ open /\ disposes /\ r.source # r.subject
             \/ spent) => R = {}
  BY <1>4, <1>5, CaseReasonsAre
<1>11. /\ Answer(FieldRules(r)) = IF ~ ShapeHolds(r) THEN "SHAPE"
                                  ELSE IF low THEN "FREEZE_DIRECTION"
                                  ELSE IF spent THEN "ENTITLEMENT" ELSE "ok"
       /\ CaseAnswerOf(r) =
            IF IsOpen(r, Overlay \ {r.action}) \/ (inCustody /\ overlay)
            THEN "CASE_CONFLICT"
            ELSE IF (inCustody /\ r.action = "SEIZE")
                      \/ (inCustody /\ disposes /\ ~ MatchesCustody(r)) THEN "CUSTODY"
            ELSE IF head # None /\ head.caseId # r.caseId THEN "CASE_CONFLICT"
            ELSE IF head # None /\ r.action = "RESTRICT" THEN "NO_STATE_CHANGE"
            ELSE IF disposes /\ ~ inCustody /\ cases[r.caseId].phase # "NONE"
            THEN "CASE_CONFLICT"
            ELSE IF disposes /\ ~ inCustody /\ r.source # r.subject THEN "CUSTODY" ELSE "ok"
  BY <1>1, FieldAnswer DEF CaseAnswerOf
<1>12. LastReasons(r) = (IF ShapeHolds(r) THEN {} ELSE {"SHAPE"}) \cup R
  BY DEF LastReasons, When
<1>13. family \in {r.action, "CUSTODY", "DISPOSITION"} /\ (overlay => family = r.action)
       /\ (~ overlay => family \notin Overlay /\ r.action \notin Overlay)
       /\ overlay \in BOOLEAN /\ disposes \in BOOLEAN /\ inCustody \in BOOLEAN
       /\ (r.action = "SEIZE" => ~ overlay /\ ~ disposes)
       /\ (overlay => ~ disposes) /\ (r.action = "FREEZE" => overlay)
       /\ (r.action = "RESTRICT" => overlay)
       /\ (~ overlay /\ ~ disposes => r.action = "SEIZE")
       /\ (~ overlay => head = None)
       /\ (overlay => r.action \in {"FREEZE", "RESTRICT"})
  BY <1>1 DEF Overlay, Disposition, IsOpen
<1> HIDE DEF R, own, head, family, inCustody, low, spent, differs
<1>14. LastReasons(r) \in Steps
  BY <1>10, <1>12, ReasonsAre DEF Steps
<1>15. CASE Answer(FieldRules(r)) # "ok"
  BY <1>10, <1>11, <1>12, <1>14, <1>15 DEF LastAnswer
<1>16. CASE Answer(FieldRules(r)) = "ok"
  <2>1. ShapeHolds(r) /\ ~ low /\ ~ spent /\ LastAnswer(r) = CaseAnswerOf(r)
        /\ LastReasons(r) = R
    BY <1>11, <1>12, <1>16 DEF LastAnswer
  <2>2. CASE IsOpen(r, Overlay \ {r.action}) \/ (inCustody /\ overlay)
    BY <1>3, <1>10, <1>11, <1>13, <1>14, <2>1, <2>2
  <2>3. CASE /\ ~ (IsOpen(r, Overlay \ {r.action}) \/ (inCustody /\ overlay))
             /\ (inCustody /\ r.action = "SEIZE")
                  \/ (inCustody /\ disposes /\ ~ MatchesCustody(r))
    BY <1>3, <1>8, <1>10, <1>11, <1>14, <2>1, <2>3
  <2> DEFINE free == /\ ~ (open /\ c.family \in Overlay \ {r.action})
                     /\ ~ (inCustody /\ overlay) /\ ~ (inCustody /\ r.action = "SEIZE")
                     /\ ~ (inCustody /\ disposes /\ ~ MatchesCustody(r))
  <2>4. CASE free /\ head # None /\ head.caseId # r.caseId
    BY <1>3, <1>6, <1>10, <1>11, <1>14, <2>1, <2>4
  <2>5. CASE free /\ head # None /\ head.caseId = r.caseId /\ r.action = "RESTRICT"
    BY <1>3, <1>9, <1>10, <1>11, <1>14, <2>1, <2>5
  <2>6. free /\ disposes /\ ~ inCustody => cases[r.caseId].phase = "NONE" /\ ~ open
    BY <1>2, <1>3, <1>13
  <2>7. CASE /\ free /\ ~ (head # None /\ head.caseId # r.caseId)
             /\ ~ (head # None /\ r.action = "RESTRICT")
             /\ disposes /\ ~ inCustody /\ r.source # r.subject
    BY <1>3, <1>10, <1>11, <1>14, <2>1, <2>6, <2>7
  <2>8. CASE /\ free /\ ~ (head # None /\ head.caseId # r.caseId)
             /\ ~ (head # None /\ r.action = "RESTRICT")
             /\ ~ (disposes /\ ~ inCustody /\ r.source # r.subject)
    <3>1. LastAnswer(r) = "ok"
      BY <1>3, <1>11, <2>1, <2>6, <2>8
    <3>2. own \ {r.caseId} = {}
      BY <1>6, <2>8
    <3>3. ~ (open /\ c.family \in Overlay \ {family})
      BY <1>2, <1>13, <2>6, <2>8
    <3>4. ~ (open /\ r.action = "FREEZE" /\ r.caseId \notin own)
      BY <1>2, <1>3, <1>6, <1>7, <1>13, <2>8
    <3>5. ~ (open /\ {r.action, c.family} = {"RESTRICT"})
      BY <1>7, <1>13, <2>8
    <3>6. ~ (open /\ c.family = "CUSTODY" /\ disposes /\ differs)
      BY <1>3, <1>8, <2>8
    <3>7. ~ (~ open /\ disposes /\ r.source # r.subject)
      BY <1>3, <2>8
    <3>8. R = {}
      BY <1>3, <1>10, <2>1, <2>8, <3>2, <3>3, <3>4, <3>5, <3>6, <3>7
    <3> QED
      BY <1>14, <2>1, <3>1, <3>8
  <2> QED
    BY <1>3, <2>2, <2>3, <2>4, <2>5, <2>7, <2>8
<1> QED
  BY <1>15, <1>16
-----------------------------------------------------------------------------
(* The same verdicts *)

\* What has been spent is what has been applied.
LEMMA ReplayAgrees ==
  ASSUME TableInv, NEW r
  PROVE  r \in consumedCommandIds \/ r.nonce \in consumedNonces <=>
           r \in applied \/ \E x \in applied : x.nonce = r.nonce
BY DEF TableInv

\* The answer to an action is one the tables give.
LEMMA ActionAgrees ==
  ASSUME Regular(Shapes, Pairs), ReproductionInv, TableInv, NEW r \in Requests
  PROVE  ActionVerdict(r) \in ActionAnswers(r)
<1>1. /\ r \in ActionRequest /\ r.caseId \in CaseIds
      /\ r.action \in Overlay \cup Disposition \cup {"SEIZE"}
      /\ \E x \in Shapes : r = [x EXCEPT !.nonce = r.nonce]
  BY RequestIs DEF ReproductionInv, ActionRequest
<1>2. "SHAPE" \notin r.wrong
  <2>1. PICK x \in Shapes : r = [x EXCEPT !.nonce = r.nonce]
    BY <1>1
  <2>2. r.wrong = x.wrong
    BY <2>1, ReproductionAssumption DEF ReproductionAssumption, ActionRequest
  <2> QED
    BY <2>2 DEF Regular
<1>3. r \in applied => r.wrong = {}
  BY <1>1 DEF TableInv, ReproductionInv, TypeOK, CommandsOK, ActionTold
<1> DEFINE P == Preliminaries(r)
           closed == cases[r.caseId].phase = "TERMINAL"
           T == When(table[r.caseId].phase = "TERMINAL", {"TrustTerminal"})
           L == LastReasons(r)
           again == r \in applied \/ \E x \in applied : x.nonce = r.nonce
<1>4. /\ P \in Seq(Steps)
      /\ Step(P) = IF "DOMAIN" \in r.wrong THEN {"DOMAIN"}
                   ELSE IF "IDENTIFIER" \in r.wrong THEN {"IDENTIFIER"}
                   ELSE IF "TIME" \in r.wrong THEN {"TIME"}
                   ELSE IF "DEPENDENCY_BINDING" \in r.wrong THEN {"DEPENDENCY_BINDING"}
                   ELSE IF again THEN {"TrustReplay"} ELSE {"ok"}
  BY <1>2, <1>3, PreliminariesStep
<1>5. T = IF closed THEN {"TrustTerminal"} ELSE {}
  BY <1>1 DEF When, TableInv, CaseTold
<1>6. T \in Steps /\ L \in Steps
  <2>1. T \in Steps
    BY <1>5, ReasonsAre DEF Steps
  <2>2. L \in Steps
    <3>1. CaseReasons(r) \in Steps
      BY CaseReasonsAre
    <3> QED
      BY <3>1, ReasonsAre DEF LastReasons, When, Steps
  <2> QED
    BY <2>1, <2>2
<1>7. ~ closed => IF LastAnswer(r) = "ok" THEN L = {} ELSE LastAnswer(r) \in L
  BY <1>1, LastStep
<1>8. ActionAnswers(r) = Step(P \o <<T, L>>)
  BY DEF ActionAnswers, LastReasons
<1>9. ActionVerdict(r) =
        IF "DOMAIN" \in r.wrong THEN "DOMAIN"
        ELSE IF "IDENTIFIER" \in r.wrong THEN "IDENTIFIER"
        ELSE IF "TIME" \in r.wrong THEN "TIME"
        ELSE IF "DEPENDENCY_BINDING" \in r.wrong THEN "DEPENDENCY_BINDING"
        ELSE IF again THEN "TrustReplay"
        ELSE IF closed THEN "TrustTerminal" ELSE LastAnswer(r)
  <2>1. again <=> r \in consumedCommandIds \/ r.nonce \in consumedNonces
    BY ReplayAgrees
  <2>2. /\ Answer(CommonChecks(r)) =
             IF "DOMAIN" \in r.wrong THEN "DOMAIN"
             ELSE IF "IDENTIFIER" \in r.wrong THEN "IDENTIFIER"
             ELSE IF "TIME" \in r.wrong THEN "TIME"
             ELSE IF "DEPENDENCY_BINDING" \in r.wrong THEN "DEPENDENCY_BINDING"
             ELSE "ok"
        /\ Answer(ReplayChecks(r)) = IF again THEN "TrustReplay" ELSE "ok"
    BY <1>2, <2>1, CommonAnswer, ReplayAnswer
  <2>3. ActionVerdict(r) =
          IF Answer(CommonChecks(r)) # "ok" THEN Answer(CommonChecks(r))
          ELSE IF Answer(ReplayChecks(r)) # "ok" THEN Answer(ReplayChecks(r))
          ELSE IF closed THEN "TrustTerminal" ELSE LastAnswer(r)
    BY <1>1, ActionLadder DEF LastAnswer
  <2> HIDE DEF again, closed
  <2> QED
    BY <2>2, <2>3
<1> HIDE DEF P, T, L, closed, again
<1>10. Step(P \o <<T, L>>) = IF Step(P) # {"ok"} THEN Step(P) ELSE IF T # {} THEN T
                             ELSE IF L # {} THEN L ELSE {"ok"}
  <2>1. /\ <<T, L>> \in Seq(Steps)
        /\ Step(<<T, L>>) = IF T # {} THEN T ELSE IF L # {} THEN L ELSE {"ok"}
    BY <1>6, StepTwo
  <2> QED
    BY <1>4, <2>1, StepAfter
<1>11. CASE Step(P) # {"ok"}
  <2>1. ActionAnswers(r) = Step(P)
    BY <1>8, <1>10, <1>11
  <2> QED
    BY <1>4, <1>9, <1>11, <2>1
<1>12. CASE Step(P) = {"ok"}
  <2>1. ActionVerdict(r) = IF closed THEN "TrustTerminal" ELSE LastAnswer(r)
    BY <1>4, <1>9, <1>12
  <2>2. ActionAnswers(r) = IF T # {} THEN T ELSE IF L # {} THEN L ELSE {"ok"}
    BY <1>8, <1>10, <1>12
  <2> QED
    BY <1>5, <1>7, <2>1, <2>2
<1> QED
  BY <1>11, <1>12

\* What a reversal that is offered is.
LEMMA ReversalIs ==
  ASSUME ReproductionInv, NEW v \in Reversals
  PROVE  /\ v.wrong = {} /\ v.action \in ActionRequest /\ v.nonce \in Nat
         /\ <<v.reversal, v.action.action>> \in Pairs /\ v.reversal \in DOMAIN Reverses
<1>1. PICK D : D = DOMAIN actions \cup {CHOOSE x \in Shapes : TRUE}
  OBVIOUS
<1>2. D \subseteq ActionRequest
  BY <1>1, ReproductionAssumption
     DEF ReproductionAssumption, ReproductionInv, TypeOK, CommandsOK
<1>3. PICK x \in Pairs \X D \X NoncesOffered :
        x[1][2] = x[2].action /\ v = ReversalVector(x[1][1], x[2], x[3])
  BY <1>1 DEF Reversals
<1>4. /\ x[1] \in Pairs /\ x[2] \in D /\ x[3] \in Nat
      /\ x[1] = <<x[1][1], x[1][2]>> /\ x[1][1] \in DOMAIN Reverses
  BY NoncesAre, ReproductionAssumption DEF ReproductionAssumption, ReproductionInv
<1>5. v = [reversal |-> x[1][1], action |-> x[2], nonce |-> x[3], wrong |-> {}]
  BY <1>3 DEF ReversalVector
<1> QED
  BY <1>2, <1>3, <1>4, <1>5

\* The answer to a reversal is one the tables give.
LEMMA ReversalAgrees ==
  ASSUME Regular(Shapes, Pairs), ReproductionInv, TableInv, NEW v \in Reversals
  PROVE  ReversalVerdict(v) \in ReversalAnswers(v)
<1> DEFINE q == v.action
           c == table[q.caseId]
           again == v \in applied \/ \E x \in applied : x.nonce = v.nonce
           known == q \in DOMAIN actions
           closed == cases[q.caseId].phase = "TERMINAL"
           pairs == Reverses[v.reversal] = q.action
           P == Preliminaries(v)
           x == When(q \in applied /\ c.phase = "TERMINAL", {"TrustTerminal"})
           y == When(q \notin applied \/ q \notin Range(c.live), {"CURRENT_EFFECT"})
           z == When(Reverses[v.reversal] # q.action, {"REVERSAL_PAIRING"})
           w == When(c.live # <<>> /\ Last(c.live) # q, {"CURRENT_EFFECT"})
<1>1. /\ v.wrong = {} /\ q \in ActionRequest /\ q.caseId \in CaseIds
      /\ <<v.reversal, q.action>> \in Pairs /\ v.reversal \in DOMAIN Reverses
  BY ReversalIs DEF ActionRequest
<1>2. q \in applied <=> known
  BY <1>1 DEF TableInv, ReproductionInv, TypeOK, CommandsOK
<1>3. c.phase = cases[q.caseId].phase
  BY <1>1 DEF TableInv, CaseTold
<1>4. P \in Seq(Steps) /\ Step(P) = IF again THEN {"TrustReplay"} ELSE {"ok"}
  BY <1>1, PreliminariesStep
<1>5. /\ x = IF known /\ closed THEN {"TrustTerminal"} ELSE {}
      /\ y = IF ~ known \/ q \notin Range(c.live) THEN {"CURRENT_EFFECT"} ELSE {}
      /\ z = IF ~ pairs THEN {"REVERSAL_PAIRING"} ELSE {}
      /\ w = IF c.live # <<>> /\ Last(c.live) # q THEN {"CURRENT_EFFECT"} ELSE {}
  BY <1>2, <1>3 DEF When
<1>6. /\ ReversalAnswers(v) = Step(P \o <<x, y, z, w>>)
      /\ ReversalVerdict(v) = IF again THEN "TrustReplay" ELSE ReversalAnswerOf(v)
  <2>1. again <=> v \in consumedCommandIds \/ v.nonce \in consumedNonces
    BY ReplayAgrees
  <2>2. Answer(CommonChecks(v)) = "ok"
    BY <1>1, CommonAnswer
  <2>3. Answer(ReplayChecks(v)) = IF again THEN "TrustReplay" ELSE "ok"
    BY <2>1, ReplayAnswer
  <2>4. ReversalAnswers(v) = Step(P \o <<x, y, z, w>>)
    BY DEF ReversalAnswers
  <2> HIDE DEF again
  <2> QED
    BY <2>2, <2>3, <2>4, ReversalLadder
<1>7. known /\ ~ closed => c.phase = "OPEN"
  BY <1>1, <1>3 DEF TableInv, TableCase, ActionTold
<1>8. known /\ ~ closed /\ q.action # "FREEZE" => q \in Range(c.live) /\ Last(c.live) = q
  <2> SUFFICES ASSUME known, c.phase = "OPEN", q.action # "FREEZE"
               PROVE  q \in Range(c.live) /\ Last(c.live) = q
    BY <1>7
  <2>1. /\ CaseLive(q.caseId) /\ Len(c.live) \in Nat \ {0}
        /\ DOMAIN c.live = 1 .. Len(c.live) /\ Last(c.live) = c.live[Len(c.live)]
    BY <1>1, OpenCase
  <2>2. c.family # "FREEZE" /\ q = c.live[1]
    BY DEF TableInv, ActionTold
  <2>3. Len(c.live) = 1
    BY <2>1, <2>2 DEF CaseLive
  <2> QED
    BY <2>1, <2>2, <2>3 DEF Range
<1>9. known /\ ~ closed /\ q.action \in Overlay => (IsHead(q) <=> Last(c.live) = q)
  <2> SUFFICES ASSUME known, c.phase = "OPEN", q.action \in Overlay
               PROVE  IsHead(q) <=> Last(c.live) = q
    BY <1>7
  <2>1. c.family = q.action /\ c.subject = q.subject
    BY DEF TableInv, ActionTold, Overlay
  <2>2. overlayHeads[<<q.action, q.subject>>] =
          [action |-> Last(c.live), caseId |-> q.caseId]
    BY <1>1, <2>1, OpenCase DEF CaseLive
  <2>3. overlayHeads[<<q.action, q.subject>>] # None
    <3>1. q.subject \in Subjects /\ q.caseId \in OpenOn(q.action, q.subject)
      BY <1>1, <2>1 DEF OpenOn, ActionRequest
    <3> QED
      BY <3>1, OpenOnIs
  <2> QED
    BY <2>2, <2>3 DEF IsHead
<1>10. known /\ ~ closed /\ q.action = "SEIZE" =>
         custody[q.caseId] # None /\ custody[q.caseId].action = q
  <2> SUFFICES ASSUME known, c.phase = "OPEN", q.action = "SEIZE"
               PROVE  custody[q.caseId] # None /\ custody[q.caseId].action = q
    BY <1>7
  <2>1. c.family = "CUSTODY" /\ q = c.live[1]
    BY DEF TableInv, ActionTold
  <2>2. /\ CaseLive(q.caseId) /\ cases[q.caseId].phase = "OPEN"
        /\ cases[q.caseId].family = "CUSTODY"
    BY <1>1, <2>1, OpenCase
  <2> QED
    BY <1>1, <2>1, <2>2 DEF CaseLive, ReproductionInv, CustodyOf
<1>11. known /\ ~ closed =>
         /\ c.live # <<>>
         /\ Last(c.live) = q => q \in Range(c.live)
         /\ q.action \in Overlay \cup {"SEIZE"}
  <2> SUFFICES ASSUME known, c.phase = "OPEN"
               PROVE  /\ c.live # <<>> /\ Last(c.live) = q => q \in Range(c.live)
                      /\ q.action \in Overlay \cup {"SEIZE"}
    BY <1>1, <1>7, OpenCase
  <2>1. /\ CaseLive(q.caseId) /\ Len(c.live) \in Nat \ {0}
        /\ DOMAIN c.live = 1 .. Len(c.live) /\ Last(c.live) = c.live[Len(c.live)]
    BY <1>1, OpenCase
  <2>2. q.action \in Overlay \cup {"SEIZE"}
    <3>1. /\ IF q.action = "SEIZE" THEN c.family = "CUSTODY" ELSE q.action = c.family
          /\ q.action # "CUSTODY" /\ c.family \in Overlay \cup {"CUSTODY"}
      BY <1>1, <2>1 DEF TableInv, ActionTold, CaseLive, ActionRequest, Overlay, Disposition
    <3> QED
      BY <3>1
  <2> QED
    BY <2>1, <2>2 DEF Range
<1>12. ~ pairs => q.action # "FREEZE"
  <2>1. /\ <<v.reversal, q.action>>[1] = v.reversal
        /\ <<v.reversal, q.action>>[2] = q.action
    OBVIOUS
  <2> QED
    BY <1>1, <2>1 DEF Regular
<1>13. ReversalAnswerOf(v) =
         IF ~ known THEN "CURRENT_EFFECT" ELSE IF closed THEN "TrustTerminal"
         ELSE IF ~ pairs THEN "REVERSAL_PAIRING"
         ELSE IF q.action = "SEIZE" /\ custody[q.caseId] = None THEN "CUSTODY"
         ELSE IF \/ q.action = "SEIZE" /\ custody[q.caseId] # None
                      /\ custody[q.caseId].action # q
                 \/ q.action \in Overlay /\ ~ IsHead(q)
         THEN "CURRENT_EFFECT" ELSE "ok"
  BY DEF ReversalAnswerOf
<1> HIDE DEF P, x, y, z, w, again, known, closed, pairs
<1>14. Step(P \o <<x, y, z, w>>) =
         IF again THEN {"TrustReplay"}
         ELSE IF x # {} THEN x ELSE IF y # {} THEN y ELSE IF z # {} THEN z
         ELSE IF w # {} THEN w ELSE {"ok"}
  <2>1. x \in Steps /\ y \in Steps /\ z \in Steps /\ w \in Steps
    BY <1>5, ReasonsAre DEF Steps
  <2>2. /\ <<x, y, z, w>> \in Seq(Steps)
        /\ Step(<<x, y, z, w>>) = IF x # {} THEN x ELSE IF y # {} THEN y
                                  ELSE IF z # {} THEN z ELSE IF w # {} THEN w ELSE {"ok"}
    BY <2>1, StepFour
  <2> QED
    BY <1>4, <2>2, StepAfter
<1>15. ReversalAnswers(v) =
         IF again THEN {"TrustReplay"} ELSE IF known /\ closed THEN {"TrustTerminal"}
         ELSE IF ~ known \/ q \notin Range(c.live) THEN {"CURRENT_EFFECT"}
         ELSE IF ~ pairs THEN {"REVERSAL_PAIRING"}
         ELSE IF c.live # <<>> /\ Last(c.live) # q THEN {"CURRENT_EFFECT"} ELSE {"ok"}
  BY <1>5, <1>6, <1>14
<1>16. CASE again \/ ~ known \/ closed
  BY <1>6, <1>13, <1>15, <1>16
<1>17. CASE ~ again /\ known /\ ~ closed /\ ~ pairs
  BY <1>6, <1>8, <1>12, <1>13, <1>15, <1>17
<1>18. CASE ~ again /\ known /\ ~ closed /\ pairs
  <2>1. q.action # "FREEZE" => q \in Range(c.live) /\ Last(c.live) = q
    BY <1>8, <1>18
  <2>2. ReversalVerdict(v) = IF Last(c.live) = q THEN "ok" ELSE "CURRENT_EFFECT"
    <3>1. CASE q.action = "SEIZE"
      BY <1>6, <1>10, <1>13, <1>18, <2>1, <3>1 DEF Overlay
    <3>2. CASE q.action \in Overlay
      BY <1>6, <1>9, <1>13, <1>18, <3>2 DEF Overlay
    <3> QED
      BY <1>11, <1>18, <3>1, <3>2
  <2>3. ReversalAnswers(v) = IF Last(c.live) = q THEN {"ok"} ELSE {"CURRENT_EFFECT"}
    BY <1>11, <1>15, <1>18
  <2> QED
    BY <2>2, <2>3
<1> QED
  BY <1>16, <1>17, <1>18
-----------------------------------------------------------------------------
(* What the tables know after a command *)

\* Entitlements are spent by the recoveries that were applied.
LEMMA SpentByAction ==
  ASSUME NEW r \in ActionRequest, applied' = applied \cup {r}
  PROVE  Spent' = Spent \cup ({r.entitlement} \ {Zero})
<1>1. "entitlement" \in DOMAIN r
  BY DEF ActionRequest
<1> QED
  BY <1>1 DEF Spent

\* A reversal names no entitlement.
LEMMA SpentByReversal ==
  ASSUME NEW v \in Reversal, applied' = applied \cup {v} PROVE Spent' = Spent
<1>1. "entitlement" \notin DOMAIN v
  BY DEF Reversal
<1> QED
  BY <1>1 DEF Spent

\* A case that the command is not about.
LEMMA CaseApart ==
  ASSUME ReproductionInv, TableInv, NEW c \in CaseIds, NEW d \in CaseIds, d # c,
         table'[d] = table[d], cases'[d] = cases[d], custody'[d] = custody[d],
         DOMAIN actions \subseteq DOMAIN actions',
         \A p \in DOMAIN actions : actions'[p] = actions[p],
         \A a \in Overlay, s \in Subjects :
           overlayHeads[<<a, s>>] # None /\ overlayHeads[<<a, s>>].caseId # c =>
             overlayHeads'[<<a, s>>] = overlayHeads[<<a, s>>]
  PROVE  CaseTold(d)'
<1>1. CaseTold(d)
  BY DEF TableInv
<1>2. CASE table[d].phase # "OPEN"
  BY <1>1, <1>2 DEF CaseTold
<1>3. CASE table[d].phase = "OPEN"
  <2> DEFINE live == table[d].live
             family == table[d].family
             subject == table[d].subject
  <2>1. /\ CaseLive(d) /\ 1 \in 1 .. Len(live) /\ DOMAIN live = 1 .. Len(live)
        /\ \A i \in 1 .. Len(live) : /\ live[i] \in DOMAIN actions
                                     /\ live[i] \in ActionRequest
                                     /\ live[i].subject = subject
    BY <1>3, OpenCase
  <2>2. subject \in Subjects
    BY <2>1 DEF ActionRequest
  <2>3. \A i \in DOMAIN live : actions'[live[i]] = actions[live[i]]
    BY <2>1
  <2>4. live \in Seq(DOMAIN actions')
    <3>1. live \in Seq(DOMAIN actions)
      BY <2>1 DEF CaseLive
    <3> QED
      BY <3>1
  <2>5. family \in Overlay =>
          overlayHeads'[<<family, subject>>] = overlayHeads[<<family, subject>>]
    <3>1. SUFFICES ASSUME family \in Overlay
                   PROVE  overlayHeads'[<<family, subject>>] =
                            overlayHeads[<<family, subject>>]
      OBVIOUS
    <3>2. d \in OpenOn(family, subject)
      BY <1>3 DEF OpenOn
    <3>3. /\ overlayHeads[<<family, subject>>] # None
          /\ overlayHeads[<<family, subject>>].caseId = d
      BY <2>2, <3>1, <3>2, OpenOnIs
    <3> QED
      BY <2>2, <3>1, <3>3
  <2>6. CaseLive(d)'
    BY <2>1, <2>3, <2>4, <2>5 DEF CaseLive
  <2> QED
    BY <1>1, <1>3, <2>6 DEF CaseTold
<1> QED
  BY <1>2, <1>3

\* It is enough to look at the case that the command is about.
LEMMA TableKept ==
  ASSUME ReproductionInv, TableInv, NEW c \in CaseIds,
         table' \in [CaseIds -> TableCase],
         \A d \in CaseIds : d # c => /\ table'[d] = table[d] /\ cases'[d] = cases[d]
                                     /\ custody'[d] = custody[d],
         DOMAIN actions \subseteq DOMAIN actions',
         \A p \in DOMAIN actions : actions'[p] = actions[p],
         applied' = consumedCommandIds',
         consumedNonces' = {x.nonce : x \in consumedCommandIds'},
         consumedEntitlements' = Spent',
         CaseTold(c)',
         \A a \in Overlay, s \in Subjects :
           IF overlayHeads[<<a, s>>] # None /\ overlayHeads[<<a, s>>].caseId # c
           THEN overlayHeads'[<<a, s>>] = overlayHeads[<<a, s>>] ELSE HeadTold(a, s)',
         \A p \in DOMAIN actions' :
           p.caseId = c \/ p \notin DOMAIN actions => ActionTold(p)'
  PROVE  TableInv'
<1>1. \A d \in CaseIds : CaseTold(d)'
  BY CaseApart
<1>2. ASSUME NEW a \in Overlay, NEW s \in Subjects PROVE HeadTold(a, s)'
  <2> DEFINE head == overlayHeads[<<a, s>>]
  <2>1. CASE head # None /\ head.caseId # c
    <3>1. overlayHeads'[<<a, s>>] = head
      BY <2>1
    <3>2. head.caseId \in CaseIds
      BY <2>1, OpenOnIs
    <3>3. table'[head.caseId] = table[head.caseId] /\ HeadTold(a, s)
      BY <2>1, <3>2 DEF TableInv
    <3> QED
      BY <3>1, <3>3 DEF HeadTold
  <2>2. CASE ~ (head # None /\ head.caseId # c)
    BY <2>2
  <2> QED
    BY <2>1, <2>2
<1>3. ASSUME NEW p \in DOMAIN actions' PROVE ActionTold(p)'
  <2>1. CASE p \in DOMAIN actions /\ p.caseId # c
    <3>1. p.caseId \in CaseIds /\ ActionTold(p)
      BY <2>1 DEF TableInv, ReproductionInv, TypeOK, CommandsOK, ActionRequest
    <3> QED
      BY <2>1, <3>1 DEF ActionTold
  <2> QED
    BY <2>1
<1> QED
  BY <1>1, <1>2, <1>3 DEF TableInv

\* An action, whatever it does.
LEMMA ActionTells ==
  ASSUME ReproductionInv, TableInv, NEW r, Accepted(r),
         NEW parent \in DOMAIN actions \cup {None}, commit(r, parent),
         applied' = applied \cup {r}
  PROVE  /\ r \in ActionRequest /\ r.caseId \in CaseIds /\ r.subject \in Subjects
         /\ table[r.caseId].phase \in {"NONE", "OPEN"}
         /\ DOMAIN actions' = DOMAIN actions \cup {r} /\ actions'[r] = parent
         /\ \A p \in DOMAIN actions : actions'[p] = actions[p]
         /\ applied' = consumedCommandIds'
         /\ consumedNonces' = {x.nonce : x \in consumedCommandIds'}
         /\ Spent' = Spent \cup ({r.entitlement} \ {Zero})
<1>1. r \in ActionRequest /\ r \notin consumedCommandIds /\ r.caseId \in CaseIds
      /\ r.subject \in Subjects /\ cases[r.caseId].phase # "TERMINAL"
  BY DEF Accepted, ActionRequest
<1>2. table[r.caseId].phase \in {"NONE", "OPEN"}
  BY <1>1 DEF TableInv, CaseTold, ReproductionInv, TypeOK, Case
<1>3. /\ DOMAIN actions' = DOMAIN actions \cup {r} /\ actions'[r] = parent
      /\ \A p \in DOMAIN actions : actions'[p] = actions[p]
  BY <1>1, ActionAdds DEF ReproductionInv, TypeOK
<1>4. /\ applied' = consumedCommandIds'
      /\ consumedNonces' = {x.nonce : x \in consumedCommandIds'}
  BY DEF commit, Consumed, TableInv
<1>5. Spent' = Spent \cup ({r.entitlement} \ {Zero})
  BY <1>1, SpentByAction
<1> QED
  BY <1>1, <1>2, <1>3, <1>4, <1>5

\* A new action, once its case is told.
LEMMA NewAction ==
  ASSUME NEW r, Accepted(r),
         LET c == table'[r.caseId]
         IN  \/ c.phase = "TERMINAL"
             \/ /\ c.phase = "OPEN" /\ c.subject = r.subject
                /\ IF r.action = "SEIZE" THEN c.family = "CUSTODY" ELSE r.action = c.family
                /\ c.family # "FREEZE" => r = c.live[1]
  PROVE  ActionTold(r)'
BY DEF Accepted, ActionTold

\* An action that opens a case, or is one more freeze in it.
LEMMA Opens ==
  ASSUME ReproductionInv, TableInv, NEW r, Accepted(r), r.action \notin Disposition,
         NEW parent \in DOMAIN actions \cup {None}, commit(r, parent),
         applied' = applied \cup {r}, table' = TableAfterAction(r),
         consumedEntitlements' = consumedEntitlements,
         NEW family, family = IF r.action = "SEIZE" THEN "CUSTODY" ELSE r.action,
         SetCase(r.caseId, "OPEN", family, r),
         \A d \in CaseIds : d # r.caseId => custody'[d] = custody[d],
         IF table[r.caseId].phase = "NONE" THEN parent = None
         ELSE /\ table[r.caseId].family = "FREEZE" /\ r.action = "FREEZE"
              /\ table[r.caseId].subject = r.subject
              /\ parent = Last(table[r.caseId].live),
         IF r.action = "SEIZE"
         THEN overlayHeads' = overlayHeads /\ custody'[r.caseId].action = r
         ELSE overlayHeads' = [overlayHeads EXCEPT ![<<r.action, r.subject>>] =
                                 [action |-> r, caseId |-> r.caseId]]
  PROVE  TableInv'
<1> DEFINE c == r.caseId
           live == table[c].live
           n == Len(live)
           head == [action |-> r, caseId |-> c]
<1>1. /\ r \in ActionRequest /\ c \in CaseIds /\ r.subject \in Subjects
      /\ table[c].phase \in {"NONE", "OPEN"}
      /\ DOMAIN actions' = DOMAIN actions \cup {r} /\ actions'[r] = parent
      /\ \A p \in DOMAIN actions : actions'[p] = actions[p]
      /\ applied' = consumedCommandIds'
      /\ consumedNonces' = {x.nonce : x \in consumedCommandIds'}
      /\ Spent' = Spent \cup ({r.entitlement} \ {Zero})
  BY ActionTells
<1>2. r.action \in Overlay \cup {"SEIZE"} /\ r.entitlement = Zero
  BY <1>1 DEF Accepted, ActionRequest, ShapeHolds, OverlayShape, Bare
<1>3. family \in Overlay \cup {"CUSTODY"} /\ (r.action # "SEIZE" => family = r.action)
      /\ (r.action = "SEIZE" => family = "CUSTODY")
  BY <1>2
<1>4. consumedEntitlements' = Spent'
  BY <1>1, <1>2 DEF TableInv
<1>5. \A d \in CaseIds : d # c => cases'[d] = cases[d]
  BY <1>1, <1>3, CaseSet DEF ReproductionInv
<1>6. cases'[c].phase = "OPEN" /\ cases'[c].family = family
  BY <1>1, <1>3, CaseSet DEF ReproductionInv
<1>7. /\ table[c].phase = "NONE" => live = <<>>
      /\ table[c].phase = "OPEN" =>
           /\ n \in Nat \ {0} /\ Last(live) = live[n] /\ DOMAIN live = 1 .. n
           /\ \A i \in 1 .. n : /\ live[i].caseId = c /\ live[i].subject = table[c].subject
                                /\ actions[live[i]] = IF i = 1 THEN None ELSE live[i - 1]
      /\ live \in Seq(DOMAIN actions) /\ n \in Nat /\ DOMAIN live = 1 .. n
  <2>1. CASE table[c].phase = "NONE"
    <3>1. live = <<>>
      BY <1>1, <2>1 DEF TableInv, CaseTold
    <3> HIDE DEF live
    <3> QED
      BY <2>1, <3>1
  <2>2. CASE table[c].phase = "OPEN"
    <3>1. /\ n \in Nat \ {0} /\ Last(live) = live[n] /\ DOMAIN live = 1 .. n
          /\ CaseLive(c)
      BY <1>1, <2>2, OpenCase
    <3> QED
      BY <2>2, <3>1 DEF CaseLive
  <2> QED
    BY <1>1, <2>1, <2>2
<1>8. /\ Append(live, r) \in Seq(DOMAIN actions') /\ Append(live, r) \in Seq(ActionRequest)
      /\ Append(live, r) # <<>> /\ DOMAIN Append(live, r) = 1 .. n + 1
      /\ Len(Append(live, r)) = n + 1
      /\ \A i \in 1 .. n : Append(live, r)[i] = live[i]
      /\ Append(live, r)[n + 1] = r /\ Last(Append(live, r)) = r
  <2>1. /\ live \in Seq(DOMAIN actions') /\ r \in DOMAIN actions'
        /\ live \in Seq(ActionRequest)
    <3>1. DOMAIN actions \subseteq ActionRequest
      BY DEF ReproductionInv, TypeOK, CommandsOK
    <3> QED
      BY <1>1, <1>7, <3>1
  <2> HIDE DEF live
  <2> QED
    BY <1>1, <2>1 DEF Last
<1> DEFINE told == [phase |-> "OPEN", subject |-> r.subject, live |-> Append(live, r),
                    family |-> family]
<1>9. table' = [table EXCEPT ![c] = told]
  BY DEF TableAfterAction
<1>10. /\ table'[c] = told /\ \A d \in CaseIds : d # c => table'[d] = table[d]
       /\ table' \in [CaseIds -> TableCase]
  <2>1. told \in TableCase
    BY <1>1, <1>3, <1>8 DEF TableCase
  <2> HIDE DEF told
  <2> QED
    BY <1>1, <1>9, <2>1 DEF TableInv
<1>11. /\ table'[c].phase = "OPEN" /\ table'[c].subject = r.subject
       /\ table'[c].live = Append(live, r) /\ table'[c].family = family
  BY <1>10
<1> HIDE DEF told
<1>12. table[c].phase = "OPEN" => /\ table[c].family = "FREEZE" /\ r.action = "FREEZE"
                                 /\ table[c].subject = r.subject /\ parent = Last(live)
  OBVIOUS
<1>13. CaseLive(c)'
  <2>1. ASSUME NEW i \in 1 .. n + 1
        PROVE  /\ Append(live, r)[i].caseId = c /\ Append(live, r)[i].subject = r.subject
               /\ actions'[Append(live, r)[i]] =
                    IF i = 1 THEN None ELSE Append(live, r)[i - 1]
    <3>1. CASE i \in 1 .. n
      <4>1. table[c].phase = "OPEN" /\ n \in Nat \ {0}
        BY <1>1, <1>7, <3>1
      <4>2. live[i] \in DOMAIN actions
        BY <1>7, <3>1
      <4>3. i # 1 => i - 1 \in 1 .. n
        BY <1>7, <3>1
      <4> QED
        BY <1>1, <1>7, <1>8, <1>12, <3>1, <4>1, <4>2, <4>3
    <3>2. CASE i = n + 1
      <4>1. CASE table[c].phase = "NONE"
        <5>1. n = 0 /\ parent = None
          BY <1>7, <4>1
        <5> QED
          BY <1>1, <1>8, <3>2, <5>1
      <4>2. CASE table[c].phase = "OPEN"
        <5>1. n \in 1 .. n /\ parent = live[n] /\ i # 1 /\ i - 1 = n
          BY <1>7, <1>12, <3>2, <4>2
        <5> QED
          BY <1>1, <1>8, <3>2, <5>1
      <4> QED
        BY <1>1, <4>1, <4>2
    <3>3. i \in 1 .. n \/ i = n + 1
      <4>1. n \in Nat
        BY <1>7
      <4> HIDE DEF n
      <4> QED
        BY <4>1
    <3> QED
      BY <3>1, <3>2, <3>3
  <2>2. family \in Overlay => overlayHeads'[<<family, r.subject>>] = head
    <3>1. SUFFICES ASSUME family \in Overlay
                   PROVE  overlayHeads'[<<family, r.subject>>] = head
      OBVIOUS
    <3>2. r.action # "SEIZE" /\ family = r.action
      BY <1>3, <3>1 DEF Overlay
    <3>3. overlayHeads \in [Overlay \X Subjects -> OverlayHead \cup {None}]
      BY DEF ReproductionInv, TypeOK
    <3> QED
      BY <1>1, <3>1, <3>2, <3>3
  <2>3. family # "FREEZE" => n = 0
    BY <1>1, <1>3, <1>7, <1>12
  <2>4. family = "CUSTODY" => custody'[c].action = r /\ n = 0
    BY <1>2, <1>3, <2>3 DEF Overlay
  <2>5. \A i \in DOMAIN Append(live, r) :
          /\ Append(live, r)[i].caseId = c /\ Append(live, r)[i].subject = r.subject
          /\ actions'[Append(live, r)[i]] = IF i = 1 THEN None ELSE Append(live, r)[i - 1]
    BY <1>8, <2>1
  <2>6. /\ family # "FREEZE" => Len(Append(live, r)) = 1
        /\ family = "CUSTODY" => custody'[c].action = Append(live, r)[1]
    BY <1>8, <2>3, <2>4
  <2> HIDE DEF live, n
  <2> QED
    BY <1>3, <1>6, <1>8, <1>11, <2>2, <2>5, <2>6 DEF CaseLive
<1>14. CaseTold(c)'
  BY <1>6, <1>11, <1>13 DEF CaseTold
<1>15. ASSUME NEW a \in Overlay, NEW s \in Subjects
       PROVE  LET old == overlayHeads[<<a, s>>]
              IN  IF old # None /\ old.caseId # c
                  THEN overlayHeads'[<<a, s>>] = old ELSE HeadTold(a, s)'
  <2> DEFINE old == overlayHeads[<<a, s>>]
  <2>1. overlayHeads \in [Overlay \X Subjects -> OverlayHead \cup {None}]
    BY DEF ReproductionInv, TypeOK
  <2>2. CASE a = r.action /\ s = r.subject
    <3>1. ~ (old # None /\ old.caseId # c)
      BY <2>2 DEF Accepted, CaseAnswerOf
    <3>2. r.action # "SEIZE" /\ overlayHeads'[<<a, s>>] = head
      BY <2>1, <2>2 DEF Overlay
    <3>3. HeadTold(a, s)'
      BY <1>3, <1>11, <2>2, <3>2 DEF HeadTold
    <3> QED
      BY <3>1, <3>3
  <2>3. CASE ~ (a = r.action /\ s = r.subject)
    <3>1. overlayHeads'[<<a, s>>] = old
      BY <2>1, <2>3
    <3>2. CASE old = None
      BY <3>1, <3>2 DEF HeadTold
    <3>3. CASE old # None
      <4>1. old.caseId # c
        <5> SUFFICES ASSUME old.caseId = c PROVE FALSE
          OBVIOUS
        <5>1. table[c].phase = "OPEN" /\ table[c].family = a /\ table[c].subject = s
          BY <3>3 DEF TableInv, HeadTold
        <5> QED
          BY <1>12, <2>3, <5>1
      <4> QED
        BY <3>1, <3>3, <4>1
    <3> QED
      BY <3>2, <3>3
  <2> QED
    BY <2>2, <2>3
<1>16. ASSUME NEW p \in DOMAIN actions', p.caseId = c \/ p \notin DOMAIN actions
       PROVE  ActionTold(p)'
  <2>1. CASE p = r
    <3>1. r.action # "SEIZE" => r.action = family
      BY <1>3
    <3>2. family # "FREEZE" => r = Append(live, r)[1]
      <4>1. family # "FREEZE" => n = 0
        BY <1>1, <1>3, <1>7, <1>12
      <4> QED
        BY <1>8, <4>1
    <3> QED
      BY <1>3, <1>11, <2>1, <3>1, <3>2, NewAction
  <2>2. CASE p # r
    <3>1. p \in DOMAIN actions /\ p.caseId = c /\ ActionTold(p)
      BY <1>1, <1>16, <2>2 DEF TableInv
    <3>2. table[c].phase = "OPEN"
      BY <1>1, <3>1 DEF ActionTold
    <3>3. p.action = "FREEZE" /\ p.subject = r.subject /\ family = "FREEZE"
      BY <1>3, <1>12, <3>1, <3>2 DEF ActionTold, Overlay
    <3> QED
      BY <1>11, <3>1, <3>3 DEF ActionTold
  <2> QED
    BY <2>1, <2>2
<1> HIDE DEF c, live, n, head
<1>17. DOMAIN actions \subseteq DOMAIN actions'
  BY <1>1
<1> QED
  BY <1>1, <1>4, <1>5, <1>10, <1>14, <1>15, <1>16, <1>17, TableKept DEF c

\* An action that closes its case.
LEMMA Closes ==
  ASSUME ReproductionInv, TableInv, NEW r, Accepted(r), r.action \in Disposition,
         commit(r, None), applied' = applied \cup {r}, table' = TableAfterAction(r),
         consumedEntitlements' = consumedEntitlements \cup ({r.entitlement} \ {Zero}),
         NEW family \in {"CUSTODY", "DISPOSITION"},
         SetCase(r.caseId, "TERMINAL", family, None), overlayHeads' = overlayHeads,
         \A d \in CaseIds : d # r.caseId => custody'[d] = custody[d],
         table[r.caseId].phase = "OPEN" => table[r.caseId].family = "CUSTODY"
  PROVE  TableInv'
<1> DEFINE c == r.caseId
           told == Blank("TERMINAL", "DISPOSITION")
<1>1. /\ r \in ActionRequest /\ c \in CaseIds
      /\ DOMAIN actions' = DOMAIN actions \cup {r}
      /\ \A p \in DOMAIN actions : actions'[p] = actions[p]
      /\ applied' = consumedCommandIds'
      /\ consumedNonces' = {x.nonce : x \in consumedCommandIds'}
      /\ Spent' = Spent \cup ({r.entitlement} \ {Zero})
  BY ActionTells
<1>2. consumedEntitlements' = Spent'
  BY <1>1 DEF TableInv
<1>3. cases'[c].phase = "TERMINAL" /\ \A d \in CaseIds : d # c => cases'[d] = cases[d]
  BY <1>1, CaseSet DEF ReproductionInv
<1>4. table' = [table EXCEPT ![c] = told]
  BY DEF TableAfterAction
<1>5. told \in TableCase /\ told.phase = "TERMINAL"
  BY DEF Blank, TableCase
<1> HIDE DEF told
<1>6. /\ table'[c].phase = "TERMINAL" /\ table' \in [CaseIds -> TableCase]
      /\ \A d \in CaseIds : d # c => table'[d] = table[d]
  BY <1>1, <1>4, <1>5 DEF TableInv
<1>7. CaseTold(c)'
  BY <1>3, <1>6 DEF CaseTold
<1>8. ASSUME NEW a \in Overlay, NEW s \in Subjects
      PROVE  LET old == overlayHeads[<<a, s>>]
             IN  IF old # None /\ old.caseId # c
                 THEN overlayHeads'[<<a, s>>] = old ELSE HeadTold(a, s)'
  <2> DEFINE old == overlayHeads[<<a, s>>]
  <2>1. ~ (old # None /\ old.caseId = c)
    BY DEF TableInv, HeadTold, Overlay
  <2>2. old = None => HeadTold(a, s)'
    BY DEF HeadTold
  <2> QED
    BY <2>1, <2>2
<1>9. ASSUME NEW p \in DOMAIN actions', p.caseId = c \/ p \notin DOMAIN actions
      PROVE  ActionTold(p)'
  <2>1. CASE p = r
    BY <1>6, <2>1, NewAction
  <2>2. CASE p # r
    <3>1. p.caseId = c /\ ActionTold(p)
      BY <1>1, <1>9, <2>2 DEF TableInv
    <3> QED
      BY <1>6, <3>1 DEF ActionTold
  <2> QED
    BY <2>1, <2>2
<1> HIDE DEF c
<1>10. DOMAIN actions \subseteq DOMAIN actions'
  BY <1>1
<1> QED
  BY <1>1, <1>2, <1>3, <1>6, <1>7, <1>8, <1>9, <1>10, TableKept DEF c

\* What an accepted reversal reverses is the last that is live in its case.
LEMMA ReversedIsLast ==
  ASSUME ReproductionInv, TableInv, NEW v, AcceptedReversal(v)
  PROVE  LET q == v.action
             c == table[q.caseId]
             n == Len(c.live)
         IN  /\ q \in DOMAIN actions /\ q \in ActionRequest /\ q.caseId \in CaseIds
             /\ c.phase = "OPEN" /\ CaseLive(q.caseId) /\ q.subject = c.subject
             /\ n \in Nat \ {0} /\ DOMAIN c.live = 1 .. n /\ c.live[n] = q
             /\ actions[q] = IF n = 1 THEN None ELSE c.live[n - 1]
             /\ \A i \in 1 .. n : c.live[i] \in ActionRequest /\ c.live[i] # None
             /\ c.family = IF q.action = "SEIZE" THEN "CUSTODY" ELSE q.action
<1> DEFINE q == v.action
           c == table[q.caseId]
           n == Len(c.live)
<1>1. /\ q \in DOMAIN actions /\ q \in ActionRequest /\ q.caseId \in CaseIds
      /\ q.subject \in Subjects /\ q.action \in Overlay \cup {"SEIZE"}
      /\ cases[q.caseId].phase # "TERMINAL"
      /\ q.action \in Overlay => IsHead(q)
  BY DEF AcceptedReversal, Reversal, Reverses, Overlay, ActionRequest
<1>2. ActionTold(q) /\ c.phase = "OPEN"
  BY <1>1 DEF TableInv, ActionTold, CaseTold, TableCase
<1>3. /\ CaseLive(q.caseId) /\ n \in Nat \ {0} /\ DOMAIN c.live = 1 .. n
      /\ \A i \in 1 .. n : c.live[i] \in ActionRequest /\ c.live[i].subject = c.subject
      /\ Last(c.live) = c.live[n]
  BY <1>1, <1>2, OpenCase
<1>4. c.family = IF q.action = "SEIZE" THEN "CUSTODY" ELSE q.action
  BY <1>1, <1>2 DEF ActionTold
<1>5. c.live[n] = q
  <2>1. CASE q.action = "FREEZE"
    <3>1. c.subject = q.subject /\ c.family = "FREEZE"
      BY <1>2, <1>4, <2>1 DEF ActionTold, Overlay
    <3>2. overlayHeads[<<"FREEZE", q.subject>>] =
            [action |-> Last(c.live), caseId |-> q.caseId]
      BY <1>3, <3>1 DEF CaseLive, Overlay
    <3>3. overlayHeads[<<"FREEZE", q.subject>>].action = q
      BY <1>1, <2>1 DEF IsHead, Overlay
    <3> QED
      BY <1>3, <3>2, <3>3
  <2>2. CASE q.action # "FREEZE"
    <3>1. c.family # "FREEZE"
      BY <1>4, <2>2
    <3> QED
      BY <1>2, <1>3, <3>1 DEF ActionTold, CaseLive
  <2> QED
    BY <2>1, <2>2
<1>6. n \in 1 .. n
  BY <1>3
<1>7. q.subject = c.subject /\ actions[q] = IF n = 1 THEN None ELSE c.live[n - 1]
  BY <1>3, <1>5, <1>6 DEF CaseLive
<1>8. \A i \in 1 .. n : c.live[i] # None
  BY <1>3, ReproductionAssumption DEF ReproductionAssumption
<1> QED
  BY <1>1, <1>2, <1>3, <1>4, <1>5, <1>7, <1>8

\* A sequence without its last element.
LEMMA FrontIs ==
  ASSUME NEW S, NEW s \in Seq(S), s # <<>>
  PROVE  /\ Front(s) \in Seq(S) /\ Len(Front(s)) = Len(s) - 1
         /\ DOMAIN Front(s) = 1 .. Len(s) - 1
         /\ \A i \in 1 .. Len(s) - 1 : Front(s)[i] = s[i]
<1>1. PICK n \in Nat : n = Len(s) - 1
  OBVIOUS
<1>2. Front(s) = SubSeq(s, 1, n) /\ \A i \in 1 .. n : s[i] \in S
  BY <1>1 DEF Front
<1>3. /\ SubSeq(s, 1, n) \in Seq(S)
      /\ Len(SubSeq(s, 1, n)) = IF 1 <= n THEN n - 1 + 1 ELSE 0
      /\ \A i \in 1 .. n - 1 + 1 : SubSeq(s, 1, n)[i] = s[1 + i - 1]
  BY <1>2, SubSeqProperties
<1>4. Len(SubSeq(s, 1, n)) = n /\ n - 1 + 1 = n /\ \A i \in 1 .. n : 1 + i - 1 = i
  BY <1>3
<1>5. DOMAIN SubSeq(s, 1, n) = 1 .. n /\ \A i \in 1 .. n : SubSeq(s, 1, n)[i] = s[i]
  BY <1>3, <1>4
<1> QED
  BY <1>1, <1>2, <1>3, <1>4, <1>5

\* A reversal takes the last live action from its case.
LEMMA TakesBack ==
  ASSUME ReproductionInv, TableInv, NEW v, AcceptedReversal(v), Consumed(v),
         actions' = actions, applied' = applied \cup {v}, table' = TableAfterReversal(v),
         consumedEntitlements' = consumedEntitlements,
         NEW last, last <=> actions[v.action] = None,
         NEW family \in Overlay \cup {"CUSTODY"}, NEW parent \in ActionRequest \cup {None},
         SetCase(v.action.caseId, IF last THEN "TERMINAL" ELSE "OPEN", family, parent),
         ~ last => family = "FREEZE" /\ v.action.action = "FREEZE",
         \A d \in CaseIds : d # v.action.caseId => custody'[d] = custody[d],
         IF v.action.action = "SEIZE" THEN overlayHeads' = overlayHeads
         ELSE overlayHeads' =
                [overlayHeads EXCEPT ![<<v.action.action, v.action.subject>>] =
                   IF last THEN None
                   ELSE [action |-> actions[v.action], caseId |-> v.action.caseId]]
  PROVE  TableInv'
<1> DEFINE q == v.action
           c == q.caseId
           live == table[c].live
           n == Len(live)
           told == IF n = 1 THEN Blank("TERMINAL", table[c].family)
                   ELSE [table[c] EXCEPT !.live = Front(live)]
<1>1. /\ q \in DOMAIN actions /\ q \in ActionRequest /\ c \in CaseIds
      /\ table[c].phase = "OPEN" /\ CaseLive(c) /\ q.subject = table[c].subject
      /\ n \in Nat \ {0} /\ DOMAIN live = 1 .. n /\ live[n] = q
      /\ actions[q] = IF n = 1 THEN None ELSE live[n - 1]
      /\ \A i \in 1 .. n : live[i] \in ActionRequest /\ live[i] # None
      /\ table[c].family = IF q.action = "SEIZE" THEN "CUSTODY" ELSE q.action
  BY ReversedIsLast
<1>2. last <=> n = 1
  <2>1. n # 1 => n - 1 \in 1 .. n
    <3>1. n \in Nat \ {0}
      BY <1>1
    <3> HIDE DEF n
    <3> QED
      BY <3>1
  <2> QED
    BY <1>1, <2>1
<1>3. v \in Reversal /\ q.subject \in Subjects /\ q.action \in Overlay \cup {"SEIZE"}
  BY <1>1 DEF AcceptedReversal, Reversal, Reverses, Overlay, ActionRequest
<1>4. /\ applied' = consumedCommandIds'
      /\ consumedNonces' = {x.nonce : x \in consumedCommandIds'}
  BY DEF Consumed, TableInv
<1>5. consumedEntitlements' = Spent'
  BY <1>3, SpentByReversal DEF TableInv
<1>6. /\ cases'[c].phase = IF last THEN "TERMINAL" ELSE "OPEN"
      /\ cases'[c].family = family
      /\ \A d \in CaseIds : d # c => cases'[d] = cases[d]
  <2>1. PICK phase \in {"OPEN", "TERMINAL"} : phase = IF last THEN "TERMINAL" ELSE "OPEN"
    OBVIOUS
  <2> QED
    BY <1>1, <2>1, CaseSet DEF ReproductionInv
<1>7. live \in Seq(DOMAIN actions) /\ live \in Seq(ActionRequest)
  <2>1. live \in Seq(DOMAIN actions) /\ DOMAIN actions \subseteq ActionRequest
    BY <1>1 DEF CaseLive, ReproductionInv, TypeOK, CommandsOK
  <2> HIDE DEF live
  <2> QED
    BY <2>1
<1>8. /\ Front(live) \in Seq(DOMAIN actions) /\ Front(live) \in Seq(ActionRequest)
      /\ n # 1 => /\ Front(live) # <<>> /\ Len(Front(live)) = n - 1
                  /\ DOMAIN Front(live) = 1 .. n - 1
                  /\ \A i \in 1 .. n - 1 : Front(live)[i] = live[i]
                  /\ Last(Front(live)) = live[n - 1]
  <2>1. /\ n \in Nat \ {0} /\ live # <<>> /\ live \in Seq(DOMAIN actions)
        /\ live \in Seq(ActionRequest)
    BY <1>1, <1>7
  <2> HIDE DEF live
  <2>2. /\ Front(live) \in Seq(DOMAIN actions) /\ Front(live) \in Seq(ActionRequest)
        /\ Len(Front(live)) = n - 1 /\ DOMAIN Front(live) = 1 .. n - 1
        /\ \A i \in 1 .. n - 1 : Front(live)[i] = live[i]
    BY <2>1, FrontIs
  <2>3. n # 1 => n - 1 \in 1 .. n - 1 /\ Front(live) # <<>>
    BY <2>1, <2>2
  <2> QED
    BY <2>2, <2>3 DEF Last
<1>9. table' = [table EXCEPT ![c] = told]
  BY DEF TableAfterReversal
<1>10. table[c] \in TableCase
  BY <1>1 DEF TableInv
<1>11. /\ told \in TableCase
       /\ n = 1 => told.phase = "TERMINAL"
       /\ n # 1 => /\ told.phase = "OPEN" /\ told.family = table[c].family
                   /\ told.subject = table[c].subject /\ told.live = Front(live)
  <2>1. CASE n = 1
    BY <1>10, <2>1 DEF Blank, TableCase
  <2>2. CASE n # 1
    BY <1>1, <1>8, <1>10, <2>2 DEF TableCase
  <2> QED
    BY <2>1, <2>2
<1> HIDE DEF told
<1>12. /\ table'[c] = told /\ \A d \in CaseIds : d # c => table'[d] = table[d]
       /\ table' \in [CaseIds -> TableCase]
  BY <1>1, <1>9, <1>11 DEF TableInv
<1>13. overlayHeads \in [Overlay \X Subjects -> OverlayHead \cup {None}]
  BY DEF ReproductionInv, TypeOK
<1>14. CaseTold(c)'
  <2>1. CASE n = 1
    BY <1>2, <1>6, <1>11, <1>12, <2>1 DEF CaseTold
  <2>2. CASE n # 1
    <3>1. q.action = "FREEZE" /\ family = "FREEZE" /\ table[c].family = "FREEZE"
      BY <1>1, <1>2, <2>2
    <3>2. overlayHeads'[<<"FREEZE", table[c].subject>>] =
            [action |-> live[n - 1], caseId |-> c]
      BY <1>1, <1>2, <1>3, <1>13, <2>2, <3>1
    <3>3. \A i \in 1 .. n - 1 :
            /\ Front(live)[i].caseId = c /\ Front(live)[i].subject = table[c].subject
            /\ actions[Front(live)[i]] = IF i = 1 THEN None ELSE Front(live)[i - 1]
      <4> TAKE i \in 1 .. n - 1
      <4>1. i \in 1 .. n /\ (i # 1 => i - 1 \in 1 .. n - 1)
        <5>1. n \in Nat \ {0}
          BY <1>1
        <5> HIDE DEF n
        <5> QED
          BY <5>1
      <4>2. /\ live[i].caseId = c /\ live[i].subject = table[c].subject
            /\ actions[live[i]] = IF i = 1 THEN None ELSE live[i - 1]
        BY <1>1, <4>1 DEF CaseLive
      <4> HIDE DEF live, n
      <4> QED
        BY <1>8, <2>2, <4>1, <4>2
    <3>4. CaseLive(c)'
      <4> DEFINE rest == Front(live)
      <4>1. /\ rest \in Seq(DOMAIN actions') /\ rest # <<>> /\ DOMAIN rest = 1 .. n - 1
            /\ Last(rest) = live[n - 1]
        BY <1>8, <2>2
      <4>2. table'[c].live = rest /\ table'[c].family = "FREEZE"
            /\ table'[c].subject = table[c].subject
        BY <1>11, <1>12, <2>2, <3>1
      <4> HIDE DEF live, rest, n
      <4> QED
        BY <1>6, <3>1, <3>2, <3>3, <4>1, <4>2 DEF CaseLive, Overlay, rest
    <3> QED
      BY <1>2, <1>6, <1>11, <1>12, <2>2, <3>4 DEF CaseTold
  <2> QED
    BY <2>1, <2>2
<1>15. ASSUME NEW a \in Overlay, NEW s \in Subjects
       PROVE  LET old == overlayHeads[<<a, s>>]
              IN  IF old # None /\ old.caseId # c
                  THEN overlayHeads'[<<a, s>>] = old ELSE HeadTold(a, s)'
  <2> DEFINE old == overlayHeads[<<a, s>>]
  <2>1. CASE a = q.action /\ s = q.subject
    <3>1. a # "SEIZE"
      BY DEF Overlay
    <3>2. overlayHeads'[<<a, s>>] =
            IF last THEN None ELSE [action |-> actions[q], caseId |-> c]
      BY <1>13, <2>1, <3>1
    <3>3. old # None => old.caseId = c
      <4>1. a = table[c].family /\ s = table[c].subject
        BY <1>1, <2>1, <3>1
      <4>2. old = [action |-> Last(live), caseId |-> c]
        BY <1>1, <4>1 DEF CaseLive
      <4> QED
        BY <4>2
    <3>4. HeadTold(a, s)'
      BY <1>1, <1>2, <1>11, <1>12, <2>1, <3>1, <3>2 DEF HeadTold
    <3> QED
      BY <3>3, <3>4
  <2>2. CASE ~ (a = q.action /\ s = q.subject)
    <3>1. overlayHeads'[<<a, s>>] = old
      BY <1>13, <2>2
    <3>2. old # None => old.caseId # c
      <4> SUFFICES ASSUME old # None, old.caseId = c PROVE FALSE
        OBVIOUS
      <4>1. table[c].family = a /\ table[c].subject = s
        BY DEF TableInv, HeadTold
      <4>2. a = q.action
        BY <1>1, <4>1 DEF Overlay
      <4> QED
        BY <1>1, <2>2, <4>1, <4>2
    <3>3. old = None => HeadTold(a, s)'
      BY <3>1 DEF HeadTold
    <3> QED
      BY <3>1, <3>2, <3>3
  <2> QED
    BY <2>1, <2>2
<1>16. ASSUME NEW p \in DOMAIN actions, p.caseId = c PROVE ActionTold(p)'
  <2>1. ActionTold(p)
    BY DEF TableInv
  <2>2. CASE n = 1
    BY <1>11, <1>12, <1>16, <2>1, <2>2 DEF ActionTold
  <2>3. CASE n # 1
    <3>1. table[c].family = "FREEZE"
      BY <1>1, <1>2, <2>3
    <3> QED
      BY <1>1, <1>11, <1>12, <1>16, <2>1, <2>3, <3>1 DEF ActionTold
  <2> QED
    BY <2>2, <2>3
<1> HIDE DEF c, q, live, n
<1>17. c \in CaseIds /\ \A d \in CaseIds : d # c => custody'[d] = custody[d]
  BY <1>1 DEF c, q
<1> QED
  BY <1>4, <1>5, <1>6, <1>12, <1>14, <1>15, <1>16, <1>17, TableKept

\* What an action does, the tables do.
LEMMA ActionTabled ==
  ASSUME Regular(Shapes, Pairs), ReproductionInv, TableInv, NEW r, Accepted(r),
         \/ Freeze(r) \/ RestrictSubject(r) \/ Seize(r)
         \/ DisposeCustody(r) \/ DisposeDirect(r),
         applied' = applied \cup {r}, table' = TableAfterAction(r)
  PROVE  TableInv'
<1> DEFINE c == r.caseId
           s == r.subject
           head == overlayHeads[<<r.action, s>>]
<1>1. /\ r \in ActionRequest /\ c \in CaseIds /\ s \in Subjects
      /\ \E x \in Shapes : r = [x EXCEPT !.nonce = r.nonce]
      /\ cases[c].phase # "TERMINAL" /\ CaseAnswerOf(r) = "ok"
  BY DEF Accepted, ActionRequest
<1>2. /\ table[c].phase \in {"NONE", "OPEN"} /\ table[c].phase = cases[c].phase
      /\ table[c].phase = "OPEN" =>
           /\ table[c].family = cases[c].family
           /\ table[c].family \in Overlay \cup {"CUSTODY"}
  <2>1. table[c].phase = cases[c].phase /\ cases[c].phase \in {"NONE", "OPEN"}
    BY <1>1 DEF TableInv, CaseTold, ReproductionInv, TypeOK, Case
  <2>2. table[c].phase = "OPEN" => CaseLive(c)
    BY <1>1 DEF TableInv, CaseTold
  <2> QED
    BY <2>1, <2>2 DEF CaseLive
<1>3. table[c].phase = "OPEN" =>
        /\ table[c].family \notin Overlay \ {r.action}
        /\ table[c].family = "CUSTODY" => r.action \in Disposition /\ MatchesCustody(r)
  <2>1. r.action \in Overlay \cup Disposition \cup {"SEIZE"}
    BY <1>1 DEF ActionRequest
  <2> QED
    BY <1>1, <1>2, <2>1 DEF CaseAnswerOf, IsOpen
<1>4. CASE Freeze(r)
  <2> DEFINE parent == IF head = None THEN None ELSE head.action
  <2>1. /\ r.action = "FREEZE" /\ "FREEZE" \notin Disposition /\ "FREEZE" \in Overlay
        /\ commit(r, parent) /\ SetCase(c, "OPEN", "FREEZE", r)
        /\ consumedEntitlements' = consumedEntitlements /\ custody' = custody
        /\ overlayHeads' = [overlayHeads EXCEPT ![<<r.action, s>>] =
                              [action |-> r, caseId |-> c]]
    BY <1>4 DEF Freeze, Overlay, Disposition
  <2>2. parent \in DOMAIN actions \cup {None}
    BY <1>1, <2>1 DEF ReproductionInv, FreezesNest, InForce
  <2>3. table[c].phase = "NONE" => parent = None
    <3> SUFFICES ASSUME table[c].phase = "NONE", head # None PROVE FALSE
      OBVIOUS
    <3>1. head.caseId = c
      BY <1>1, <2>1 DEF CaseAnswerOf
    <3> QED
      BY <1>1, <2>1, <3>1 DEF TableInv, HeadTold
  <2>4. table[c].phase = "OPEN" => /\ table[c].family = "FREEZE" /\ table[c].subject = s
                                   /\ parent = Last(table[c].live)
    <3> SUFFICES ASSUME table[c].phase = "OPEN"
                 PROVE  /\ table[c].family = "FREEZE" /\ table[c].subject = s
                        /\ parent = Last(table[c].live)
      OBVIOUS
    <3>1. table[c].family = "FREEZE"
      BY <1>2, <1>3, <2>1 DEF Overlay, Disposition
    <3> QED
      BY <1>1, <2>1, <3>1, SameSubject
  <2> HIDE DEF parent, head
  <2> QED
    BY <1>1, <1>2, <2>1, <2>2, <2>3, <2>4, Opens
<1>5. CASE RestrictSubject(r)
  <2>1. /\ r.action = "RESTRICT" /\ "RESTRICT" \notin Disposition /\ "RESTRICT" \in Overlay
        /\ commit(r, None) /\ SetCase(c, "OPEN", "RESTRICT", r)
        /\ consumedEntitlements' = consumedEntitlements /\ custody' = custody
        /\ overlayHeads' = [overlayHeads EXCEPT ![<<r.action, s>>] =
                              [action |-> r, caseId |-> c]]
    BY <1>5 DEF RestrictSubject, Overlay, Disposition
  <2>2. table[c].phase = "NONE"
    <3> SUFFICES ASSUME table[c].phase = "OPEN" PROVE FALSE
      BY <1>2
    <3>1. table[c].family = "RESTRICT"
      BY <1>2, <1>3, <2>1 DEF Overlay, Disposition
    <3>2. head # None /\ head.caseId = c
      BY <1>1, <2>1, <3>1, SameSubject
    <3> QED
      BY <1>1, <2>1, <3>2 DEF CaseAnswerOf
  <2> HIDE DEF head
  <2> QED
    BY <1>1, <2>1, <2>2, Opens
<1>6. CASE Seize(r)
  <2>1. /\ r.action = "SEIZE" /\ "SEIZE" \notin Disposition /\ "SEIZE" \notin Overlay
        /\ commit(r, None) /\ SetCase(c, "OPEN", "CUSTODY", r)
        /\ consumedEntitlements' = consumedEntitlements /\ overlayHeads' = overlayHeads
        /\ custody' = [custody EXCEPT ![c] =
                         [action |-> r, custodian |-> r.custodian, priorHolder |-> s,
                          amount |-> r.amount]]
    BY <1>6 DEF Seize, Overlay, Disposition
  <2>2. table[c].phase = "NONE"
    BY <1>2, <1>3, <2>1
  <2>3. /\ custody'[c].action = r
        /\ \A d \in CaseIds : d # c => custody'[d] = custody[d]
    BY <1>1, <2>1 DEF ReproductionInv, TypeOK
  <2> HIDE DEF head
  <2> QED
    BY <1>1, <2>1, <2>2, <2>3, Opens
<1>7. CASE DisposeCustody(r)
  <2>1. /\ r.action \in Disposition /\ IsOpen(r, {"CUSTODY"}) /\ commit(r, None)
        /\ SetCase(c, "TERMINAL", "CUSTODY", None)
        /\ consumedEntitlements' = consumedEntitlements /\ overlayHeads' = overlayHeads
        /\ custody' = [custody EXCEPT ![c] = None]
    BY <1>7 DEF DisposeCustody
  <2>2. table[c].phase = "OPEN" /\ table[c].family = "CUSTODY" /\ MatchesCustody(r)
    BY <1>2, <1>3, <2>1 DEF IsOpen
  <2>3. r.entitlement = Zero
    <3>1. r.source = Custodian
      BY <1>1, <2>2 DEF MatchesCustody, ReproductionInv, TypeOK, Held
    <3>2. r.action # "RECOVER"
      <4>1. PICK x \in Shapes : r = [x EXCEPT !.nonce = r.nonce]
        BY <1>1
      <4>2. x.action = r.action /\ x.source = r.source /\ x.subject = s
        BY <4>1, ReproductionAssumption DEF ReproductionAssumption, ActionRequest
      <4>3. s # Custodian
        BY <1>1, ReproductionAssumption DEF ReproductionAssumption
      <4> QED
        BY <3>1, <4>2, <4>3 DEF Regular
    <3> QED
      BY <2>1, <3>2 DEF Accepted, ShapeHolds, CommitmentShape, Disposition, Overlay, Bare
  <2>4. consumedEntitlements' = consumedEntitlements \cup ({r.entitlement} \ {Zero})
    BY <2>1, <2>3
  <2>5. \A d \in CaseIds : d # c => custody'[d] = custody[d]
    BY <2>1 DEF ReproductionInv, TypeOK
  <2> QED
    BY <2>1, <2>2, <2>4, <2>5, Closes
<1>8. CASE DisposeDirect(r)
  <2>1. /\ r.action \in Disposition /\ ~ IsOpen(r, {"CUSTODY"}) /\ commit(r, None)
        /\ SetCase(c, "TERMINAL", "DISPOSITION", None)
        /\ consumedEntitlements' =
             consumedEntitlements \cup {e \in {r.entitlement} : r.action = "RECOVER"}
        /\ overlayHeads' = overlayHeads /\ custody' = custody
    BY <1>8 DEF DisposeDirect
  <2>2. r.entitlement = Zero <=> r.action # "RECOVER"
    BY <2>1 DEF Accepted, ShapeHolds, CommitmentShape, Disposition, Overlay, Bare
  <2>3. consumedEntitlements' = consumedEntitlements \cup ({r.entitlement} \ {Zero})
    BY <2>1, <2>2
  <2>4. table[c].phase # "OPEN"
    <3>1. r.action \notin Overlay
      BY <2>1 DEF Overlay, Disposition
    <3> QED
      BY <1>1, <1>2, <1>3, <2>1, <3>1 DEF CaseAnswerOf
  <2> QED
    BY <2>1, <2>3, <2>4, Closes
<1> QED
  BY <1>4, <1>5, <1>6, <1>7, <1>8

\* What a reversal does, the tables do.
LEMMA ReversalTabled ==
  ASSUME ReproductionInv, TableInv, NEW v, AcceptedReversal(v),
         Unfreeze(v) \/ Unrestrict(v) \/ Release(v),
         applied' = applied \cup {v}, table' = TableAfterReversal(v)
  PROVE  TableInv'
<1> DEFINE q == v.action
           c == q.caseId
<1>1. /\ q \in DOMAIN actions /\ q \in ActionRequest /\ c \in CaseIds
      /\ v.reversal \in DOMAIN Reverses /\ Reverses[v.reversal] = q.action
      /\ actions[q] \in ActionRequest \cup {None}
      /\ q.action # "FREEZE" => actions[q] = None
  <2>1. /\ q \in DOMAIN actions /\ q \in ActionRequest /\ c \in CaseIds
        /\ CaseLive(c)
        /\ actions[q] = IF Len(table[c].live) = 1 THEN None
                        ELSE table[c].live[Len(table[c].live) - 1]
        /\ table[c].family = IF q.action = "SEIZE" THEN "CUSTODY" ELSE q.action
    BY ReversedIsLast
  <2>2. q.action # "FREEZE" => Len(table[c].live) = 1
    BY <2>1 DEF CaseLive
  <2>3. actions[q] \in ActionRequest \cup {None}
    BY <2>1 DEF ReproductionInv, TypeOK, CommandsOK
  <2> QED
    BY <2>1, <2>2, <2>3 DEF AcceptedReversal, Reversal
<1>2. CASE Unfreeze(v)
  <2> DEFINE last == actions[q] = None
  <2>1. /\ v.reversal = "UNFREEZE" /\ q.action = "FREEZE"
        /\ Consumed(v) /\ actions' = actions /\ custody' = custody
        /\ consumedEntitlements' = consumedEntitlements
        /\ SetCase(c, IF last THEN "TERMINAL" ELSE "OPEN", "FREEZE", actions[q])
        /\ overlayHeads' = [overlayHeads EXCEPT ![<<"FREEZE", q.subject>>] = Prior(q).head]
    BY <1>1, <1>2 DEF Unfreeze, Reverses
  <2>2. Prior(q).head = IF last THEN None ELSE [action |-> actions[q], caseId |-> c]
    <3>1. ~ last => actions[q].caseId = c
      <4> DEFINE live == table[c].live
                 n == Len(live)
      <4>1. /\ actions[q] = IF n = 1 THEN None ELSE live[n - 1]
            /\ n \in Nat \ {0} /\ DOMAIN live = 1 .. n /\ CaseLive(c)
        BY ReversedIsLast
      <4>2. \A i \in 1 .. n : live[i].caseId = c
        BY <4>1 DEF CaseLive
      <4> HIDE DEF live, n
      <4>3. n # 1 => n - 1 \in 1 .. n
        BY <4>1
      <4> QED
        BY <4>1, <4>2, <4>3
    <3> QED
      BY <3>1 DEF Prior
  <2>3. "FREEZE" \in Overlay \cup {"CUSTODY"} /\ q.action # "SEIZE"
    BY <2>1 DEF Overlay
  <2> HIDE DEF last
  <2>4. last <=> actions[q] = None
    BY DEF last
  <2> QED
    BY <1>1, <2>1, <2>2, <2>3, <2>4, TakesBack
<1>3. CASE Unrestrict(v)
  <2>1. /\ v.reversal = "UNRESTRICT" /\ q.action = "RESTRICT"
        /\ Consumed(v) /\ actions' = actions /\ custody' = custody
        /\ consumedEntitlements' = consumedEntitlements
        /\ SetCase(c, "TERMINAL", "RESTRICT", None)
        /\ overlayHeads' = [overlayHeads EXCEPT ![<<"RESTRICT", q.subject>>] = None]
    BY <1>1, <1>3 DEF Unrestrict, Reverses
  <2>2. "RESTRICT" \in Overlay \cup {"CUSTODY"} /\ q.action # "SEIZE" /\ actions[q] = None
    BY <1>1, <2>1 DEF Overlay
  <2> QED
    BY <1>1, <2>1, <2>2, TakesBack
<1>4. CASE Release(v)
  <2>1. /\ v.reversal = "RELEASE" /\ q.action = "SEIZE"
        /\ Consumed(v) /\ actions' = actions /\ overlayHeads' = overlayHeads
        /\ custody' = [custody EXCEPT ![c] = None]
        /\ consumedEntitlements' = consumedEntitlements
        /\ SetCase(c, "TERMINAL", "CUSTODY", None)
    BY <1>1, <1>4 DEF Release, Reverses
  <2>2. actions[q] = None /\ \A d \in CaseIds : d # c => custody'[d] = custody[d]
    BY <1>1, <2>1 DEF ReproductionInv, TypeOK
  <2> QED
    BY <1>1, <2>1, <2>2, TakesBack
<1> QED
  BY <1>2, <1>3, <1>4

\* Nothing has been applied: the tables know of no case.
LEMMA TableInit == Init => TableInv
<1> SUFFICES ASSUME Init PROVE TableInv
  OBVIOUS
<1>1. /\ DOMAIN actions = {} /\ consumedCommandIds = {} /\ applied = {}
      /\ consumedNonces = {} /\ consumedEntitlements = {}
      /\ \A c \in CaseIds : table[c] = Blank("NONE", "NONE") /\ cases[c].phase = "NONE"
      /\ \A a \in Overlay, s \in Subjects : overlayHeads[<<a, s>>] = None
  BY DEF Init
<1>2. table \in [CaseIds -> TableCase]
  <2>1. Blank("NONE", "NONE") \in TableCase
    BY DEF Blank, TableCase
  <2> QED
    BY <2>1 DEF Init
<1>3. Spent = {}
  BY <1>1 DEF Spent
<1>4. \A c \in CaseIds : CaseTold(c)
  BY <1>1 DEF CaseTold, Blank
<1>5. \A a \in Overlay, s \in Subjects : HeadTold(a, s)
  BY <1>1 DEF HeadTold
<1> QED
  BY <1>1, <1>2, <1>3, <1>4, <1>5 DEF TableInv

\* Both invariants, step by step: the tables take what the program accepts.
LEMMA TableNext ==
  ASSUME Regular(Shapes, Pairs), ReproductionInv, TableInv, [Next]_vars PROVE TableInv'
<1>1. CASE UNCHANGED vars
  <2>1. UNCHANGED <<cases, overlayHeads, custody, actions, consumedCommandIds,
                    consumedNonces, consumedEntitlements, table, applied>>
    BY <1>1 DEF vars, endpoint
  <2>2. Spent' = Spent
    BY <2>1 DEF Spent
  <2>3. \A c \in CaseIds : CaseTold(c)'
    BY <2>1 DEF TableInv, CaseTold, CaseLive
  <2>4. \A a \in Overlay, s \in Subjects : HeadTold(a, s)'
    BY <2>1 DEF TableInv, HeadTold
  <2>5. \A p \in DOMAIN actions : ActionTold(p)'
    BY <2>1 DEF TableInv, ActionTold
  <2> QED
    BY <2>1, <2>2, <2>3, <2>4, <2>5 DEF TableInv
<1>2. ASSUME NEW r \in Requests, executeAction(r) PROVE TableInv'
  <2>1. Accepted(r)
    BY <1>2, AcceptedIs DEF executeAction, ReproductionInv
  <2>2. "ok" \in ActionAnswers(r)
    BY <1>2, ActionAgrees DEF executeAction
  <2> QED
    BY <1>2, <2>1, <2>2, ActionTabled DEF executeAction, TableTakes
<1>3. ASSUME NEW v \in Reversals, executeReversal(v) PROVE TableInv'
  <2>1. AcceptedReversal(v)
    BY <1>3, AcceptedReversalIs DEF executeReversal, ReproductionInv
  <2>2. "ok" \in ReversalAnswers(v)
    BY <1>3, ReversalAgrees DEF executeReversal
  <2> QED
    BY <1>3, <2>1, <2>2, ReversalTabled DEF executeReversal, TableTakes
<1> QED
  BY <1>1, <1>2, <1>3 DEF Next

\* Whatever shapes and pairs are offered, as long as they keep to what the vectors
\* keep to, the program answers every command with one of the table's answers.
THEOREM VerdictsAgree ==
  ASSUME Regular(Shapes, Pairs) PROVE Spec => []SameVerdict
<1>1. Init => TableInv
  BY TableInit
<1>2. ReproductionInv /\ TableInv /\ [Next]_vars => TableInv'
  BY TableNext
<1>3. ReproductionInv /\ TableInv => SameVerdict
  BY ActionAgrees, ReversalAgrees DEF SameVerdict
<1> QED
  BY <1>1, <1>2, <1>3, ReproductionInvariant, PTL DEF Spec
=============================================================================
