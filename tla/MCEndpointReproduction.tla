----------------------- MODULE MCEndpointReproduction -----------------------
(***************************************************************************)
(* Small instances of EndpointReproduction: what the vectors exercise,     *)
(* varied, and what they leave out.                                        *)
(***************************************************************************)
EXTENDS EndpointReproduction

CONSTANTS s1, s2, c1, c2, c3

Kinds == Overlay \cup Disposition \cup {"SEIZE"}

Amended(x) == [x EXCEPT !.amount = 2]

\* A request that breaks the common rules, two at a time.
Broken ==
  {[ActionVector("FREEZE", s1, c1) EXCEPT !.wrong = w] :
     w \in {{"DOMAIN", "IDENTIFIER"}, {"IDENTIFIER", "TIME"},
            {"TIME", "DEPENDENCY_BINDING"}, {"DEPENDENCY_BINDING"}}}

\* One request per way of getting a field wrong.
Malformed ==
  {[ActionVector("FREEZE", s1, c1) EXCEPT !.source = Buyer],
   [ActionVector("RESTRICT", s1, c1) EXCEPT !.amount = 1],
   [ActionVector("SEIZE", s1, c1) EXCEPT !.custodian = Zero],
   [ActionVector("CONFISCATE", s1, c1) EXCEPT !.entitlement = Entitlement],
   [ActionVector("LIQUIDATE", s1, c1) EXCEPT !.commitments = {"settlement"}],
   [ActionVector("RECOVER", s1, c1) EXCEPT !.entitlement = Zero]}

\* Each case has its subject: two cases of one, one of the other.
VectorShapes ==
  LET owner == [c \in {c1, c2, c3} |-> IF c = c3 THEN s2 ELSE s1]
      ofCase(c) == {ActionVector(k, owner[c], c) : k \in Kinds}
                     \cup {Amended(ActionVector("FREEZE", owner[c], c)),
                           CustodyVector(owner[c], c),
                           Amended(CustodyVector(owner[c], c))}
  IN  UNION {ofCase(c) : c \in CaseIds} \cup Broken \cup Malformed

\* A second subject in an open case, and recovery out of custody.
FurtherShapes ==
  {ActionVector(k, s, c1) : k \in Kinds, s \in Subjects}
    \cup UNION {{ActionVector("SEIZE", s1, c), ActionVector("RECOVER", s1, c),
                 [ActionVector("RECOVER", s1, c) EXCEPT !.source = Custodian]} :
                c \in CaseIds}

\* A reversal that does not pair is offered where the action closes its case.
VectorPairs ==
  {<<"UNFREEZE", "FREEZE">>, <<"RELEASE", "SEIZE">>, <<"UNRESTRICT", "RESTRICT">>,
   <<"RELEASE", "RESTRICT">>, <<"UNFREEZE", "SEIZE">>}

\* What the theorem on the verdicts asks of what is offered.
ASSUME VectorsAreRegular == Regular(VectorShapes, VectorPairs)

=============================================================================
