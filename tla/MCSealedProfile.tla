-------------------------- MODULE MCSealedProfile --------------------------
(***************************************************************************)
(* A small instance of SealedProfile for TLC.                              *)
(***************************************************************************)
EXTENDS SealedProfile

\* Two tokens in one hand, so that a seizure may take part or all of them.
Rich == CHOOSE h \in Holders : TRUE
Balances == [a \in Accounts |-> IF a = Rich THEN 2 ELSE 0]

Interchangeable == Permutations(Nonces) \cup Permutations(CaseIds)
=============================================================================
