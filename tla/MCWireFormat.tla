---------------------------- MODULE MCWireFormat ----------------------------
(***************************************************************************)
(* The instance of WireFormat for TLC.                                     *)
(***************************************************************************)
EXTENDS WireFormat

(* The endpoint of the vectors, its address on another chain, and another  *)
(* address.                                                                *)
ThreePlaces ==
  {Endpoint, [Endpoint EXCEPT !.chain = Word(5)], [Endpoint EXCEPT !.address = Word(1112)]}

(* The schema is edited, with one endpoint, or commands travel.  The two   *)
(* meet in the formats alone, and OneFormat says that edits bring no       *)
(* second one into use.                                                    *)
EditsOrCommands ==
  \/ edits' = 0
  \/ completed' = {} /\ DOMAIN deployed' \subseteq {Endpoint}
=============================================================================
