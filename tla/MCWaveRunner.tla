---------------------------- MODULE MCWaveRunner ----------------------------
(* One canonical replay and the negative one of the same claim.            *)
EXTENDS WaveRunner

Sides == <<0, 1>>

(* An edit commutes with every step that does not read what is edited: it  *)
(* happens when a step that reads it may be next.  While the pool is open  *)
(* the sources stand for the closure freeze too, which a launcher verifies *)
(* where it hashes them.                                                   *)
ReadNext(input) ==
  \/ input # "definition" /\ coord.step \in {"preflight", "open", "seal", "reverse"}
  \/ /\ input \in {"sources", "definition"}
     /\ \E j \in Replay : \/ runner[j].step \in {"verify", "prepare", "after"}
                          \/ session[j] = "proof"

EditsMatter == \A input \in drift' \ drift : ReadNext(input)

=============================================================================
