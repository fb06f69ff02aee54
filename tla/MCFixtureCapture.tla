-------------------------- MODULE MCFixtureCapture --------------------------
(* Two captures of a kind at once; captures that build on another's files. *)
EXTENDS FixtureCapture

CapturePlans ==
  {<<"runtime", "runtime">>, <<"runtime", "sep04">>, <<"sep04", "sep04">>,
   <<"highBits", "highBits">>, <<"act01", "act01", "footprint">>,
   <<"act01", "footprint", "footprint">>}

(* Captures and replays of ACT-01 share no port and no file but the result *)
(* a replay starts from, so their steps commute: the captures come first.  *)
CapturesFirst ==
  \A d \in DOMAIN driver :
    K(d) = "footprint" /\ driver[d].state = "off"
                       /\ driver'[d].state = "running" =>
      \A c \in DOMAIN driver : K(c) = "act01" => driver[c].state # "running"

(* What nobody in the plan reads need not be edited; and to ACT-01 an edit *)
(* is what it is to the high-bits run, a reason to fail at one step.       *)
EditsMatter ==
  edits' # edits =>
    \/ \E d \in DOMAIN driver : K(d) = "runtime"
    \/ /\ compiler'.sources # compiler.sources
       /\ \A d \in DOMAIN driver : K(d) # "act01"

=============================================================================
