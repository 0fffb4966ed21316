------------------------------ MODULE MCRtEvent ------------------------------
(* Instance of RtEvent: an urgent thread, a second one and the idle thread. *)
EXTENDS RtEvent

CONSTANTS hi, a, idle

TwoThreads == {hi, a, idle}
TwoPrios == (hi :> 0) @@ (a :> 1) @@ (idle :> 2)
MCPrios == 0 .. 2
=============================================================================
