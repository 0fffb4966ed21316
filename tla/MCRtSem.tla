------------------------------- MODULE MCRtSem -------------------------------
(* Instances of RtSem: an urgent thread, two peers and the idle thread. *)
EXTENDS RtSem

CONSTANTS hi, a, b, idle

MCThreads == {hi, a, b, idle}
MCPrios == 0 .. 2
MCBasePrio == (hi :> 0) @@ (a :> 1) @@ (b :> 1) @@ (idle :> 2)
MCInitValues == {0, 1}
=============================================================================
