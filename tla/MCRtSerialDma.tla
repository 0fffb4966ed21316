---------------------------- MODULE MCRtSerialDma ----------------------------
(* Instance of RtSerialDma: two threads of one priority and the idle       *)
(* thread.                                                                 *)
EXTENDS RtSerialDma

CONSTANTS a, b, idle

MCThreads == {a, b, idle}
MCPrios == 0 .. 1
MCBase == (a :> 0) @@ (b :> 0) @@ (idle :> 1)
=============================================================================
