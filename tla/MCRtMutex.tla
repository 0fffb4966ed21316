------------------------------ MODULE MCRtMutex ------------------------------
(* Instances of RtMutex: two or three threads of different priorities and    *)
(* the idle thread, on one or two mutexes.                                   *)
EXTENDS RtMutex

CONSTANTS hi, mid, lo, idle

ThreeThreads == {hi, mid, lo, idle}
TwoThreads == {hi, lo, idle}
ThreePrios == (hi :> 0) @@ (mid :> 1) @@ (lo :> 2) @@ (idle :> 3)
TwoPrios == (hi :> 0) @@ (lo :> 2) @@ (idle :> 3)
MCPrios == 0 .. 3
=============================================================================
