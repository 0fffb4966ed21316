------------------------------ MODULE MCOmvIde ------------------------------
(***************************************************************************)
(* The main thread and the USB interrupt with two pictures and transfers   *)
(* of two packets.                                                         *)
(***************************************************************************)
EXTENDS OmvIde

CONSTANTS a, b

MCFrames == {a, b}

=============================================================================
