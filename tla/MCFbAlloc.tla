----------------------------- MODULE MCFbAlloc -----------------------------
(***************************************************************************)
(* Instances of FbAlloc for TLC: a stack of a few words, requests that     *)
(* round up to one and to two words, and an overlay that runs out first.   *)
(***************************************************************************)
EXTENDS FbAlloc

\* One byte rounds up to a word, five bytes to two.
MCSizes == {1, 5}
MCBothHints == {"NO_HINT", "PREFER_SIZE"}
MCWordWrap == 2^30
=============================================================================
