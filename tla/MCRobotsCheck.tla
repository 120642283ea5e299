--------------------------- MODULE MCRobotsCheck ---------------------------
(***************************************************************************)
(* RobotsCheck for TLC: the coroutines are interchangeable.                *)
(***************************************************************************)
EXTENDS RobotsCheck, TLC

Coroutines == Permutations(Caller)
=============================================================================
