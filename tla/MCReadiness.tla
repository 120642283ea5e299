----------------------------- MODULE MCReadiness -----------------------------
(***************************************************************************)
(* Instances of Readiness for TLC: the probes are model values.            *)
(***************************************************************************)
EXTENDS Readiness
=============================================================================
