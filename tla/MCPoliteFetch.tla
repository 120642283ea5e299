---------------------------- MODULE MCPoliteFetch ----------------------------
(***************************************************************************)
(* Instances of PoliteFetch for TLC: a client with two coroutines, which   *)
(* race through the initialisation of its limiter, and one with a single   *)
(* coroutine.                                                              *)
(***************************************************************************)
EXTENDS PoliteFetch, TLC

CONSTANTS a1, a2, b1, p, q

MCClientOf == [c \in Author |-> IF c = b1 THEN q ELSE p]

Symmetric == Permutations({a1, a2}) \cup Permutations(Rotation)
=============================================================================
