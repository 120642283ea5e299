------------------------------ MODULE MCBackfill ------------------------------
(***************************************************************************)
(* Instances of Backfill for TLC.  The slot lies at the midnight between   *)
(* the two days, so that both daily windows hold it.                       *)
(***************************************************************************)
EXTENDS Backfill

CONSTANTS s1

MCStationOf == [k \in Key |-> k.station]
MCTimeOf    == [k \in Key |-> k.time]
MCUnmapped  == {k \in Key : ~k.known}

Midnight == {[station |-> s1, time |-> 1, known |-> TRUE]}
=============================================================================
