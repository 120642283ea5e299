----------------------------- MODULE MCAggregates -----------------------------
(***************************************************************************)
(* Instances of Aggregates for TLC: two rows of one hour and one of the    *)
(* next, in one day.                                                       *)
(***************************************************************************)
EXTENDS Aggregates

MCRow == {[hour |-> 0, no |-> 1], [hour |-> 0, no |-> 2], [hour |-> 1, no |-> 1]}
MCHourOf == [r \in Row |-> r.hour]
=============================================================================
