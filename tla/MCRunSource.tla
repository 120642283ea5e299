---------------------------- MODULE MCRunSource ----------------------------
(***************************************************************************)
(* Instances of RunSource for TLC.  Keys are records of a station, an      *)
(* instant and whether the code is known, so the maps of the feed are      *)
(* definitions.                                                            *)
(***************************************************************************)
EXTENDS RunSource, TLC

CONSTANTS s1, s2    \* stations

Slot(s, t, known) == [station |-> s, time |-> t, known |-> known]

MCStationOf == [k \in Key |-> k.station]
MCTimeOf    == [k \in Key |-> k.time]
MCUnmapped  == {k \in Key : ~k.known}

\* Two stations and two instants: s2 first shows up while executions run.
TwoStations == {Slot(s1, 0, TRUE), Slot(s2, 1, TRUE)}

\* Unknown codes at two instants, so that dlq entries differ and the trim can
\* drop the last copy of a violation.
Drift == {Slot(s1, 0, TRUE), Slot(s1, 0, FALSE), Slot(s1, 1, FALSE)}

\* One slot with an unknown code, for messages and dead letters between two
\* processes.
DeadLetter == {Slot(s1, 0, FALSE)}

Processes == Permutations(Worker)
=============================================================================
