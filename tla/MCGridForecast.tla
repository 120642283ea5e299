--------------------------- MODULE MCGridForecast ---------------------------
(***************************************************************************)
(* GridForecast for TLC, in units of an hour and a half: cycles and        *)
(* cadence 6 h, dissemination after nine hours.  GridLabels.cfg has the    *)
(* real day, with steps of 0, 6, 12 and 24 h; Grid.cfg shortens the day to *)
(* three cycles, with steps of 0, 6, 12 and 18 h.  An execution may begin  *)
(* in any phase of a cadence.                                              *)
(***************************************************************************)
EXTENDS GridForecast, TLC

Processes == Permutations(Worker)
=============================================================================
