--------------------------- MODULE MCSynchronizer ---------------------------
(* Model checking of Synchronizer: two bytes carried, in one direction or in *)
(* both, are enough for a counter to fall below its total and to pass it     *)
(* again; one more byte is shown again by a selection.                       *)
EXTENDS Synchronizer
=============================================================================
