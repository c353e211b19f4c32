---------------------------- MODULE MCStateFile ----------------------------
(* Model checking of StateFile.  Three files: the live one, the journalled   *)
(* one and the temporary one.                                                *)
EXTENDS StateFile
=============================================================================
