------------------------------- MODULE MCDisk -------------------------------
(***************************************************************************)
(* Model checking of Disk.  The overrides and bodies are chosen so that    *)
(* each is valid alone and some are invalid together, one file is not      *)
(* valid and one body names a state file that cannot be opened; a record   *)
(* of 4 is longer than the log's limit of 3; two backups are the fewest    *)
(* that shift.                                                             *)
(***************************************************************************)
EXTENDS Disk

NoOverride == <<>>

MCFiles  == {[interval_min |-> 10], [multiplier |-> 20]}
MCEnvs   == {NoOverride, [interval_max |-> 5], [port_min |-> Unparsed]}
MCFlags  == {NoOverride, [multiplier |-> 20], [stopped |-> TRUE]}
MCBodies == {[interval_min |-> 10], [port_min |-> 65535], [max_datagram |-> 64],
             [dev_target |-> "bad"], [state_file |-> "bad"]}

MCUnopened == {"bad"}

\* What does not move stays in one initial state.
MCInit ==
    /\ DInit
    /\ moving = "log" \/ maxBackups = 0
    /\ moving = "audit" \/ running
    /\ moving = "config" \/ file = Missing

MCSpec == MCInit /\ [][DNext]_<<moving, logFiles, auditFile, configFile>>
=============================================================================
