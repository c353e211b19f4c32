------------------------------ MODULE MCEngine ------------------------------
(* Engine with a window of two ticks whose budget comes due unevenly.       *)
EXTENDS Engine

MCShare == [t \in 0..2 |-> <<0, 3, 4>>[t + 1]]

MCLoaded ==
    {[running |-> TRUE, dev |-> FALSE, asns |-> TRUE, mode |-> "volume"],
     [running |-> TRUE, dev |-> TRUE, asns |-> TRUE, mode |-> "ratio"]}
=============================================================================
