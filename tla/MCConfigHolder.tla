--------------------------- MODULE MCConfigHolder ---------------------------
(* Model checking of ConfigHolder: two handlers, bodies that change a scalar,*)
(* set running, or append an ASN to the list; in the second configuration    *)
(* also one that replaces the list.                                          *)
EXTENDS ConfigHolder

CONSTANTS asnA, asnB

MCInitial == [running |-> TRUE, dev |-> FALSE, rest |-> 0, asns |-> <<asnA>>]

MCBodies == {[rest |-> 1], [running |-> FALSE, rest |-> 2], [asns |-> <<asnA, asnB>>], [asns |-> <<>>]}

MCListBodies == {[asns |-> <<asnB>>], [rest |-> 1]}
=============================================================================
