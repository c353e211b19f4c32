----------------------------- MODULE MCFigures -----------------------------
(***************************************************************************)
(* Model checking of Figures.                                              *)
(*   - A ring of two samples and three of them: it overflows.  A byte      *)
(*     between two resets makes a speed, and a spike if one is drawn.      *)
(*   - Four hours are the fewest with four different neighbours; next to a *)
(*     9 the spline through zeros dips below zero.  Of a budget of 10 two  *)
(*     workers get quotas of 5, the least with a jitter.                   *)
(*   - Five IPv4 addresses in four networks and an IPv6 network, in every  *)
(*     assignment to two ASNs or none; an ASN may have as many prefixes of *)
(*     one country as of another.                                          *)
(*   - The percentiles that are charged, up to a month of samples.         *)
(***************************************************************************)
EXTENDS Figures, TLC

Net(base, bits, v4) == [base |-> base, bits |-> bits, v4 |-> v4]

MCNetworks ==
    <<Net(0, 1, TRUE), Net(2, 0, TRUE), Net(3, 0, TRUE), Net(4, 0, TRUE), Net(0, 1, FALSE)>>

MCCountryOf(i) == <<"DE", "IR", "IR", "", "IR">>[i]

\* What does not move stays in one initial state.
MCInit ==
    /\ FInit
    /\ moving = "gauges" \/ capacity = 0
    /\ moving = "volume" \/ (windowStart = 0 /\ \A h \in DOMAIN anchors : anchors[h] = 0)
    /\ moving = "draw" \/ \A i \in DOMAIN owner : owner[i] = 0
    /\ moving = "rule" \/ percentile = 95

\* Which worker is which is nowhere decided.
Symmetry == Permutations(Workers)

MCSpec == MCInit /\ [][FNext]_<<moving, registry, gauges, volume, draw, rule>>
=============================================================================
