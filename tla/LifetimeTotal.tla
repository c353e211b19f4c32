--------------------------- MODULE LifetimeTotal ---------------------------
(***************************************************************************)
(* What the synchronizer promises about the lifetime totals of an          *)
(* interface, without raw counters, offsets or files:                      *)
(*   - a total that is shown never exceeds what the counters have shown to *)
(*     pass;                                                               *)
(*   - while the service is up a shown total only grows: it falls in no    *)
(*     step that leaves the service up;                                    *)
(*   - the end of a life falls back to the newest saved total, not lower,  *)
(*     and a loss of power to the one that was journalled.                 *)
(***************************************************************************)
EXTENDS Integers

CONSTANT Dir            \* the directions that are counted

VARIABLES counted,      \* bytes the counters have shown to pass
          up,           \* the service runs
          shown,        \* the totals it answers with; without it, those the next will
          saved,        \* the totals that survive a kill
          kept          \* the totals that survive a loss of power

vars == <<counted, up, shown, saved, kept>>

f \preceq g == \A d \in Dir : f[d] <= g[d]

Totals == [Dir -> Nat]

Nothing == [d \in Dir |-> 0]

Init ==
    /\ counted \in Totals
    /\ up = FALSE
    /\ shown = Nothing /\ saved = Nothing /\ kept = Nothing

Count ==
    /\ counted' \in Totals
    /\ counted \preceq counted'
    /\ UNCHANGED <<up, shown, saved, kept>>

Begin == ~up /\ up' = TRUE /\ UNCHANGED <<counted, shown, saved, kept>>

Observe ==
    /\ up
    /\ shown' \in Totals
    /\ shown \preceq shown'
    /\ shown' \preceq counted
    /\ UNCHANGED <<counted, up, saved, kept>>

\* The last save of a life ends it.
Save ==
    /\ up
    /\ up' \in BOOLEAN
    /\ saved' = shown
    /\ UNCHANGED <<counted, shown, kept>>

Keep == kept' = saved /\ UNCHANGED <<counted, up, shown, saved>>

End == up /\ up' = FALSE /\ shown' = saved /\ UNCHANGED <<counted, saved, kept>>

PowerLoss == up' = FALSE /\ shown' = kept /\ saved' = kept /\ UNCHANGED <<counted, kept>>

Next == Count \/ Begin \/ Observe \/ Save \/ Keep \/ End \/ PowerLoss

Spec == Init /\ [][Next]_vars
=============================================================================
