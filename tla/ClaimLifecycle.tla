--------------------------- MODULE ClaimLifecycle ---------------------------
(***************************************************************************)
(* What the queue promises of its claims, whatever it is made of: a lead   *)
(* is taken by one claim at a time, an invitation is recorded only for a   *)
(* lead that is taken, and a lead on record as invited is never taken      *)
(* again.  OutreachSystem implements it (Lifecycle in OutreachProperties).  *)
(***************************************************************************)
CONSTANT Leads

VARIABLES held,     \* the leads that are claimed
          invited   \* the leads on record as invited

vars == <<held, invited>>

Init == held = {} /\ invited = {}

Take(l) ==
    /\ l \notin held /\ l \notin invited
    /\ held' = held \cup {l}
    /\ UNCHANGED invited

Settle(l) ==
    /\ l \in held
    /\ held' = held \ {l}
    /\ invited' = invited \cup {l}

\* A failure, the reaper, or an operator gives the lead back.
Release(l) ==
    /\ l \in held
    /\ held' = held \ {l}
    /\ UNCHANGED invited

Next == \E l \in Leads : Take(l) \/ Settle(l) \/ Release(l)

Spec == Init /\ [][Next]_vars
=============================================================================
