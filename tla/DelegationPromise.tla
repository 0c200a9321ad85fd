-------------------------- MODULE DelegationPromise --------------------------
(***************************************************************************)
(* What a delegatee's and a delegator's agent promise: an event is         *)
(* complete for the delegatee only when it was shown to the delegator and  *)
(* the delegator sealed it, and the delegator accepts only what it sealed. *)
(***************************************************************************)

VARIABLES
  made,     \* delegated events in the delegatees' KELs
  shown,    \* those sent to the delegator
  sealed,   \* those with a seal in the delegator's KEL
  complete, \* those the delegatee's agent reports as approved
  accepted  \* those in the delegator's copy of the delegatees' KELs

vars == <<made, shown, sealed, complete, accepted>>

Init == made = {} /\ shown = {} /\ sealed = {} /\ complete = {} /\ accepted = {}

Make ==
  /\ made \subseteq made'
  /\ UNCHANGED <<shown, sealed, complete, accepted>>

\* Seals never go away, and only events that exist are sealed.
Seal ==
  /\ sealed \subseteq sealed' /\ sealed' \subseteq made
  /\ UNCHANGED <<made, shown, complete, accepted>>

\* The delegatee's agent shows what its witnesses receipted and records what is approved.
Progress ==
  /\ shown \subseteq shown' /\ shown' \subseteq made
  /\ complete \subseteq complete' /\ complete' \subseteq shown' \cap sealed
  /\ UNCHANGED <<made, sealed, accepted>>

Accept ==
  /\ accepted \subseteq accepted' /\ accepted' \subseteq sealed
  /\ UNCHANGED <<made, shown, sealed, complete>>

Next == Make \/ Seal \/ Progress \/ Accept

Spec == Init /\ [][Next]_vars

=============================================================================
