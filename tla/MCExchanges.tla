---------------------------- MODULE MCExchanges ----------------------------
(***************************************************************************)
(* A small instance of Exchanges: a group of three members with a grant,   *)
(* one of two with a grant that does not work everywhere, and an           *)
(* identifier of one of them with messages of all kinds and outcomes.      *)
(***************************************************************************)
EXTENDS Exchanges, TLC

CONSTANTS
  grant, half,        \* grants of the groups
  lost,               \* a grant of a credential the agent does not have
  admit, void, stale, \* admits: of a good grant, of none, of one the agent does not have
  apply, far          \* other messages, the last to a recipient out of reach

MCMembers == 1..3
MCMsgs    == {grant, half, lost, admit, void, stale, apply, far}
MCKind    == [x \in {grant, half, lost} |-> "grant"] @@
             [x \in {admit, void, stale} |-> "admit"] @@
             apply :> "ipex" @@ far :> "challenge"

\* The groups' grants need two signatures; the second member's request is not led in one of them.
MCSigners   == grant :> MCMembers @@ half :> 1..2 @@ [x \in MCMsgs |-> {1}]
MCThreshold == [x \in {grant, half} |-> 2] @@ [x \in MCMsgs |-> 1]
MCLed       == half :> {1} @@ MCSigners
MCOutcome   ==
  [m \in MCMembers |->
     void :> "dropped" @@ [x \in {lost, stale} |-> "raises"] @@
     far :> "unreachable" @@ half :> (IF m = 2 THEN "fine" ELSE "dropped") @@
     [x \in MCMsgs |-> "fine"]]

MCBounds == [posted : {{grant}, {half}}, stops : {0}] \cup
            [posted : {{admit, apply}, {admit, void}, {far, lost}, {apply, stale}}, stops : {1}]

=============================================================================
