------------------------- MODULE CredentialLifecycle -------------------------
(***************************************************************************)
(* What an agent promises of the TEL events of its registries and of the   *)
(* credentials issued in them: an event is anchored in the KEL after the   *)
(* events it builds on, published when it is anchored, and a credential is *)
(* complete only when its issuance is published.                           *)
(***************************************************************************)
EXTENDS Integers

CONSTANTS
  Registries, \* credential registries (regk)
  Creds,      \* credentials (said)
  RegistryOf  \* the registry each credential is issued in: a function

\* A TEL event is named by the identifier of its log and its sequence number there.
Inception(r)  == <<r, 0>>
Issuance(c)   == <<c, 0>>
Revocation(c) == <<c, 1>>
Tels == (Registries \X {0}) \cup (Creds \X {0, 1})

\* The event that must precede a TEL event, if any.
Prior(t) ==
  IF t[1] \in Registries THEN {}
  ELSE IF t[2] = 0 THEN {Inception(RegistryOf[t[1]])} ELSE {Issuance(t[1])}

VARIABLES
  anchored,  \* TEL events with a seal in the KEL
  published, \* TEL events sent to the witnesses
  complete   \* credentials whose issuance is complete

vars == <<anchored, published, complete>>

Init ==
  /\ anchored = {}
  /\ published = {}
  /\ complete = {}

Anchor(t) ==
  /\ Prior(t) \subseteq anchored
  /\ anchored' = anchored \cup {t}
  /\ UNCHANGED <<published, complete>>

Publish(t) ==
  /\ t \in anchored
  /\ published' = published \cup {t}
  /\ UNCHANGED <<anchored, complete>>

Complete(c) ==
  /\ Issuance(c) \in published
  /\ complete' = complete \cup {c}
  /\ UNCHANGED <<anchored, published>>

Next ==
  \/ \E t \in Tels : Anchor(t) \/ Publish(t)
  \/ \E c \in Creds : Complete(c)

Spec == Init /\ [][Next]_vars

=============================================================================
