---------------------------- MODULE MCRemoteState ---------------------------
(* A small instance of RemoteState: two sources. *)
EXTENDS RemoteState

MCSources == 1..2

=============================================================================
