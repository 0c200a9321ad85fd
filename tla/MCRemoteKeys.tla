---------------------------- MODULE MCRemoteKeys ----------------------------
(***************************************************************************)
(* Model checking instances of RemoteKeys.                                 *)
(***************************************************************************)
EXTENDS RemoteKeys

CONSTANTS s1, s2, r1

MCOneSalty  == {s1}
MCTwoSalty  == {s1, s2}
MCOneRandy  == {r1}

=============================================================================
