------------------------------ MODULE MCAgency ------------------------------
(***************************************************************************)
(* Model checking instances of Agency.                                     *)
(***************************************************************************)
EXTENDS Agency

CONSTANTS c1, c2, m1

MCControllers   == {c1, c2}
MCOneAid        == {m1}
MCNoAid         == {}

=============================================================================
