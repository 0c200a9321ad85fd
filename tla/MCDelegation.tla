---------------------------- MODULE MCDelegation ----------------------------
(* A small instance of Delegation: one delegatee, two witnesses. *)
EXTENDS Delegation

CONSTANTS p1, w1, w2

MCOneDelegatee  == {p1}
MCTwoWits       == {w1, w2}

=============================================================================
