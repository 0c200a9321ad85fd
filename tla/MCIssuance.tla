----------------------------- MODULE MCIssuance -----------------------------
(* Small instances of Issuance: one registry, one credential, one or two witnesses. *)
EXTENDS Issuance, TLC

CONSTANTS r1, c1, w1, w2

MCRegistries  == {r1}
MCOneCred     == {c1}
MCOneWit      == {w1}
MCTwoWits     == {w1, w2}
MCRegistryOfOne == [c \in MCOneCred |-> r1]
WitSymmetry   == Permutations(MCTwoWits)

=============================================================================
