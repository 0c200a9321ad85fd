----------------------------- MODULE MCReceipts -----------------------------
(* Small instances of Receipts: one or two witnesses. *)
EXTENDS Receipts

CONSTANTS w1, w2

MCOneWit  == {w1}
MCTwoWits == {w1, w2}

=============================================================================
