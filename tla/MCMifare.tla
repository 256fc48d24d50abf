------------------------------ MODULE MCMifare ------------------------------
(* Mifare for TLC: the cards are alike. *)
EXTENDS Mifare, TLC
Symmetry == Permutations(Cards)
=============================================================================
