---------------------------- MODULE MCTokenFamilies ----------------------------
(* Small instances of TokenFamilies for TLC.                               *)
EXTENDS TokenFamilies, TLC
MCSymmetry == Permutations(Workers)
=============================================================================
