------------------------------ MODULE MCIndex -------------------------------
(* Small instances of Index for TLC.                                       *)
EXTENDS Index, TLC

CONSTANTS f1, f2, b1, b2, r1

BuilderSymmetry == Permutations(Builders)
=============================================================================
