----------------------------- MODULE MCLedgers -----------------------------
(* Small instances of Ledgers for TLC.                                     *)
EXTENDS Ledgers, TLC

CONSTANTS p1, p2

ProcSymmetry == Permutations(Procs)
=============================================================================
