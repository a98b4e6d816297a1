------------------------------ MODULE MCIngest ------------------------------
(* Small instances of Ingest for TLC.                                      *)
EXTENDS Ingest, TLC

CONSTANTS h1, h2, e1, e2, e3

HandlerSymmetry == Permutations(Handlers)
=============================================================================
