------------------------------ MODULE MCRecall ------------------------------
(* Small instances of Recall for TLC.                                      *)
EXTENDS Recall, TLC

CONSTANTS r1, r2, w1, w2

\* The cache without the served ledger, over an index or the corpus, or the
\* ledger without the cache.
EitherOne == {<<TRUE, FALSE, FALSE>>, <<TRUE, FALSE, TRUE>>, <<FALSE, TRUE, FALSE>>}

\* Three recalls where they are recorded: a row can be one behind its seal from
\* the second row on.  Two where they share a cache.
ThreeOrTwo == [s \in EitherOne |-> IF s[2] THEN 3 ELSE 2]

WorkerSymmetry == Permutations(Readers) \cup Permutations(Writes)
=============================================================================
