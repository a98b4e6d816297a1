----------------------------- MODULE MCFileLock -----------------------------
(* Small instances of FileLock for TLC.                                    *)
EXTENDS FileLock, TLC

CONSTANTS t1, t2, t3, p1, p2, p3, i1, i2, i3

\* Three processes of one thread each, or two processes of one
\* thread each.
OneEach   == (t1 :> p1) @@ (t2 :> p2) @@ (t3 :> p3)
TwoProcs  == (t1 :> p1) @@ (t2 :> p2)

\* Identities are interchangeable, and so are two processes with their only
\* threads, when both may die or neither may.
InodeSymmetry == Permutations(Inodes)
Swap(a, b) == (a :> b) @@ (b :> a)
BothSymmetry ==
    {i @@ p : i \in InodeSymmetry,
              p \in {(t2 :> t2), Swap(t2, t3) @@ Swap(p2, p3)}}
=============================================================================
