---------------------------- MODULE MCApplyEngine ----------------------------
(* Small instances of ApplyEngine for TLC.                                 *)
EXTENDS ApplyEngine, TLC

CONSTANTS a1, a2, w1, p1, p2, f1, f2, f3, f4, b1, b2, b3, b4, b5, b6

Oper(file, writes) == [file |-> file, writes |-> writes]

\* p1 writes two blocks to one file and one to another; p2 shares that one.
TwoFiles == (p1 :> <<Oper(f1, <<b1, b2>>), Oper(f2, <<b3>>)>>)
         @@ (p2 :> <<Oper(f2, <<b4>>)>>)

\* Every block at home in the file its op names; other writers write b5 to a
\* file no op touches and b6 to one that is not there at first.
AtHome == (b1 :> f1) @@ (b2 :> f1) @@ (b3 :> f2) @@ (b4 :> f2)
       @@ (b5 :> f3) @@ (b6 :> f4)

\* The same without b6 and its file.
AtHomeOnly == [b \in Blocks |-> AtHome[b]]

\* The first of them alone, when there is no other.
TheirOps == [p \in Proposals |-> TwoFiles[p]]

\* All in one directory, so that every sweep looks at every file.
ApplierSymmetry == Permutations(Appliers)
OneRoot == [f \in Files |-> "decisions"]
=============================================================================
