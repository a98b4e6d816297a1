----------------------------- MODULE AtomicApply -----------------------------
(***************************************************************************)
(* What applying a proposal promises (SPEC.md, section 5): a proposal's    *)
(* blocks enter the corpus in one step, with its status, or not at all.    *)
(* Other writers add blocks of their own, an apply that is undone may      *)
(* withdraw those in the files it removes again, and a writer that had     *)
(* read such a file puts them back.                                        *)
(***************************************************************************)
CONSTANTS Proposals,  \* the proposals
          Writes,     \* the blocks each proposal writes
          Foreign     \* the blocks other writers write

VARIABLES status,     \* each proposal's Status
          corpus      \* the blocks a reader finds

vars == <<status, corpus>>

Init ==
    /\ status \in [Proposals -> {"absent", "staged"}]
    /\ corpus = {}

Stage(p) ==
    /\ status[p] = "absent"
    /\ status' = [status EXCEPT ![p] = "staged"]
    /\ UNCHANGED corpus

Apply(p) ==
    /\ status[p] = "staged"
    /\ status' = [status EXCEPT ![p] = "applied"]
    /\ corpus' = corpus \cup Writes[p]

Reject(p) ==
    /\ status[p] = "staged"
    /\ status' = [status EXCEPT ![p] = "rolled_back"]
    /\ UNCHANGED corpus

Write(more) ==
    /\ corpus' = corpus \cup more
    /\ UNCHANGED status

Withdraw(lost) ==
    /\ corpus' = corpus \ lost
    /\ UNCHANGED status

Next ==
    \/ \E p \in Proposals : Stage(p) \/ Apply(p) \/ Reject(p)
    \/ \E more \in SUBSET Foreign : Write(more)
    \/ \E lost \in SUBSET Foreign : Withdraw(lost)

Spec == Init /\ [][Next]_vars
=============================================================================
