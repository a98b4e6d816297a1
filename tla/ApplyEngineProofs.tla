--------------------------- MODULE ApplyEngineProofs ---------------------------
(***************************************************************************)
(* Proofs about ApplyEngine for any appliers, writers, proposals and files *)
(* and whatever may fail.                                                  *)
(***************************************************************************)
EXTENDS ApplyEngine, SequenceTheorems, TLAPS

\* A valid proposal has a first op.
LEMMA FirstOp ==
    ASSUME NEW p \in Proposals
    PROVE  /\ Len(OpsOf[p]) \in Nat
           /\ DOMAIN OpsOf[p] = 1..Len(OpsOf[p])
           /\ 1 \in DOMAIN OpsOf[p]
  BY ProposalsAreValid

\* An op of a valid proposal names a corpus file and has a first write.
LEMMA FirstWrite ==
    ASSUME NEW p \in Proposals, NEW i \in DOMAIN OpsOf[p]
    PROVE  /\ OpsOf[p][i].file \in Files
           /\ OpsOf[p][i].writes \in Seq(Blocks)
           /\ DOMAIN OpsOf[p][i].writes = 1..Len(OpsOf[p][i].writes)
           /\ 1 \in DOMAIN OpsOf[p][i].writes
<1>1. OpsOf[p] \in Seq([file : Files, writes : Seq(Blocks)])
  BY ProposalsAreValid
<1>2. OpsOf[p][i] \in [file : Files, writes : Seq(Blocks)]
  BY <1>1, FirstOp, ElementOfSeq
<1>3. OpsOf[p][i].writes # <<>>
  BY ProposalsAreValid
<1>4. QED
  BY <1>2, <1>3

\* Every block is at home in a corpus file.
LEMMA HomesAreFiles ==
    ASSUME NEW b \in Blocks
    PROVE  HomeOf[b] \in Files
  BY ProposalsAreValid

\* The first and the last entry of the journal can be undone, and what is
\* left without them is a journal.
LEMMA EntriesAreSound ==
    ASSUME TypeOK, journal # <<>>
    PROVE  /\ Head(journal) \in Entries /\ Last(journal) \in Entries
           /\ Tail(journal) \in Seq(Entries) /\ Front(journal) \in Seq(Entries)
           /\ Len(Tail(journal)) = Len(journal) - 1
           /\ Len(Front(journal)) = Len(journal) - 1
           /\ Len(journal) \in Nat
<1>1. journal \in Seq(Entries) /\ Len(journal) \in Nat /\ Len(journal) > 0
  BY DEF TypeOK
<1>2. Last(journal) \in Entries
  BY <1>1 DEF Last
<1>3. Front(journal) \in Seq(Entries) /\ Len(Front(journal)) = Len(journal) - 1
  BY <1>1 DEF Front
<1>4. QED
  BY <1>1, <1>2, <1>3

\* Putting a file back leaves a corpus.
LEMMA CorpusAfterPutBack ==
    ASSUME TypeOK, NEW f \in Files, NEW existed \in BOOLEAN,
           NEW blocks \in SUBSET Blocks, PutBack(f, existed, blocks)
    PROVE  present' \subseteq Files /\ content' \in [Files -> SUBSET Blocks]
  BY DEF PutBack, TypeOK

\* The history of successes counts no further than MaxWins.
LEMMA HistoryStep ==
    ASSUME TypeOK, NEW a \in Appliers, Succeeded(a)
    PROVE  wins' \in [Proposals -> 0..MaxWins]
<1>1. CASE cause[a] # "ok"
  BY <1>1 DEF Succeeded, TypeOK
<1>2. CASE cause[a] = "ok"
  <2> DEFINE more == IF wins[prop[a]] < MaxWins THEN wins[prop[a]] + 1
                                               ELSE wins[prop[a]]
  <2>1. wins' = [wins EXCEPT ![prop[a]] = more]
    BY <1>2 DEF Succeeded
  <2>2. CASE prop[a] \in Proposals
    <3>1. more \in 0..MaxWins
      BY <2>2 DEF TypeOK, MaxWins
    <3>2. QED
      BY <2>1, <3>1 DEF TypeOK
  <2>3. CASE prop[a] \notin Proposals
    BY <2>1, <2>3 DEF TypeOK
  <2>4. QED
    BY <2>2, <2>3
<1>3. QED
  BY <1>1, <1>2

\* Undoing a journal entry leaves a corpus.
LEMMA CorpusAfterUndo ==
    ASSUME TypeOK, NEW e \in Entries, PutBack(e.file, e.existed, e.backup)
    PROVE  present' \subseteq Files /\ content' \in [Files -> SUBSET Blocks]
<1>1. e.file \in Files /\ e.existed \in BOOLEAN /\ e.backup \in SUBSET Blocks
  BY DEF Entries
<1>2. QED
  BY <1>1, CorpusAfterPutBack

\* Every step keeps the types.
LEMMA TypeStep ==
    ASSUME TypeOK, Equipped, [Next]_vars
    PROVE  TypeOK'
<1>1. ASSUME NEW a \in Appliers, TakeWorkspace(a) PROVE TypeOK'
  BY <1>1 DEF TakeWorkspace, Goto, corpus, ledger, others, locals, TypeOK,
     PCs, Receipts, Statuses
<1>2. ASSUME NEW a \in Appliers, WorkspaceTimeout(a) PROVE TypeOK'
  BY <1>2 DEF WorkspaceTimeout, Forget, corpus, ledger, others, Goto, TypeOK,
     PCs, Receipts, Statuses
<1>3. ASSUME NEW a \in Appliers, Recheck(a) PROVE TypeOK'
  BY <1>3 DEF Recheck, Goto, corpus, ledger, others, locals, TypeOK, PCs,
     Receipts, Statuses
<1>4. ASSUME NEW a \in Appliers, Replay(a) PROVE TypeOK'
  <2>1. CASE journal = <<>>
    BY <1>4, <2>1 DEF Replay, Goto, corpus, ledger, others, locals, TypeOK, PCs
  <2>2. CASE journal # <<>>
    <3>1. /\ PutBack(Head(journal).file, Head(journal).existed,
                     Head(journal).backup)
          /\ journal' = Tail(journal) /\ UNCHANGED pc
      BY <1>4, <2>2 DEF Replay
    <3>2. present' \subseteq Files /\ content' \in [Files -> SUBSET Blocks]
      BY <2>2, <3>1, EntriesAreSound, CorpusAfterUndo
    <3>3. journal' \in Seq(Entries)
      BY <2>2, <3>1, EntriesAreSound
    <3>4. QED
      BY <1>4, <3>1, <3>2, <3>3 DEF Replay, ledger, others, locals, TypeOK
  <2>3. QED
    BY <2>1, <2>2
<1>5. ASSUME NEW a \in Appliers, ListFiles(a) PROVE TypeOK'
  BY <1>5 DEF ListFiles, Goto, corpus, ledger, others, TypeOK, PCs, Receipts,
     Statuses
<1>6. ASSUME NEW a \in Appliers, TakeSnapshot(a) PROVE TypeOK'
  <2>1. prop[a] \in Proposals /\ snapshot \in [Proposals -> Snapshots \cup {None}]
    BY <1>6 DEF TakeSnapshot, Equipped, TypeOK
  <2>2. /\ Touched(prop[a]) \cap present \subseteq Files
        /\ InRootsOf(Touched(prop[a])) \cap present \subseteq Files
        /\ [f \in Files |-> IF f \in Touched(prop[a]) THEN content[f] ELSE {}]
             \in [Files -> SUBSET Blocks]
    BY DEF InRootsOf, TypeOK
  <2>3. snapshot' \in [Proposals -> Snapshots \cup {None}]
    BY <1>6, <2>1, <2>2 DEF TakeSnapshot, Snapshots
  <2>4. QED
    BY <1>6, <2>1, <2>3 DEF TakeSnapshot, Goto, corpus, ledger, others, locals,
       TypeOK, PCs, Receipts
<1>7. ASSUME NEW a \in Appliers, Unmeasurable(a) PROVE TypeOK'
  BY <1>7 DEF Unmeasurable, Goto, corpus, ledger, others, TypeOK, PCs,
     Receipts, Statuses
<1>8. ASSUME NEW a \in Appliers, WriteReceipt(a) PROVE TypeOK'
  BY <1>8 DEF WriteReceipt, Goto, corpus, ledger, others, locals, TypeOK, PCs,
     Receipts, Statuses
<1>9. ASSUME NEW a \in Appliers, Begin(a) PROVE TypeOK'
  <2>1. /\ prop[a] \in Proposals /\ op[a] \in DOMAIN OpsOf[prop[a]]
        /\ journal' = Append(journal, [file    |-> Op(a).file,
                                       existed |-> Op(a).file \in present,
                                       backup  |-> content[Op(a).file]])
    BY <1>9 DEF Begin, Equipped
  <2>2. Op(a).file \in Files
    BY <2>1, FirstWrite DEF Op
  <2>3. [file |-> Op(a).file, existed |-> Op(a).file \in present,
         backup |-> content[Op(a).file]] \in Entries
    BY <2>2 DEF Entries, TypeOK
  <2>4. journal' \in Seq(Entries)
    BY <2>1, <2>3 DEF TypeOK
  <2>5. QED
    BY <1>9, <2>4 DEF Begin, Goto, corpus, ledger, others, locals, TypeOK, PCs
<1>10. ASSUME NEW a \in Appliers, WriteBlock(a) PROVE TypeOK'
  <2> DEFINE b == Op(a).writes[nth[a]]
  <2>1. /\ prop[a] \in Proposals /\ op[a] \in DOMAIN OpsOf[prop[a]]
        /\ nth[a] \in DOMAIN Op(a).writes
    BY <1>10 DEF WriteBlock, Equipped
  <2>2. b \in Blocks
    BY <2>1, FirstWrite DEF Op
  <2>3. HomeOf[b] \in Files
    BY <2>2, HomesAreFiles
  <2>4. present' \subseteq Files /\ content' \in [Files -> SUBSET Blocks]
    BY <1>10, <2>2, <2>3 DEF WriteBlock, TypeOK
  <2>5. pc' \in [Appliers -> PCs] /\ nth' \in [Appliers -> Nat]
    <3>1. \/ UNCHANGED pc /\ nth' = [nth EXCEPT ![a] = nth[a] + 1]
          \/ pc' = [pc EXCEPT ![a] = "commit"] /\ nth' = [nth EXCEPT ![a] = 1]
      BY <1>10 DEF WriteBlock, Goto
    <3>2. nth[a] \in Nat /\ nth[a] + 1 \in Nat
      BY DEF TypeOK
    <3>3. pc' \in [Appliers -> PCs]
      BY <3>1 DEF TypeOK, PCs
    <3>4. nth' \in [Appliers -> Nat]
      <4>1. PICK n \in Nat : nth' = [nth EXCEPT ![a] = n]
        BY <3>1, <3>2
      <4>2. QED
        BY <4>1 DEF TypeOK
    <3>5. QED
      BY <3>3, <3>4
  <2>6. QED
    BY <1>10, <2>4, <2>5 DEF WriteBlock, ledger, others, TypeOK
<1>11. ASSUME NEW a \in Appliers, OpFails(a) PROVE TypeOK'
  BY <1>11 DEF OpFails, Goto, corpus, ledger, others, locals, TypeOK, PCs,
     Receipts, Statuses
<1>12. ASSUME NEW a \in Appliers, OpEscapes(a) PROVE TypeOK'
  BY <1>12 DEF OpEscapes, Goto, corpus, ledger, others, locals, TypeOK, PCs,
     Receipts, Statuses
<1>13. ASSUME NEW a \in Appliers, Commit(a) PROVE TypeOK'
  <2>1. journal' \in Seq(Entries)
    BY <1>13, EntriesAreSound DEF Commit, TypeOK
  <2>2. pc' \in [Appliers -> PCs] /\ op' \in [Appliers -> Nat]
    <3>1. \/ /\ pc' = [pc EXCEPT ![a] = "begin"]
             /\ op' = [op EXCEPT ![a] = op[a] + 1]
          \/ pc' = [pc EXCEPT ![a] = "postcheck"] /\ UNCHANGED op
      BY <1>13 DEF Commit, Goto
    <3>2. op[a] \in Nat /\ op[a] + 1 \in Nat
      BY DEF TypeOK
    <3>3. pc' \in [Appliers -> PCs]
      BY <3>1 DEF TypeOK, PCs
    <3>4. op' \in [Appliers -> Nat]
      BY <3>1, <3>2 DEF TypeOK
    <3>5. QED
      BY <3>3, <3>4
  <2>3. QED
    BY <1>13, <2>1, <2>2 DEF Commit, corpus, ledger, others, TypeOK
<1>14. ASSUME NEW a \in Appliers, PostCheck(a) PROVE TypeOK'
  BY <1>14 DEF PostCheck, Goto, corpus, ledger, others, TypeOK, PCs, Receipts,
     Statuses
<1>15. ASSUME NEW a \in Appliers, Close(a) PROVE TypeOK'
  BY <1>15 DEF Close, Goto, corpus, ledger, others, locals, TypeOK, PCs,
     Receipts, Statuses
<1>16. ASSUME NEW a \in Appliers, UndoOp(a) PROVE TypeOK'
  <2>1. /\ present' \subseteq Files /\ content' \in [Files -> SUBSET Blocks]
        /\ journal' \in Seq(Entries)
    <3>1. CASE journal = <<>>
      BY <1>16, <3>1 DEF UndoOp, corpus, TypeOK
    <3>2. CASE journal # <<>>
      BY <1>16, <3>2, EntriesAreSound, CorpusAfterUndo DEF UndoOp
    <3>3. QED
      BY <3>1, <3>2
  <2>2. QED
    BY <1>16, <2>1 DEF UndoOp, Goto, ledger, others, TypeOK, PCs
<1>17. ASSUME NEW a \in Appliers, OpenRestore(a) PROVE TypeOK'
  <2>1. prop[a] \in Proposals /\ snapshot[prop[a]] \in Snapshots
    BY <1>17 DEF OpenRestore, Equipped
  <2>2. snapshot[prop[a]].files \in SUBSET Files
    BY <2>1 DEF Snapshots
  <2>3. todo' \in [Appliers -> SUBSET Files]
    BY <1>17, <2>2 DEF OpenRestore, TypeOK
  <2>4. QED
    BY <1>17, <2>3 DEF OpenRestore, Goto, corpus, ledger, others, TypeOK, PCs
<1>18. ASSUME NEW a \in Appliers, CopyBack(a) PROVE TypeOK'
  <2>1. PICK f \in todo[a] :
          /\ PutBack(f, TRUE, snapshot[prop[a]].saved[f])
          /\ todo' = [todo EXCEPT ![a] = @ \ {f}]
    BY <1>18 DEF CopyBack
  <2>2. prop[a] \in Proposals /\ snapshot[prop[a]] \in Snapshots
    BY <1>18 DEF CopyBack, Equipped
  <2>3. f \in Files
    BY <2>1 DEF TypeOK
  <2>4. snapshot[prop[a]].saved[f] \in SUBSET Blocks
    BY <2>2, <2>3 DEF Snapshots
  <2>5. present' \subseteq Files /\ content' \in [Files -> SUBSET Blocks]
    BY <2>1, <2>3, <2>4, CorpusAfterPutBack
  <2>6. todo' \in [Appliers -> SUBSET Files]
    BY <2>1 DEF TypeOK
  <2>7. QED
    BY <1>18, <2>5, <2>6 DEF CopyBack, ledger, others, TypeOK
<1>19. ASSUME NEW a \in Appliers, SweepOrphans(a) PROVE TypeOK'
  BY <1>19 DEF SweepOrphans, Goto, Erase, InRootsOf, Touched, ledger, others,
     locals, OpFiles, TypeOK, PCs, Receipts, Statuses
<1>20. ASSUME NEW a \in Appliers, CleanupOrphans(a) PROVE TypeOK'
  BY <1>20 DEF CleanupOrphans, Goto, Erase, ledger, others, locals, TypeOK,
     PCs, Receipts, Statuses
<1>21. ASSUME NEW a \in Appliers, RecordRollback(a) PROVE TypeOK'
  <2>1. prop[a] \in Proposals => receipt' \in [Proposals -> Receipts]
    BY <1>21 DEF RecordRollback, TypeOK, Receipts
  <2>2. prop[a] \notin Proposals => receipt' \in [Proposals -> Receipts]
    BY <1>21 DEF RecordRollback, TypeOK, Receipts
  <2>3. pc' \in [Appliers -> PCs]
    BY <1>21 DEF RecordRollback, Goto, TypeOK, PCs
  <2>4. QED
    BY <1>21, <2>1, <2>2, <2>3
    DEF RecordRollback, corpus, ledger, others, locals, TypeOK
<1>22. ASSUME NEW a \in Appliers, ReadLines(a) PROVE TypeOK'
  BY <1>22 DEF ReadLines, Goto, corpus, others, locals, TypeOK, PCs, Receipts,
     Statuses
<1>23. ASSUME NEW a \in Appliers, ReplaceLines(a) PROVE TypeOK'
  <2>1. wins' \in [Proposals -> 0..MaxWins]
    BY <1>23, HistoryStep DEF ReplaceLines
  <2>2. status' \in [Proposals -> Statuses]
    BY <1>23 DEF ReplaceLines, TypeOK, Statuses
  <2>3. lines' \in [Appliers -> [Proposals -> Statuses]]
    BY <1>23 DEF ReplaceLines, NoLines, TypeOK, Statuses
  <2>4. QED
    BY <1>23, <2>1, <2>2, <2>3 DEF ReplaceLines, Goto, corpus, others, locals,
       TypeOK, PCs
<1>24. ASSUME NEW a \in Appliers, MarkFails(a) PROVE TypeOK'
  <2>1. wins' \in [Proposals -> 0..MaxWins]
    BY <1>24, HistoryStep DEF MarkFails
  <2>2. QED
    BY <1>24, <2>1 DEF MarkFails, Goto, corpus, ledger, others, locals, TypeOK, PCs
<1>25. ASSUME NEW a \in Appliers, Unlock(a) PROVE TypeOK'
  BY <1>25 DEF Unlock, Forget, ReleaseIf, corpus, ledger, others, Goto,
     TypeOK, PCs, Receipts, Statuses
<1>26. ASSUME NEW a \in Appliers, Crash(a) PROVE TypeOK'
  <2>1. lines' \in [Appliers -> [Proposals -> Statuses]]
    BY <1>26 DEF Crash, NoLines, TypeOK, Statuses
  <2>2. /\ lock' \in Appliers \cup {None} /\ marker' \in Appliers \cup {None}
    BY <1>26 DEF Crash, ReleaseIf, TypeOK
  <2>3. QED
    BY <1>26, <2>1, <2>2 DEF Crash, Forget, Goto, corpus, others, TypeOK, PCs
<1>27. ASSUME NEW a \in Appliers, NEW p \in Proposals, Submit(a, p)
      PROVE  TypeOK'
  BY <1>27 DEF Submit, Goto, corpus, ledger, others, TypeOK, PCs, Receipts,
     Statuses
<1>28. ASSUME NEW a \in Appliers, NEW p \in Proposals, RollBack(a, p)
      PROVE  TypeOK'
  BY <1>28 DEF RollBack, Goto, corpus, ledger, others, TypeOK, PCs, Receipts,
     Statuses
<1>29. ASSUME NEW p \in Proposals, Stage(p) PROVE TypeOK'
  BY <1>29 DEF Stage, corpus, others, locals, TypeOK, PCs, Receipts, Statuses
<1>30. ASSUME NEW w \in Writers, NEW b \in Foreign, ReadFile(w, b) PROVE TypeOK'
  <2>1. b \in Blocks /\ HomeOf[b] \in Files
    BY HomesAreFiles DEF Foreign
  <2>2. QED
    BY <1>30, <2>1 DEF ReadFile, corpus, ledger, locals, TypeOK
<1>31. ASSUME NEW w \in Writers, ReplaceFile(w) PROVE TypeOK'
  <2> DEFINE b == writing[w]
  <2>1. /\ PutBack(HomeOf[b], TRUE, text[w] \cup {b})
        /\ b \in Blocks
    BY <1>31 DEF ReplaceFile, TypeOK
  <2>2. HomeOf[b] \in Files /\ text[w] \cup {b} \in SUBSET Blocks
    BY <2>1, HomesAreFiles DEF TypeOK
  <2>3. present' \subseteq Files /\ content' \in [Files -> SUBSET Blocks]
    BY <2>1, <2>2, CorpusAfterPutBack
  <2>4. QED
    BY <1>31, <2>2, <2>3 DEF ReplaceFile, ledger, locals, TypeOK
<1>32. CASE ReplayCommand
  <2>1. /\ present' \subseteq Files /\ content' \in [Files -> SUBSET Blocks]
        /\ journal' \in Seq(Entries)
    BY <1>32, EntriesAreSound, CorpusAfterUndo DEF ReplayCommand
  <2>2. QED
    BY <1>32, <2>1 DEF ReplayCommand, ledger, others, locals, TypeOK
<1>33. CASE UNCHANGED vars
  BY <1>33 DEF vars, TypeOK, PCs, Receipts, Statuses
<1>34. QED
  BY <1>1, <1>2, <1>3, <1>4, <1>5, <1>6, <1>7, <1>8, <1>9, <1>10, <1>11,
     <1>12, <1>13, <1>14, <1>15, <1>16, <1>17, <1>18, <1>19, <1>20, <1>21,
     <1>22, <1>23, <1>24, <1>25, <1>26, <1>27, <1>28, <1>29, <1>30, <1>31,
     <1>32, <1>33
  DEF Next, Step, Applying, Restoring, Marking

\* Every step leaves each applier what it needs for the next one.
LEMMA EquippedStep ==
    ASSUME TypeOK, Equipped, [Next]_vars
    PROVE  Equipped'
<1>1. ASSUME NEW a \in Appliers, TakeWorkspace(a) PROVE Equipped'
  BY <1>1 DEF TakeWorkspace, Goto, corpus, ledger, others, locals, Op, TypeOK,
     Equipped
<1>2. ASSUME NEW a \in Appliers, WorkspaceTimeout(a) PROVE Equipped'
  BY <1>2 DEF WorkspaceTimeout, Forget, corpus, ledger, others, Goto, Op,
     TypeOK, Equipped
<1>3. ASSUME NEW a \in Appliers, Recheck(a) PROVE Equipped'
  BY <1>3 DEF Recheck, Goto, corpus, ledger, others, locals, Op, TypeOK,
     Equipped
<1>4. ASSUME NEW a \in Appliers, Replay(a) PROVE Equipped'
  BY <1>4 DEF Replay, Goto, PutBack, corpus, ledger, others, locals, Op,
     TypeOK, Equipped
<1>5. ASSUME NEW a \in Appliers, ListFiles(a) PROVE Equipped'
  BY <1>5 DEF ListFiles, Goto, corpus, ledger, others, Op, TypeOK, Equipped
<1>6. ASSUME NEW a \in Appliers, TakeSnapshot(a) PROVE Equipped'
  <2>1. prop[a] \in Proposals
    BY <1>6 DEF TakeSnapshot, Equipped
  <2>2. snapshot'[prop[a]] \in Snapshots
    <3>1. /\ Touched(prop[a]) \cap present \subseteq Files
          /\ InRootsOf(Touched(prop[a])) \cap present \subseteq Files
          /\ [f \in Files |-> IF f \in Touched(prop[a]) THEN content[f] ELSE {}]
               \in [Files -> SUBSET Blocks]
      BY DEF InRootsOf, TypeOK
    <3>2. QED
      BY <1>6, <2>1, <3>1 DEF TakeSnapshot, Snapshots, TypeOK
  <2>3. \A q \in Proposals : snapshot[q] \in Snapshots => snapshot'[q] \in Snapshots
    BY <1>6, <2>1, <2>2 DEF TakeSnapshot, TypeOK
  <2>4. pc' = [pc EXCEPT ![a] = "precheck"] /\ UNCHANGED <<prop, op, nth>>
    BY <1>6 DEF TakeSnapshot, Goto, locals
  <2>5. QED
    BY <1>6, <2>1, <2>2, <2>3, <2>4 DEF TakeSnapshot, Equipped, Op, TypeOK
<1>7. ASSUME NEW a \in Appliers, Unmeasurable(a) PROVE Equipped'
  BY <1>7 DEF Unmeasurable, Goto, corpus, ledger, others, Op, TypeOK, Equipped
<1>8. ASSUME NEW a \in Appliers, WriteReceipt(a) PROVE Equipped'
  BY <1>8 DEF WriteReceipt, Goto, corpus, ledger, others, locals, Op, TypeOK,
     Equipped
<1>9. ASSUME NEW a \in Appliers, Begin(a) PROVE Equipped'
  <2>1. 1 \in DOMAIN Op(a).writes
    BY <1>9, FirstWrite DEF Begin, Equipped, Op
  <2>2. QED
    BY <1>9, <2>1 DEF Begin, Goto, ledger, locals, Op, TypeOK, Equipped
<1>10. ASSUME NEW a \in Appliers, WriteBlock(a) PROVE Equipped'
  <2>1. pc[a] = "op" /\ UNCHANGED <<snapshot, prop, op>>
    BY <1>10 DEF WriteBlock, Goto
  <2>2. \A c \in Appliers \ {a} : pc'[c] = pc[c] /\ nth'[c] = nth[c]
    BY <1>10 DEF WriteBlock, Goto, TypeOK
  <2>3. nth[a] \in DOMAIN Op(a).writes /\ nth[a] \in Nat
    BY <2>1 DEF Equipped, TypeOK
  <2>4. prop[a] \in Proposals /\ op[a] \in DOMAIN OpsOf[prop[a]]
    BY <2>1 DEF Equipped
  <2>5. /\ Len(Op(a).writes) \in Nat
        /\ DOMAIN Op(a).writes = 1..Len(Op(a).writes)
    BY <2>4, FirstWrite DEF Op
  <2>6. CASE nth[a] < Len(Op(a).writes)
    <3>1. pc'[a] = "op" /\ nth'[a] = nth[a] + 1
      BY <1>10, <2>1, <2>6 DEF WriteBlock, TypeOK
    <3>2. nth'[a] \in DOMAIN Op(a).writes
      BY <2>3, <2>5, <2>6, <3>1
    <3>3. QED
      BY <2>1, <2>2, <3>1, <3>2 DEF Equipped, Op
  <2>7. CASE ~(nth[a] < Len(Op(a).writes))
    <3>1. pc'[a] = "commit" /\ nth'[a] = 1
      BY <1>10, <2>1, <2>7 DEF WriteBlock, Goto, TypeOK
    <3>2. QED
      BY <2>1, <2>2, <3>1 DEF Equipped, Op
  <2>8. QED
    BY <2>6, <2>7
<1>11. ASSUME NEW a \in Appliers, OpFails(a) PROVE Equipped'
  BY <1>11 DEF OpFails, Goto, corpus, ledger, others, locals, Op, TypeOK,
     Equipped
<1>12. ASSUME NEW a \in Appliers, OpEscapes(a) PROVE Equipped'
  BY <1>12 DEF OpEscapes, Goto, corpus, ledger, others, locals, Op, TypeOK,
     Equipped
<1>13. ASSUME NEW a \in Appliers, Commit(a) PROVE Equipped'
  BY <1>13 DEF Commit, Goto, corpus, ledger, others, Op, TypeOK, Equipped
<1>14. ASSUME NEW a \in Appliers, PostCheck(a) PROVE Equipped'
  BY <1>14 DEF PostCheck, Goto, corpus, ledger, others, Op, TypeOK, Equipped
<1>15. ASSUME NEW a \in Appliers, Close(a) PROVE Equipped'
  BY <1>15 DEF Close, Goto, corpus, ledger, others, locals, Op, TypeOK,
     Equipped
<1>16. ASSUME NEW a \in Appliers, UndoOp(a) PROVE Equipped'
  BY <1>16 DEF UndoOp, Goto, PutBack, corpus, ledger, others, Op, TypeOK,
     Equipped
<1>17. ASSUME NEW a \in Appliers, OpenRestore(a) PROVE Equipped'
  BY <1>17 DEF OpenRestore, Goto, corpus, ledger, others, Op, TypeOK, Equipped
<1>18. ASSUME NEW a \in Appliers, CopyBack(a) PROVE Equipped'
  BY <1>18 DEF CopyBack, PutBack, ledger, others, Op, TypeOK, Equipped
<1>19. ASSUME NEW a \in Appliers, SweepOrphans(a) PROVE Equipped'
  BY <1>19 DEF SweepOrphans, Goto, Erase, InRootsOf, Touched, ledger, others,
     locals, OpFiles, Op, TypeOK, Equipped
<1>20. ASSUME NEW a \in Appliers, CleanupOrphans(a) PROVE Equipped'
  BY <1>20 DEF CleanupOrphans, Goto, Erase, ledger, others, locals, Op,
     TypeOK, Equipped
<1>21. ASSUME NEW a \in Appliers, RecordRollback(a) PROVE Equipped'
  BY <1>21 DEF RecordRollback, Goto, corpus, ledger, others, locals, Op,
     TypeOK, Equipped
<1>22. ASSUME NEW a \in Appliers, ReadLines(a) PROVE Equipped'
  BY <1>22 DEF ReadLines, Goto, corpus, others, locals, Op, TypeOK, Equipped
<1>23. ASSUME NEW a \in Appliers, ReplaceLines(a) PROVE Equipped'
  BY <1>23 DEF ReplaceLines, Goto, Succeeded, corpus, others, locals, Op,
     TypeOK, Equipped
<1>24. ASSUME NEW a \in Appliers, MarkFails(a) PROVE Equipped'
  BY <1>24 DEF MarkFails, Goto, Succeeded, corpus, ledger, others, locals, Op,
     TypeOK, Equipped
<1>25. ASSUME NEW a \in Appliers, Unlock(a) PROVE Equipped'
  BY <1>25 DEF Unlock, Forget, ReleaseIf, corpus, ledger, others, Goto, Op,
     TypeOK, Equipped
<1>26. ASSUME NEW a \in Appliers, Crash(a) PROVE Equipped'
  BY <1>26 DEF Crash, Forget, ReleaseIf, corpus, others, Goto, Op, TypeOK,
     Equipped
<1>27. ASSUME NEW a \in Appliers, NEW p \in Proposals, Submit(a, p)
      PROVE  Equipped'
  <2>1. 1 \in DOMAIN OpsOf[p]
    BY FirstOp
  <2>2. QED
    BY <1>27, <2>1 DEF Submit, Goto, Op, TypeOK, Equipped
<1>28. ASSUME NEW a \in Appliers, NEW p \in Proposals, RollBack(a, p)
      PROVE  Equipped'
  <2>1. 1 \in DOMAIN OpsOf[p] /\ snapshot[p] \in Snapshots
    BY <1>28, FirstOp DEF RollBack, TypeOK
  <2>2. QED
    BY <1>28, <2>1 DEF RollBack, Goto, Op, TypeOK, Equipped
<1>29. ASSUME NEW p \in Proposals, Stage(p) PROVE Equipped'
  BY <1>29 DEF Stage, corpus, others, locals, Op, TypeOK, Equipped
<1>30. ASSUME NEW w \in Writers, NEW b \in Foreign, ReadFile(w, b) PROVE Equipped'
  BY <1>30 DEF ReadFile, corpus, ledger, locals, Op, TypeOK, Equipped
<1>31. ASSUME NEW w \in Writers, ReplaceFile(w) PROVE Equipped'
  BY <1>31 DEF ReplaceFile, PutBack, ledger, locals, Op, TypeOK, Equipped
<1>32. CASE ReplayCommand
  BY <1>32 DEF ReplayCommand, PutBack, ledger, others, locals, Op, TypeOK,
     Equipped
<1>33. CASE UNCHANGED vars
  BY <1>33 DEF vars, Op, TypeOK, Equipped
<1>34. QED
  BY <1>1, <1>2, <1>3, <1>4, <1>5, <1>6, <1>7, <1>8, <1>9, <1>10, <1>11,
     <1>12, <1>13, <1>14, <1>15, <1>16, <1>17, <1>18, <1>19, <1>20, <1>21,
     <1>22, <1>23, <1>24, <1>25, <1>26, <1>27, <1>28, <1>29, <1>30, <1>31,
     <1>32, <1>33
  DEF Next, Step, Applying, Restoring, Marking

\* Every step keeps the workspace to the applier that locked it.
LEMMA ExclusiveStep ==
    ASSUME TypeOK, Exclusive, [Next]_vars
    PROVE  Exclusive'
<1>1. ASSUME NEW a \in Appliers, TakeWorkspace(a) PROVE Exclusive'
  BY <1>1, ProposalsAreValid DEF TakeWorkspace, Goto, corpus, ledger, others,
     locals, TypeOK, Exclusive
<1>2. ASSUME NEW a \in Appliers, WorkspaceTimeout(a) PROVE Exclusive'
  BY <1>2, ProposalsAreValid DEF WorkspaceTimeout, Forget, corpus, ledger,
     others, Goto, TypeOK, Exclusive
<1>3. ASSUME NEW a \in Appliers, Recheck(a) PROVE Exclusive'
  BY <1>3, ProposalsAreValid DEF Recheck, Goto, corpus, ledger, others,
     locals, TypeOK, Exclusive
<1>4. ASSUME NEW a \in Appliers, Replay(a) PROVE Exclusive'
  BY <1>4, ProposalsAreValid DEF Replay, Goto, PutBack, corpus, ledger,
     others, locals, TypeOK, Exclusive
<1>5. ASSUME NEW a \in Appliers, ListFiles(a) PROVE Exclusive'
  BY <1>5, ProposalsAreValid DEF ListFiles, Goto, corpus, ledger, others,
     TypeOK, Exclusive
<1>6. ASSUME NEW a \in Appliers, TakeSnapshot(a) PROVE Exclusive'
  BY <1>6, ProposalsAreValid DEF TakeSnapshot, Goto, InRootsOf, Touched,
     corpus, ledger, others, locals, OpFiles, TypeOK, Exclusive
<1>7. ASSUME NEW a \in Appliers, Unmeasurable(a) PROVE Exclusive'
  BY <1>7, ProposalsAreValid DEF Unmeasurable, Goto, corpus, ledger, others,
     TypeOK, Exclusive
<1>8. ASSUME NEW a \in Appliers, WriteReceipt(a) PROVE Exclusive'
  BY <1>8, ProposalsAreValid DEF WriteReceipt, Goto, corpus, ledger, others,
     locals, TypeOK, Exclusive
<1>9. ASSUME NEW a \in Appliers, Begin(a) PROVE Exclusive'
  BY <1>9, ProposalsAreValid DEF Begin, Goto, Op, corpus, ledger, others,
     locals, TypeOK, Exclusive
<1>10. ASSUME NEW a \in Appliers, WriteBlock(a) PROVE Exclusive'
  BY <1>10, ProposalsAreValid DEF WriteBlock, Goto, Op, ledger, others,
     TypeOK, Exclusive
<1>11. ASSUME NEW a \in Appliers, OpFails(a) PROVE Exclusive'
  BY <1>11, ProposalsAreValid DEF OpFails, Goto, corpus, ledger, others,
     locals, TypeOK, Exclusive
<1>12. ASSUME NEW a \in Appliers, OpEscapes(a) PROVE Exclusive'
  BY <1>12, ProposalsAreValid DEF OpEscapes, Goto, corpus, ledger, others,
     locals, TypeOK, Exclusive
<1>13. ASSUME NEW a \in Appliers, Commit(a) PROVE Exclusive'
  BY <1>13, ProposalsAreValid DEF Commit, Goto, corpus, ledger, others,
     TypeOK, Exclusive
<1>14. ASSUME NEW a \in Appliers, PostCheck(a) PROVE Exclusive'
  BY <1>14, ProposalsAreValid DEF PostCheck, Goto, corpus, ledger, others,
     TypeOK, Exclusive
<1>15. ASSUME NEW a \in Appliers, Close(a) PROVE Exclusive'
  BY <1>15, ProposalsAreValid DEF Close, Goto, corpus, ledger, others, locals,
     TypeOK, Exclusive
<1>16. ASSUME NEW a \in Appliers, UndoOp(a) PROVE Exclusive'
  BY <1>16, ProposalsAreValid DEF UndoOp, Goto, PutBack, corpus, ledger,
     others, TypeOK, Exclusive
<1>17. ASSUME NEW a \in Appliers, OpenRestore(a) PROVE Exclusive'
  BY <1>17, ProposalsAreValid DEF OpenRestore, Goto, corpus, ledger, others,
     TypeOK, Exclusive
<1>18. ASSUME NEW a \in Appliers, CopyBack(a) PROVE Exclusive'
  BY <1>18, ProposalsAreValid DEF CopyBack, PutBack, ledger, others, TypeOK,
     Exclusive
<1>19. ASSUME NEW a \in Appliers, SweepOrphans(a) PROVE Exclusive'
  BY <1>19, ProposalsAreValid DEF SweepOrphans, Goto, Erase, InRootsOf,
     Touched, ledger, others, locals, OpFiles, TypeOK, Exclusive
<1>20. ASSUME NEW a \in Appliers, CleanupOrphans(a) PROVE Exclusive'
  BY <1>20, ProposalsAreValid DEF CleanupOrphans, Goto, Erase, ledger, others,
     locals, TypeOK, Exclusive
<1>21. ASSUME NEW a \in Appliers, RecordRollback(a) PROVE Exclusive'
  BY <1>21, ProposalsAreValid DEF RecordRollback, Goto, corpus, ledger,
     others, locals, TypeOK, Exclusive
<1>22. ASSUME NEW a \in Appliers, ReadLines(a) PROVE Exclusive'
  BY <1>22, ProposalsAreValid DEF ReadLines, Goto, corpus, others, locals,
     TypeOK, Exclusive
<1>23. ASSUME NEW a \in Appliers, ReplaceLines(a) PROVE Exclusive'
  BY <1>23, ProposalsAreValid DEF ReplaceLines, Goto, Succeeded, corpus,
     others, locals, TypeOK, Exclusive
<1>24. ASSUME NEW a \in Appliers, MarkFails(a) PROVE Exclusive'
  BY <1>24, ProposalsAreValid DEF MarkFails, Goto, Succeeded, corpus, ledger,
     others, locals, TypeOK, Exclusive
<1>25. ASSUME NEW a \in Appliers, Unlock(a) PROVE Exclusive'
  BY <1>25, ProposalsAreValid DEF Unlock, Forget, ReleaseIf, corpus, ledger,
     others, Goto, TypeOK, Exclusive
<1>26. ASSUME NEW a \in Appliers, Crash(a) PROVE Exclusive'
  BY <1>26, ProposalsAreValid DEF Crash, Forget, ReleaseIf, corpus, others,
     Goto, TypeOK, Exclusive
<1>27. ASSUME NEW a \in Appliers, NEW p \in Proposals, Submit(a, p)
      PROVE  Exclusive'
  BY <1>27, ProposalsAreValid DEF Submit, Goto, corpus, ledger, others,
     TypeOK, Exclusive
<1>28. ASSUME NEW a \in Appliers, NEW p \in Proposals, RollBack(a, p)
      PROVE  Exclusive'
  BY <1>28, ProposalsAreValid DEF RollBack, Goto, corpus, ledger, others,
     TypeOK, Exclusive
<1>29. ASSUME NEW p \in Proposals, Stage(p) PROVE Exclusive'
  BY <1>29, ProposalsAreValid DEF Stage, corpus, others, locals, TypeOK,
     Exclusive
<1>30. ASSUME NEW w \in Writers, NEW b \in Foreign, ReadFile(w, b) PROVE Exclusive'
  BY <1>30, ProposalsAreValid DEF ReadFile, corpus, ledger, locals, TypeOK,
     Exclusive
<1>31. ASSUME NEW w \in Writers, ReplaceFile(w) PROVE Exclusive'
  BY <1>31, ProposalsAreValid DEF ReplaceFile, PutBack, ledger, locals,
     TypeOK, Exclusive
<1>32. CASE ReplayCommand
  BY <1>32, ProposalsAreValid DEF ReplayCommand, PutBack, ledger, others,
     locals, TypeOK, Exclusive
<1>33. CASE UNCHANGED vars
  BY <1>33 DEF vars, TypeOK, Exclusive
<1>34. QED
  BY <1>1, <1>2, <1>3, <1>4, <1>5, <1>6, <1>7, <1>8, <1>9, <1>10, <1>11,
     <1>12, <1>13, <1>14, <1>15, <1>16, <1>17, <1>18, <1>19, <1>20, <1>21,
     <1>22, <1>23, <1>24, <1>25, <1>26, <1>27, <1>28, <1>29, <1>30, <1>31,
     <1>32, <1>33
  DEF Next, Step, Applying, Restoring, Marking

\* Every step keeps the journal: an applier that is about to begin an op finds
\* it empty, because it has replayed it and has the workspace to itself.
LEMMA JournalStep ==
    ASSUME TypeOK, Exclusive, CleanStart, OnePending, [Next]_vars
    PROVE  (CleanStart /\ OnePending)'
<1>1. ASSUME NEW a \in Appliers, TakeWorkspace(a) PROVE (CleanStart /\ OnePending)'
  BY <1>1 DEF TakeWorkspace, Goto, corpus, ledger, others, locals, TypeOK,
     Exclusive, CleanStart, OnePending
<1>2. ASSUME NEW a \in Appliers, WorkspaceTimeout(a) PROVE (CleanStart /\ OnePending)'
  BY <1>2 DEF WorkspaceTimeout, Forget, corpus, ledger, others, Goto, TypeOK,
     Exclusive, CleanStart, OnePending
<1>3. ASSUME NEW a \in Appliers, Recheck(a) PROVE (CleanStart /\ OnePending)'
  BY <1>3 DEF Recheck, Goto, corpus, ledger, others, locals, TypeOK,
     Exclusive, CleanStart, OnePending
<1>4. ASSUME NEW a \in Appliers, Replay(a) PROVE (CleanStart /\ OnePending)'
  BY <1>4 DEF Replay, Goto, PutBack, corpus, ledger, others, locals, TypeOK,
     Exclusive, CleanStart, OnePending
<1>5. ASSUME NEW a \in Appliers, ListFiles(a) PROVE (CleanStart /\ OnePending)'
  BY <1>5 DEF ListFiles, Goto, corpus, ledger, others, TypeOK, Exclusive,
     CleanStart, OnePending
<1>6. ASSUME NEW a \in Appliers, TakeSnapshot(a) PROVE (CleanStart /\ OnePending)'
  BY <1>6 DEF TakeSnapshot, Goto, InRootsOf, Touched, corpus, ledger, others,
     locals, OpFiles, TypeOK, Exclusive, CleanStart, OnePending
<1>7. ASSUME NEW a \in Appliers, Unmeasurable(a) PROVE (CleanStart /\ OnePending)'
  BY <1>7 DEF Unmeasurable, Goto, corpus, ledger, others, TypeOK, Exclusive,
     CleanStart, OnePending
<1>8. ASSUME NEW a \in Appliers, WriteReceipt(a) PROVE (CleanStart /\ OnePending)'
  BY <1>8 DEF WriteReceipt, Goto, corpus, ledger, others, locals, TypeOK,
     Exclusive, CleanStart, OnePending
<1>9. ASSUME NEW a \in Appliers, Begin(a) PROVE (CleanStart /\ OnePending)'
  BY <1>9 DEF Begin, Goto, Op, corpus, ledger, others, locals, TypeOK,
     Exclusive, CleanStart, OnePending
<1>10. ASSUME NEW a \in Appliers, WriteBlock(a) PROVE (CleanStart /\ OnePending)'
  BY <1>10 DEF WriteBlock, Goto, Op, ledger, others, TypeOK, Exclusive,
     CleanStart, OnePending
<1>11. ASSUME NEW a \in Appliers, OpFails(a) PROVE (CleanStart /\ OnePending)'
  BY <1>11 DEF OpFails, Goto, corpus, ledger, others, locals, TypeOK,
     Exclusive, CleanStart, OnePending
<1>12. ASSUME NEW a \in Appliers, OpEscapes(a) PROVE (CleanStart /\ OnePending)'
  BY <1>12 DEF OpEscapes, Goto, corpus, ledger, others, locals, TypeOK,
     Exclusive, CleanStart, OnePending
<1>13. ASSUME NEW a \in Appliers, Commit(a) PROVE (CleanStart /\ OnePending)'
  <2>1. journal' = <<>>
    <3>1. CASE journal = <<>>
      BY <1>13, <3>1 DEF Commit
    <3>2. CASE journal # <<>>
      <4>1. Front(journal) \in Seq(Entries) /\ Len(Front(journal)) = 0
        BY <3>2, EntriesAreSound DEF OnePending
      <4>2. QED
        BY <1>13, <3>2, <4>1 DEF Commit
    <3>3. QED
      BY <3>1, <3>2
  <2>2. QED
    BY <2>1 DEF CleanStart, OnePending
<1>14. ASSUME NEW a \in Appliers, PostCheck(a) PROVE (CleanStart /\ OnePending)'
  BY <1>14 DEF PostCheck, Goto, corpus, ledger, others, TypeOK, Exclusive,
     CleanStart, OnePending
<1>15. ASSUME NEW a \in Appliers, Close(a) PROVE (CleanStart /\ OnePending)'
  BY <1>15 DEF Close, Goto, corpus, ledger, others, locals, TypeOK, Exclusive,
     CleanStart, OnePending
<1>16. ASSUME NEW a \in Appliers, UndoOp(a) PROVE (CleanStart /\ OnePending)'
  <2>1. Len(journal') <= 1
    BY <1>16, EntriesAreSound DEF UndoOp, OnePending, TypeOK
  <2>2. \A b \in Appliers \ {a} : pc[b] \notin {"list", "snapshot", "precheck", "begin"}
    BY <1>16 DEF UndoOp, Exclusive
  <2>3. pc' = [pc EXCEPT ![a] = "restore"]
    BY <1>16 DEF UndoOp, Goto
  <2>4. QED
    BY <2>1, <2>2, <2>3 DEF CleanStart, OnePending, TypeOK
<1>17. ASSUME NEW a \in Appliers, OpenRestore(a) PROVE (CleanStart /\ OnePending)'
  BY <1>17 DEF OpenRestore, Goto, corpus, ledger, others, TypeOK, Exclusive,
     CleanStart, OnePending
<1>18. ASSUME NEW a \in Appliers, CopyBack(a) PROVE (CleanStart /\ OnePending)'
  BY <1>18 DEF CopyBack, PutBack, ledger, others, TypeOK, Exclusive,
     CleanStart, OnePending
<1>19. ASSUME NEW a \in Appliers, SweepOrphans(a) PROVE (CleanStart /\ OnePending)'
  BY <1>19 DEF SweepOrphans, Goto, Erase, InRootsOf, Touched, ledger, others,
     locals, OpFiles, TypeOK, Exclusive, CleanStart, OnePending
<1>20. ASSUME NEW a \in Appliers, CleanupOrphans(a) PROVE (CleanStart /\ OnePending)'
  BY <1>20 DEF CleanupOrphans, Goto, Erase, ledger, others, locals, TypeOK,
     Exclusive, CleanStart, OnePending
<1>21. ASSUME NEW a \in Appliers, RecordRollback(a) PROVE (CleanStart /\ OnePending)'
  BY <1>21 DEF RecordRollback, Goto, corpus, ledger, others, locals, TypeOK,
     Exclusive, CleanStart, OnePending
<1>22. ASSUME NEW a \in Appliers, ReadLines(a) PROVE (CleanStart /\ OnePending)'
  BY <1>22 DEF ReadLines, Goto, corpus, others, locals, TypeOK, Exclusive,
     CleanStart, OnePending
<1>23. ASSUME NEW a \in Appliers, ReplaceLines(a) PROVE (CleanStart /\ OnePending)'
  BY <1>23 DEF ReplaceLines, Goto, Succeeded, corpus, others, locals, TypeOK,
     Exclusive, CleanStart, OnePending
<1>24. ASSUME NEW a \in Appliers, MarkFails(a) PROVE (CleanStart /\ OnePending)'
  BY <1>24 DEF MarkFails, Goto, Succeeded, corpus, ledger, others, locals,
     TypeOK, Exclusive, CleanStart, OnePending
<1>25. ASSUME NEW a \in Appliers, Unlock(a) PROVE (CleanStart /\ OnePending)'
  BY <1>25 DEF Unlock, Forget, ReleaseIf, corpus, ledger, others, Goto,
     TypeOK, Exclusive, CleanStart, OnePending
<1>26. ASSUME NEW a \in Appliers, Crash(a) PROVE (CleanStart /\ OnePending)'
  BY <1>26 DEF Crash, Forget, ReleaseIf, corpus, others, Goto, TypeOK,
     Exclusive, CleanStart, OnePending
<1>27. ASSUME NEW a \in Appliers, NEW p \in Proposals, Submit(a, p)
      PROVE  (CleanStart /\ OnePending)'
  BY <1>27 DEF Submit, Goto, corpus, ledger, others, TypeOK, Exclusive,
     CleanStart, OnePending
<1>28. ASSUME NEW a \in Appliers, NEW p \in Proposals, RollBack(a, p)
      PROVE  (CleanStart /\ OnePending)'
  BY <1>28 DEF RollBack, Goto, corpus, ledger, others, TypeOK, Exclusive,
     CleanStart, OnePending
<1>29. ASSUME NEW p \in Proposals, Stage(p) PROVE (CleanStart /\ OnePending)'
  BY <1>29 DEF Stage, corpus, others, locals, TypeOK, Exclusive, CleanStart,
     OnePending
<1>30. ASSUME NEW w \in Writers, NEW b \in Foreign, ReadFile(w, b) PROVE (CleanStart /\ OnePending)'
  BY <1>30 DEF ReadFile, corpus, ledger, locals, TypeOK, Exclusive,
     CleanStart, OnePending
<1>31. ASSUME NEW w \in Writers, ReplaceFile(w) PROVE (CleanStart /\ OnePending)'
  BY <1>31 DEF ReplaceFile, PutBack, ledger, locals, TypeOK, Exclusive,
     CleanStart, OnePending
<1>32. CASE ReplayCommand
  BY <1>32 DEF ReplayCommand, PutBack, ledger, others, locals, TypeOK,
     Exclusive, CleanStart, OnePending
<1>33. CASE UNCHANGED vars
  BY <1>33 DEF vars, TypeOK, Exclusive, CleanStart, OnePending
<1>34. QED
  BY <1>1, <1>2, <1>3, <1>4, <1>5, <1>6, <1>7, <1>8, <1>9, <1>10, <1>11,
     <1>12, <1>13, <1>14, <1>15, <1>16, <1>17, <1>18, <1>19, <1>20, <1>21,
     <1>22, <1>23, <1>24, <1>25, <1>26, <1>27, <1>28, <1>29, <1>30, <1>31,
     <1>32, <1>33
  DEF Next, Step, Applying, Restoring, Marking

\* The invariant holds at first.
LEMMA FirstInvariant ==
    ASSUME Init
    PROVE  IInv
<1>1. TypeOK
  <2>1. present \subseteq Files /\ FirstStaged \subseteq Proposals
    BY ProposalsAreValid DEF Init
  <2>2. wins \in [Proposals -> 0..MaxWins]
    BY DEF Init, MaxWins
  <2>3. lines \in [Appliers -> [Proposals -> Statuses]]
    BY DEF Init, NoLines, Statuses
  <2>4. status \in [Proposals -> Statuses]
    BY DEF Init, Statuses
  <2>5. QED
    BY <2>1, <2>2, <2>3, <2>4 DEF Init, TypeOK, PCs, Receipts
<1>2. Equipped /\ Exclusive /\ CleanStart
  BY DEF Init, Equipped, Exclusive, CleanStart
<1>3. OnePending
  BY DEF Init, OnePending
<1>4. QED
  BY <1>1, <1>2, <1>3 DEF IInv

\* Every step keeps the invariant.
LEMMA InvariantStep ==
    ASSUME IInv, [Next]_vars
    PROVE  IInv'
<1> USE DEF IInv
<1>1. TypeOK'
  BY TypeStep
<1>2. Equipped'
  BY EquippedStep
<1>3. Exclusive'
  BY ExclusiveStep
<1>4. CleanStart' /\ OnePending'
  BY JournalStep
<1>5. QED
  BY <1>1, <1>2, <1>3, <1>4

\* The inductive invariant: whatever crashes, escapes, is refused or is rolled
\* back, the types are right, every applier is equipped for its next step, the
\* workspace belongs to the applier that locked it, and the journal is empty
\* when it begins an op.
THEOREM Invariance == Spec => []IInv
<1>1. Init => IInv
  BY FirstInvariant
<1>2. IInv /\ [Next]_vars => IInv'
  BY InvariantStep
<1>3. QED
  BY <1>1, <1>2, PTL DEF Spec

\* Type correctness of the apply engine.
THEOREM TypeCorrectness == Spec => []TypeOK
<1>1. IInv => TypeOK
  BY DEF IInv
<1>2. QED
  BY <1>1, Invariance, PTL

\* However many appliers there are and whichever of them die in the middle of
\* an op, the journal never holds two pending ops: WAL.replay, which puts the
\* backups back oldest first, never meets two backups of one file.
THEOREM OneOpIsPending == Spec => []OnePending
<1>1. IInv => OnePending
  BY DEF IInv
<1>2. QED
  BY <1>1, Invariance, PTL
=============================================================================
