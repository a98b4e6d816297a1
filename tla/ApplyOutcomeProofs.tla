--------------------------- MODULE ApplyOutcomeProofs ---------------------------
(***************************************************************************)
(* Proofs about what an apply leaves behind: a proposal is applied once,   *)
(* other writers keep their blocks, and no op takes effect in part.        *)
(***************************************************************************)
EXTENDS ApplyEngineProofs

-----------------------------------------------------------------------------
(* Who is at work has the workspace to itself.                             *)

\* Unless somebody runs rollback, whoever has got past waiting for the
\* workspace lock has it until the end.
Alone == ~Operator => \A a \in Appliers :
    cause[a] # "rollback" /\ (pc[a] \notin {"idle", "wait"} => lock = a)

\* Every step leaves the lock with whoever is past waiting for it.
LEMMA AloneStep ==
    ASSUME TypeOK, Alone, [Next]_vars
    PROVE  Alone'
<1>1. ASSUME NEW a \in Appliers, TakeWorkspace(a) PROVE Alone'
  BY <1>1, ProposalsAreValid DEF TakeWorkspace, Goto, corpus, ledger, others,
     locals, TypeOK, Alone
<1>2. ASSUME NEW a \in Appliers, WorkspaceTimeout(a) PROVE Alone'
  BY <1>2, ProposalsAreValid DEF WorkspaceTimeout, Forget, corpus, ledger,
     others, Goto, TypeOK, Alone
<1>3. ASSUME NEW a \in Appliers, Recheck(a) PROVE Alone'
  BY <1>3, ProposalsAreValid DEF Recheck, Goto, corpus, ledger, others,
     locals, TypeOK, Alone
<1>4. ASSUME NEW a \in Appliers, Replay(a) PROVE Alone'
  BY <1>4, ProposalsAreValid DEF Replay, Goto, corpus, ledger, others, locals,
     TypeOK, Alone
<1>5. ASSUME NEW a \in Appliers, ListFiles(a) PROVE Alone'
  BY <1>5, ProposalsAreValid DEF ListFiles, Goto, corpus, ledger, others,
     TypeOK, Alone
<1>6. ASSUME NEW a \in Appliers, TakeSnapshot(a) PROVE Alone'
  BY <1>6, ProposalsAreValid DEF TakeSnapshot, Goto, corpus, ledger, others,
     locals, TypeOK, Alone
<1>7. ASSUME NEW a \in Appliers, Unmeasurable(a) PROVE Alone'
  BY <1>7, ProposalsAreValid DEF Unmeasurable, Goto, corpus, ledger, others,
     TypeOK, Alone
<1>8. ASSUME NEW a \in Appliers, WriteReceipt(a) PROVE Alone'
  BY <1>8, ProposalsAreValid DEF WriteReceipt, Goto, corpus, ledger, others,
     locals, TypeOK, Alone
<1>9. ASSUME NEW a \in Appliers, Begin(a) PROVE Alone'
  BY <1>9, ProposalsAreValid DEF Begin, Goto, corpus, ledger, others, locals,
     TypeOK, Alone
<1>10. ASSUME NEW a \in Appliers, WriteBlock(a) PROVE Alone'
  BY <1>10, ProposalsAreValid DEF WriteBlock, Goto, ledger, others, TypeOK,
     Alone
<1>11. ASSUME NEW a \in Appliers, OpFails(a) PROVE Alone'
  BY <1>11, ProposalsAreValid DEF OpFails, Goto, corpus, ledger, others,
     locals, TypeOK, Alone
<1>12. ASSUME NEW a \in Appliers, OpEscapes(a) PROVE Alone'
  BY <1>12, ProposalsAreValid DEF OpEscapes, Goto, corpus, ledger, others,
     locals, TypeOK, Alone
<1>13. ASSUME NEW a \in Appliers, Commit(a) PROVE Alone'
  BY <1>13, ProposalsAreValid DEF Commit, Goto, corpus, ledger, others,
     TypeOK, Alone
<1>14. ASSUME NEW a \in Appliers, PostCheck(a) PROVE Alone'
  BY <1>14, ProposalsAreValid DEF PostCheck, Goto, corpus, ledger, others,
     TypeOK, Alone
<1>15. ASSUME NEW a \in Appliers, Close(a) PROVE Alone'
  BY <1>15, ProposalsAreValid DEF Close, Goto, corpus, ledger, others, locals,
     TypeOK, Alone
<1>16. ASSUME NEW a \in Appliers, UndoOp(a) PROVE Alone'
  BY <1>16, ProposalsAreValid DEF UndoOp, Goto, corpus, ledger, others,
     TypeOK, Alone
<1>17. ASSUME NEW a \in Appliers, OpenRestore(a) PROVE Alone'
  BY <1>17, ProposalsAreValid DEF OpenRestore, Goto, corpus, ledger, others,
     TypeOK, Alone
<1>18. ASSUME NEW a \in Appliers, CopyBack(a) PROVE Alone'
  BY <1>18, ProposalsAreValid DEF CopyBack, ledger, others, TypeOK, Alone
<1>19. ASSUME NEW a \in Appliers, SweepOrphans(a) PROVE Alone'
  BY <1>19, ProposalsAreValid DEF SweepOrphans, Goto, ledger, others, locals,
     TypeOK, Alone
<1>20. ASSUME NEW a \in Appliers, CleanupOrphans(a) PROVE Alone'
  BY <1>20, ProposalsAreValid DEF CleanupOrphans, Goto, ledger, others,
     locals, TypeOK, Alone
<1>21. ASSUME NEW a \in Appliers, RecordRollback(a) PROVE Alone'
  BY <1>21, ProposalsAreValid DEF RecordRollback, Goto, corpus, ledger,
     others, locals, TypeOK, Alone
<1>22. ASSUME NEW a \in Appliers, ReadLines(a) PROVE Alone'
  BY <1>22, ProposalsAreValid DEF ReadLines, Goto, corpus, others, locals,
     TypeOK, Alone
<1>23. ASSUME NEW a \in Appliers, ReplaceLines(a) PROVE Alone'
  BY <1>23, ProposalsAreValid DEF ReplaceLines, Goto, corpus, others, locals,
     TypeOK, Alone
<1>24. ASSUME NEW a \in Appliers, MarkFails(a) PROVE Alone'
  BY <1>24, ProposalsAreValid DEF MarkFails, Goto, corpus, ledger, others,
     locals, TypeOK, Alone
<1>25. ASSUME NEW a \in Appliers, Unlock(a) PROVE Alone'
  BY <1>25, ProposalsAreValid DEF Unlock, Forget, ReleaseIf, corpus, ledger,
     others, Goto, TypeOK, Alone
<1>26. ASSUME NEW a \in Appliers, Crash(a) PROVE Alone'
  BY <1>26, ProposalsAreValid DEF Crash, Forget, ReleaseIf, corpus, others,
     Goto, TypeOK, Alone
<1>27. ASSUME NEW a \in Appliers, NEW p \in Proposals, Submit(a, p)
      PROVE  Alone'
  BY <1>27, ProposalsAreValid DEF Submit, Goto, corpus, ledger, others,
     TypeOK, Alone
<1>28. ASSUME NEW a \in Appliers, NEW p \in Proposals, RollBack(a, p)
      PROVE  Alone'
  BY <1>28, ProposalsAreValid DEF RollBack, Goto, corpus, ledger, others,
     TypeOK, Alone
<1>29. ASSUME NEW p \in Proposals, Stage(p) PROVE Alone'
  BY <1>29, ProposalsAreValid DEF Stage, corpus, others, locals, TypeOK, Alone
<1>30. ASSUME NEW w \in Writers, NEW b \in Foreign, ReadFile(w, b) PROVE Alone'
  BY <1>30, ProposalsAreValid DEF ReadFile, corpus, ledger, locals, TypeOK,
     Alone
<1>31. ASSUME NEW w \in Writers, ReplaceFile(w) PROVE Alone'
  BY <1>31, ProposalsAreValid DEF ReplaceFile, ledger, locals, TypeOK, Alone
<1>32. CASE ReplayCommand
  BY <1>32, ProposalsAreValid DEF ReplayCommand, ledger, others, locals,
     TypeOK, Alone
<1>33. CASE UNCHANGED vars
  BY <1>33, ProposalsAreValid DEF vars, TypeOK, Alone
<1>34. QED
  BY <1>1, <1>2, <1>3, <1>4, <1>5, <1>6, <1>7, <1>8, <1>9, <1>10, <1>11,
     <1>12, <1>13, <1>14, <1>15, <1>16, <1>17, <1>18, <1>19, <1>20, <1>21,
     <1>22, <1>23, <1>24, <1>25, <1>26, <1>27, <1>28, <1>29, <1>30, <1>31,
     <1>32, <1>33
  DEF Next, Step, Applying, Restoring, Marking

-----------------------------------------------------------------------------
(* A proposal is applied once.                                             *)

\* When that can be expected: the update of a Status line does not give up,
\* and if rollback, which takes no lock, may update Status lines too, no
\* stager appends to the proposal file at the same time.
OneUpdater == ~MarkMayFail /\ (Operator => FirstStaged = Proposals)

\* While an apply may still succeed, its applier has the workspace, its
\* proposal has not been applied before and its Status line is in the file.
\* A Status update holds the marker and writes back the lines that are there,
\* but for those of proposals staged since it read them; a proposal that has
\* been applied has a Status that says it is settled.
HasAChance == \A a \in Appliers :
    /\ pc[a] \in {"restore", "copy", "orphans", "record"} => cause[a] # "ok"
    /\ cause[a] = "ok" /\ pc[a] \notin {"idle", "wait", "recheck", "unlock"} =>
         lock = a /\ wins[prop[a]] = 0 /\ status[prop[a]] # "absent"
Marks == \A a \in Appliers : pc[a] = "replace" =>
    /\ marker = a
    /\ \A q \in Proposals :
         \/ lines[a][q] = status[q]
         \/ ~Operator /\ lines[a][q] = "absent" /\ status[q] = "staged"
    /\ cause[a] = "ok" => lines[a][prop[a]] # "absent"
Settled == \A p \in Proposals :
    /\ wins[p] <= 1
    /\ wins[p] = 1 => status[p] \in {"applied", "rolled_back"}
    /\ Operator => status[p] # "absent"
Once == HasAChance /\ Marks /\ Settled /\ Alone

\* What the replacing of the Status lines comes to, when they were read by an
\* applier that holds the marker: its own line changes, and so does that of a
\* proposal staged in between, which is lost.
LEMMA LinesReplaced ==
    ASSUME TypeOK, Equipped, Once, NEW a \in Appliers, ReplaceLines(a)
    PROVE  /\ pc[a] = "replace" /\ marker = a /\ prop[a] \in Proposals
           /\ pc' = [pc EXCEPT ![a] = "unlock"]
           /\ marker' = None
           /\ lines' = [lines EXCEPT ![a] = NoLines]
           /\ UNCHANGED <<lock, prop, cause>>
           /\ \A q \in Proposals \ {prop[a]} :
                \/ status'[q] = status[q]
                \/ ~Operator /\ status[q] = "staged" /\ status'[q] = "absent"
           /\ \/ status'[prop[a]] = "applied" /\ cause[a] = "ok"
              \/ status'[prop[a]] = "rolled_back" /\ cause[a] # "ok"
              \/ /\ status'[prop[a]] = "absent" /\ cause[a] # "ok"
                 /\ \/ status[prop[a]] = "absent"
                    \/ ~Operator /\ status[prop[a]] = "staged"
           /\ \A q \in Proposals \ {prop[a]} : wins'[q] = wins[q]
           /\ cause[a] # "ok" => wins' = wins
           /\ cause[a] = "ok" /\ wins[prop[a]] = 0 => wins'[prop[a]] = 1
<1>1. /\ pc[a] = "replace" /\ marker = a /\ prop[a] \in Proposals
      /\ lines[a] \in [Proposals -> Statuses]
      /\ \A q \in Proposals :
           \/ lines[a][q] = status[q]
           \/ ~Operator /\ lines[a][q] = "absent" /\ status[q] = "staged"
      /\ cause[a] = "ok" => lines[a][prop[a]] # "absent"
  BY DEF ReplaceLines, Equipped, Once, Marks, TypeOK
<1>2. /\ \A q \in Proposals \ {prop[a]} : status'[q] = lines[a][q]
      /\ status'[prop[a]] = IF lines[a][prop[a]] = "absent" THEN "absent"
                            ELSE IF cause[a] = "ok" THEN "applied" ELSE "rolled_back"
  BY <1>1 DEF ReplaceLines
<1>3. /\ \A q \in Proposals \ {prop[a]} : wins'[q] = wins[q]
      /\ cause[a] # "ok" => wins' = wins
      /\ cause[a] = "ok" /\ wins[prop[a]] = 0 => wins'[prop[a]] = 1
  BY <1>1 DEF ReplaceLines, Succeeded, TypeOK, MaxWins
<1>4. /\ pc' = [pc EXCEPT ![a] = "unlock"] /\ marker' = None
      /\ lines' = [lines EXCEPT ![a] = NoLines]
      /\ UNCHANGED <<lock, prop, cause>>
  BY DEF ReplaceLines, Goto, locals
<1>5. ASSUME NEW q \in Proposals \ {prop[a]}
      PROVE  \/ status'[q] = status[q]
             \/ ~Operator /\ status[q] = "staged" /\ status'[q] = "absent"
  BY <1>1, <1>2
<1>6. \/ status'[prop[a]] = "applied" /\ cause[a] = "ok"
      \/ status'[prop[a]] = "rolled_back" /\ cause[a] # "ok"
      \/ /\ status'[prop[a]] = "absent" /\ cause[a] # "ok"
         /\ \/ status[prop[a]] = "absent"
            \/ ~Operator /\ status[prop[a]] = "staged"
  <2>1. CASE lines[a][prop[a]] = "absent"
    <3>1. cause[a] # "ok" /\ status'[prop[a]] = "absent"
      BY <1>1, <1>2, <2>1
    <3>2. \/ status[prop[a]] = "absent"
          \/ ~Operator /\ status[prop[a]] = "staged"
      BY <1>1, <2>1
    <3>3. QED
      BY <3>1, <3>2
  <2>2. CASE lines[a][prop[a]] # "absent" /\ cause[a] = "ok"
    BY <1>2, <2>2
  <2>3. CASE lines[a][prop[a]] # "absent" /\ cause[a] # "ok"
    BY <1>2, <2>3
  <2>4. QED
    BY <2>1, <2>2, <2>3
<1>7. QED
  BY <1>1, <1>3, <1>4, <1>5, <1>6

\* Every step leaves an apply that may still succeed its chance: the lock
\* keeps the others from succeeding, and the second look at the Status line
\* turns down a proposal that has been applied.
LEMMA ChanceStep ==
    ASSUME TypeOK, Equipped, Exclusive, OneUpdater, Once, [Next]_vars
    PROVE  HasAChance'
<1>1. ASSUME NEW a \in Appliers, TakeWorkspace(a) PROVE HasAChance'
  BY <1>1, ProposalsAreValid DEF TakeWorkspace, Goto, corpus, ledger, others,
     locals, TypeOK, Once, Alone, HasAChance, Settled, Marks, Equipped, OneUpdater
<1>2. ASSUME NEW a \in Appliers, WorkspaceTimeout(a) PROVE HasAChance'
  BY <1>2, ProposalsAreValid DEF WorkspaceTimeout, Forget, corpus, ledger,
     others, Goto, TypeOK, Once, Alone, HasAChance, Settled, Marks, Equipped,
     OneUpdater
<1>3. ASSUME NEW a \in Appliers, Recheck(a) PROVE HasAChance'
  <2>1. /\ pc[a] = "recheck"
        /\ UNCHANGED <<status, lines, wins, marker, lock, prop, cause>>
    BY <1>3 DEF Recheck, ledger, locals
  <2>2. CASE status[prop[a]] = "staged"
    <3>1. pc' = [pc EXCEPT ![a] = "replay"]
      BY <1>3, <2>2 DEF Recheck, Goto
    <3>2. prop[a] \in Proposals /\ lock = a
      BY <2>1 DEF Equipped, Exclusive
    <3>3. wins[prop[a]] = 0
      <4>1. wins[prop[a]] \in 0..MaxWins
        BY <3>2 DEF TypeOK
      <4>2. wins[prop[a]] <= 1 /\ wins[prop[a]] # 1
        BY <2>2, <3>2 DEF Once, Settled
      <4>3. QED
        BY <4>1, <4>2 DEF MaxWins
    <3>4. QED
      BY <2>1, <2>2, <3>1, <3>2, <3>3 DEF TypeOK, Once, Alone, HasAChance
  <2>3. CASE status[prop[a]] # "staged"
    <3>1. pc' = [pc EXCEPT ![a] = "unlock"]
      BY <1>3, <2>3 DEF Recheck, Goto
    <3>2. QED
      BY <2>1, <3>1 DEF TypeOK, Once, Alone, HasAChance
  <2>4. QED
    BY <2>2, <2>3
<1>4. ASSUME NEW a \in Appliers, Replay(a) PROVE HasAChance'
  <2>1. UNCHANGED pc \/ pc' = [pc EXCEPT ![a] = "list"]
    BY <1>4 DEF Replay, Goto
  <2>2. UNCHANGED <<status, lines, wins, marker, lock, prop, cause>>
    BY <1>4 DEF Replay, ledger, locals
  <2>3. pc[a] = "replay"
    BY <1>4 DEF Replay
  <2>4. QED
    BY <2>1, <2>2, <2>3, ProposalsAreValid DEF TypeOK, Once, Alone, HasAChance
<1>5. ASSUME NEW a \in Appliers, ListFiles(a) PROVE HasAChance'
  BY <1>5, ProposalsAreValid DEF ListFiles, Goto, corpus, ledger, others,
     TypeOK, Once, Alone, HasAChance, Settled, Marks, Equipped, OneUpdater
<1>6. ASSUME NEW a \in Appliers, TakeSnapshot(a) PROVE HasAChance'
  BY <1>6, ProposalsAreValid DEF TakeSnapshot, Goto, corpus, ledger, others,
     locals, TypeOK, Once, Alone, HasAChance, Settled, Marks, Equipped, OneUpdater
<1>7. ASSUME NEW a \in Appliers, Unmeasurable(a) PROVE HasAChance'
  BY <1>7, ProposalsAreValid DEF Unmeasurable, Goto, corpus, ledger, others,
     TypeOK, Once, Alone, HasAChance, Settled, Marks, Equipped, OneUpdater
<1>8. ASSUME NEW a \in Appliers, WriteReceipt(a) PROVE HasAChance'
  BY <1>8, ProposalsAreValid DEF WriteReceipt, Goto, corpus, ledger, others,
     locals, TypeOK, Once, Alone, HasAChance, Settled, Marks, Equipped, OneUpdater
<1>9. ASSUME NEW a \in Appliers, Begin(a) PROVE HasAChance'
  BY <1>9, ProposalsAreValid DEF Begin, Goto, corpus, ledger, others, locals,
     TypeOK, Once, Alone, HasAChance, Settled, Marks, Equipped, OneUpdater
<1>10. ASSUME NEW a \in Appliers, WriteBlock(a) PROVE HasAChance'
  BY <1>10, ProposalsAreValid DEF WriteBlock, Goto, ledger, others, TypeOK,
     Once, Alone, HasAChance, Settled, Marks, Equipped, OneUpdater
<1>11. ASSUME NEW a \in Appliers, OpFails(a) PROVE HasAChance'
  BY <1>11, ProposalsAreValid DEF OpFails, Goto, corpus, ledger, others,
     locals, TypeOK, Once, Alone, HasAChance, Settled, Marks, Equipped, OneUpdater
<1>12. ASSUME NEW a \in Appliers, OpEscapes(a) PROVE HasAChance'
  BY <1>12, ProposalsAreValid DEF OpEscapes, Goto, corpus, ledger, others,
     locals, TypeOK, Once, Alone, HasAChance, Settled, Marks, Equipped, OneUpdater
<1>13. ASSUME NEW a \in Appliers, Commit(a) PROVE HasAChance'
  <2>1. \/ pc' = [pc EXCEPT ![a] = "begin"]
        \/ pc' = [pc EXCEPT ![a] = "postcheck"]
    BY <1>13 DEF Commit, Goto
  <2>2. UNCHANGED <<status, lines, wins, marker, lock, prop, cause>>
    BY <1>13 DEF Commit, ledger
  <2>3. pc[a] = "commit"
    BY <1>13 DEF Commit
  <2>4. QED
    BY <2>1, <2>2, <2>3, ProposalsAreValid DEF TypeOK, Once, Alone, HasAChance
<1>14. ASSUME NEW a \in Appliers, PostCheck(a) PROVE HasAChance'
  <2>1. \/ pc' = [pc EXCEPT ![a] = "close"] /\ UNCHANGED cause
        \/ /\ pc' = [pc EXCEPT ![a] = "restore"]
           /\ cause' = [cause EXCEPT ![a] = "regressed"]
    BY <1>14 DEF PostCheck, Goto
  <2>2. UNCHANGED <<status, lines, wins, marker, lock, prop>>
    BY <1>14 DEF PostCheck, ledger
  <2>3. pc[a] = "postcheck"
    BY <1>14 DEF PostCheck
  <2>4. CASE pc' = [pc EXCEPT ![a] = "close"] /\ UNCHANGED cause
    BY <2>2, <2>3, <2>4, ProposalsAreValid DEF TypeOK, Once, Alone, HasAChance
  <2>5. CASE /\ pc' = [pc EXCEPT ![a] = "restore"]
             /\ cause' = [cause EXCEPT ![a] = "regressed"]
    BY <2>2, <2>3, <2>5, ProposalsAreValid DEF TypeOK, Once, Alone, HasAChance
  <2>6. QED
    BY <2>1, <2>4, <2>5
<1>15. ASSUME NEW a \in Appliers, Close(a) PROVE HasAChance'
  <2>1. \/ pc' = [pc EXCEPT ![a] = "mark"]
        \/ pc' = [pc EXCEPT ![a] = "unlock"]
    BY <1>15 DEF Close, Goto
  <2>2. UNCHANGED <<status, lines, wins, marker, lock, prop, cause>>
    BY <1>15 DEF Close, ledger, locals
  <2>3. pc[a] = "close"
    BY <1>15 DEF Close
  <2>4. QED
    BY <2>1, <2>2, <2>3, ProposalsAreValid DEF TypeOK, Once, Alone, HasAChance
<1>16. ASSUME NEW a \in Appliers, UndoOp(a) PROVE HasAChance'
  BY <1>16, ProposalsAreValid DEF UndoOp, Goto, corpus, ledger, others,
     TypeOK, Once, Alone, HasAChance, Settled, Marks, Equipped, OneUpdater
<1>17. ASSUME NEW a \in Appliers, OpenRestore(a) PROVE HasAChance'
  BY <1>17, ProposalsAreValid DEF OpenRestore, Goto, corpus, ledger, others,
     TypeOK, Once, Alone, HasAChance, Settled, Marks, Equipped, OneUpdater
<1>18. ASSUME NEW a \in Appliers, CopyBack(a) PROVE HasAChance'
  BY <1>18, ProposalsAreValid DEF CopyBack, ledger, others, TypeOK, Once,
     Alone, HasAChance, Settled, Marks, Equipped, OneUpdater
<1>19. ASSUME NEW a \in Appliers, SweepOrphans(a) PROVE HasAChance'
  BY <1>19, ProposalsAreValid DEF SweepOrphans, Goto, ledger, others, locals,
     TypeOK, Once, Alone, HasAChance, Settled, Marks, Equipped, OneUpdater
<1>20. ASSUME NEW a \in Appliers, CleanupOrphans(a) PROVE HasAChance'
  BY <1>20, ProposalsAreValid DEF CleanupOrphans, Goto, ledger, others,
     locals, TypeOK, Once, Alone, HasAChance, Settled, Marks, Equipped, OneUpdater
<1>21. ASSUME NEW a \in Appliers, RecordRollback(a) PROVE HasAChance'
  <2>1. \/ pc' = [pc EXCEPT ![a] = "mark"]
        \/ pc' = [pc EXCEPT ![a] = "unlock"]
    BY <1>21 DEF RecordRollback, Goto
  <2>2. UNCHANGED <<status, lines, wins, marker, lock, prop, cause>>
    BY <1>21 DEF RecordRollback, ledger, locals
  <2>3. pc[a] = "record"
    BY <1>21 DEF RecordRollback
  <2>4. QED
    BY <2>1, <2>2, <2>3, ProposalsAreValid DEF TypeOK, Once, Alone, HasAChance
<1>22. ASSUME NEW a \in Appliers, ReadLines(a) PROVE HasAChance'
  BY <1>22, ProposalsAreValid DEF ReadLines, Goto, corpus, others, locals,
     TypeOK, Once, Alone, HasAChance, Settled, Marks, Equipped, OneUpdater
<1>23. ASSUME NEW a \in Appliers, ReplaceLines(a) PROVE HasAChance'
  <2>1. \A c \in Appliers \ {a} :
          /\ pc'[c] = pc[c] /\ cause'[c] = cause[c] /\ prop'[c] = prop[c]
          /\ cause[c] = "ok" /\ pc[c] \notin {"idle", "wait", "recheck", "unlock"} =>
               /\ wins'[prop[c]] = 0 /\ status'[prop[c]] # "absent"
    <3> SUFFICES ASSUME NEW c \in Appliers \ {a}, cause[c] = "ok",
                        pc[c] \notin {"idle", "wait", "recheck", "unlock"}
                 PROVE  wins'[prop[c]] = 0 /\ status'[prop[c]] # "absent"
      BY <1>23, LinesReplaced DEF TypeOK
    <3>1. /\ lock = c /\ wins[prop[c]] = 0 /\ status[prop[c]] # "absent"
          /\ prop[c] \in Proposals
      BY DEF Once, Alone, HasAChance, Equipped
    <3>2. Operator /\ cause[a] # "ok"
      BY <3>1, <1>23, LinesReplaced DEF Once, Alone, HasAChance
    <3>3. status'[prop[c]] # "absent"
      BY <3>1, <3>2, <1>23, LinesReplaced
    <3>4. QED
      BY <3>1, <3>2, <3>3, <1>23, LinesReplaced
  <2>2. pc'[a] = "unlock" /\ cause'[a] = cause[a] /\ lock' = lock
    BY <1>23, LinesReplaced DEF TypeOK
  <2>3. pc[a] = "replace"
    BY <1>23 DEF ReplaceLines
  <2>4. QED
    BY <2>1, <2>2, <2>3 DEF Once, Alone, HasAChance
<1>24. ASSUME NEW a \in Appliers, MarkFails(a) PROVE HasAChance'
  BY <1>24, ProposalsAreValid DEF MarkFails, Goto, corpus, ledger, others,
     locals, Succeeded, TypeOK, Once, Alone, HasAChance, Settled, Marks, Equipped,
     OneUpdater
<1>25. ASSUME NEW a \in Appliers, Unlock(a) PROVE HasAChance'
  BY <1>25, ProposalsAreValid DEF Unlock, Forget, ReleaseIf, corpus, ledger,
     others, Goto, TypeOK, Once, Alone, HasAChance, Settled, Marks, Equipped,
     OneUpdater
<1>26. ASSUME NEW a \in Appliers, Crash(a) PROVE HasAChance'
  BY <1>26, ProposalsAreValid DEF Crash, Forget, ReleaseIf, corpus, others,
     Goto, NoLines, TypeOK, Once, Alone, HasAChance, Settled, Marks, Equipped,
     OneUpdater
<1>27. ASSUME NEW a \in Appliers, NEW p \in Proposals, Submit(a, p)
      PROVE  HasAChance'
  BY <1>27, ProposalsAreValid DEF Submit, Goto, corpus, ledger, others,
     TypeOK, Once, Alone, HasAChance, Settled, Marks, Equipped, OneUpdater
<1>28. ASSUME NEW a \in Appliers, NEW p \in Proposals, RollBack(a, p)
      PROVE  HasAChance'
  BY <1>28, ProposalsAreValid DEF RollBack, Goto, corpus, ledger, others,
     TypeOK, Once, Alone, HasAChance, Settled, Marks, Equipped, OneUpdater
<1>29. ASSUME NEW p \in Proposals, Stage(p) PROVE HasAChance'
  BY <1>29, ProposalsAreValid DEF Stage, corpus, others, locals, TypeOK, Once,
     Alone, HasAChance, Settled, Marks, Equipped, OneUpdater
<1>30. ASSUME NEW w \in Writers, NEW b \in Foreign, ReadFile(w, b)
      PROVE  HasAChance'
  BY <1>30, ProposalsAreValid DEF ReadFile, corpus, ledger, locals, TypeOK,
     Once, Alone, HasAChance, Settled, Marks, Equipped, OneUpdater
<1>31. ASSUME NEW w \in Writers, ReplaceFile(w) PROVE HasAChance'
  BY <1>31, ProposalsAreValid DEF ReplaceFile, ledger, locals, TypeOK, Once,
     Alone, HasAChance, Settled, Marks, Equipped, OneUpdater
<1>32. CASE ReplayCommand
  BY <1>32, ProposalsAreValid DEF ReplayCommand, ledger, others, locals,
     TypeOK, Once, Alone, HasAChance, Settled, Marks, Equipped, OneUpdater
<1>33. CASE UNCHANGED vars
  BY <1>33, ProposalsAreValid DEF vars, TypeOK, Once, Alone, HasAChance, Settled,
     Marks, Equipped, OneUpdater
<1>34. QED
  BY <1>1, <1>2, <1>3, <1>4, <1>5, <1>6, <1>7, <1>8, <1>9, <1>10, <1>11,
     <1>12, <1>13, <1>14, <1>15, <1>16, <1>17, <1>18, <1>19, <1>20, <1>21,
     <1>22, <1>23, <1>24, <1>25, <1>26, <1>27, <1>28, <1>29, <1>30, <1>31,
     <1>32, <1>33
  DEF Next, Step, Applying, Restoring, Marking


\* Every step leaves the applier with the marker the lines it has read.
LEMMA MarksStep ==
    ASSUME TypeOK, Equipped, Exclusive, OneUpdater, Once, [Next]_vars
    PROVE  Marks'
<1>1. ASSUME NEW a \in Appliers, TakeWorkspace(a) PROVE Marks'
  BY <1>1, ProposalsAreValid DEF TakeWorkspace, Goto, corpus, ledger, others,
     locals, TypeOK, Once, Alone, HasAChance, Settled, Marks, Equipped, OneUpdater
<1>2. ASSUME NEW a \in Appliers, WorkspaceTimeout(a) PROVE Marks'
  BY <1>2, ProposalsAreValid DEF WorkspaceTimeout, Forget, corpus, ledger,
     others, Goto, TypeOK, Once, Alone, HasAChance, Settled, Marks, Equipped,
     OneUpdater
<1>3. ASSUME NEW a \in Appliers, Recheck(a) PROVE Marks'
  BY <1>3, ProposalsAreValid DEF Recheck, Goto, corpus, ledger, others,
     locals, TypeOK, Once, Alone, HasAChance, Settled, Marks, Equipped, OneUpdater
<1>4. ASSUME NEW a \in Appliers, Replay(a) PROVE Marks'
  BY <1>4, ProposalsAreValid DEF Replay, Goto, corpus, ledger, others, locals,
     TypeOK, Once, Alone, HasAChance, Settled, Marks, Equipped, OneUpdater
<1>5. ASSUME NEW a \in Appliers, ListFiles(a) PROVE Marks'
  BY <1>5, ProposalsAreValid DEF ListFiles, Goto, corpus, ledger, others,
     TypeOK, Once, Alone, HasAChance, Settled, Marks, Equipped, OneUpdater
<1>6. ASSUME NEW a \in Appliers, TakeSnapshot(a) PROVE Marks'
  BY <1>6, ProposalsAreValid DEF TakeSnapshot, Goto, corpus, ledger, others,
     locals, TypeOK, Once, Alone, HasAChance, Settled, Marks, Equipped, OneUpdater
<1>7. ASSUME NEW a \in Appliers, Unmeasurable(a) PROVE Marks'
  BY <1>7, ProposalsAreValid DEF Unmeasurable, Goto, corpus, ledger, others,
     TypeOK, Once, Alone, HasAChance, Settled, Marks, Equipped, OneUpdater
<1>8. ASSUME NEW a \in Appliers, WriteReceipt(a) PROVE Marks'
  BY <1>8, ProposalsAreValid DEF WriteReceipt, Goto, corpus, ledger, others,
     locals, TypeOK, Once, Alone, HasAChance, Settled, Marks, Equipped, OneUpdater
<1>9. ASSUME NEW a \in Appliers, Begin(a) PROVE Marks'
  BY <1>9, ProposalsAreValid DEF Begin, Goto, corpus, ledger, others, locals,
     TypeOK, Once, Alone, HasAChance, Settled, Marks, Equipped, OneUpdater
<1>10. ASSUME NEW a \in Appliers, WriteBlock(a) PROVE Marks'
  BY <1>10, ProposalsAreValid DEF WriteBlock, Goto, ledger, others, TypeOK,
     Once, Alone, HasAChance, Settled, Marks, Equipped, OneUpdater
<1>11. ASSUME NEW a \in Appliers, OpFails(a) PROVE Marks'
  BY <1>11, ProposalsAreValid DEF OpFails, Goto, corpus, ledger, others,
     locals, TypeOK, Once, Alone, HasAChance, Settled, Marks, Equipped, OneUpdater
<1>12. ASSUME NEW a \in Appliers, OpEscapes(a) PROVE Marks'
  BY <1>12, ProposalsAreValid DEF OpEscapes, Goto, corpus, ledger, others,
     locals, TypeOK, Once, Alone, HasAChance, Settled, Marks, Equipped, OneUpdater
<1>13. ASSUME NEW a \in Appliers, Commit(a) PROVE Marks'
  <2>1. \/ pc' = [pc EXCEPT ![a] = "begin"]
        \/ pc' = [pc EXCEPT ![a] = "postcheck"]
    BY <1>13 DEF Commit, Goto
  <2>2. UNCHANGED <<status, lines, wins, marker, lock, prop, cause>>
    BY <1>13 DEF Commit, ledger
  <2>3. pc[a] = "commit"
    BY <1>13 DEF Commit
  <2>4. QED
    BY <2>1, <2>2, <2>3, ProposalsAreValid DEF TypeOK, Once, Marks
<1>14. ASSUME NEW a \in Appliers, PostCheck(a) PROVE Marks'
  BY <1>14, ProposalsAreValid DEF PostCheck, Goto, corpus, ledger, others,
     TypeOK, Once, Alone, HasAChance, Settled, Marks, Equipped, OneUpdater
<1>15. ASSUME NEW a \in Appliers, Close(a) PROVE Marks'
  BY <1>15, ProposalsAreValid DEF Close, Goto, corpus, ledger, others, locals,
     TypeOK, Once, Alone, HasAChance, Settled, Marks, Equipped, OneUpdater
<1>16. ASSUME NEW a \in Appliers, UndoOp(a) PROVE Marks'
  BY <1>16, ProposalsAreValid DEF UndoOp, Goto, corpus, ledger, others,
     TypeOK, Once, Alone, HasAChance, Settled, Marks, Equipped, OneUpdater
<1>17. ASSUME NEW a \in Appliers, OpenRestore(a) PROVE Marks'
  BY <1>17, ProposalsAreValid DEF OpenRestore, Goto, corpus, ledger, others,
     TypeOK, Once, Alone, HasAChance, Settled, Marks, Equipped, OneUpdater
<1>18. ASSUME NEW a \in Appliers, CopyBack(a) PROVE Marks'
  BY <1>18, ProposalsAreValid DEF CopyBack, ledger, others, TypeOK, Once,
     Alone, HasAChance, Settled, Marks, Equipped, OneUpdater
<1>19. ASSUME NEW a \in Appliers, SweepOrphans(a) PROVE Marks'
  BY <1>19, ProposalsAreValid DEF SweepOrphans, Goto, ledger, others, locals,
     TypeOK, Once, Alone, HasAChance, Settled, Marks, Equipped, OneUpdater
<1>20. ASSUME NEW a \in Appliers, CleanupOrphans(a) PROVE Marks'
  BY <1>20, ProposalsAreValid DEF CleanupOrphans, Goto, ledger, others,
     locals, TypeOK, Once, Alone, HasAChance, Settled, Marks, Equipped, OneUpdater
<1>21. ASSUME NEW a \in Appliers, RecordRollback(a) PROVE Marks'
  BY <1>21, ProposalsAreValid DEF RecordRollback, Goto, corpus, ledger,
     others, locals, TypeOK, Once, Alone, HasAChance, Settled, Marks, Equipped,
     OneUpdater
<1>22. ASSUME NEW a \in Appliers, ReadLines(a) PROVE Marks'
  <2>1. /\ pc[a] = "mark" /\ marker = None /\ marker' = a
        /\ lines' = [lines EXCEPT ![a] = status]
        /\ pc' = [pc EXCEPT ![a] = "replace"]
        /\ UNCHANGED <<status, prop, cause>>
    BY <1>22 DEF ReadLines, Goto, locals
  <2>2. \A c \in Appliers \ {a} : pc'[c] # "replace"
    BY <2>1, ProposalsAreValid DEF TypeOK, Once, Marks
  <2>3. /\ lines'[a] = status
        /\ cause[a] = "ok" => status[prop[a]] # "absent"
    BY <2>1 DEF TypeOK, Once, Alone, HasAChance
  <2>4. QED
    BY <2>1, <2>2, <2>3 DEF Marks
<1>23. ASSUME NEW a \in Appliers, ReplaceLines(a) PROVE Marks'
  <2>1. \A c \in Appliers : pc'[c] # "replace"
    <3>1. pc' = [pc EXCEPT ![a] = "unlock"] /\ marker = a
      BY <1>23, LinesReplaced
    <3>2. \A c \in Appliers \ {a} : pc[c] # "replace"
      BY <3>1 DEF Once, Marks
    <3>3. QED
      BY <3>1, <3>2 DEF TypeOK
  <2>2. QED
    BY <2>1 DEF Marks
<1>24. ASSUME NEW a \in Appliers, MarkFails(a) PROVE Marks'
  BY <1>24, ProposalsAreValid DEF MarkFails, Goto, corpus, ledger, others,
     locals, Succeeded, TypeOK, Once, Alone, HasAChance, Settled, Marks, Equipped,
     OneUpdater
<1>25. ASSUME NEW a \in Appliers, Unlock(a) PROVE Marks'
  BY <1>25, ProposalsAreValid DEF Unlock, Forget, ReleaseIf, corpus, ledger,
     others, Goto, TypeOK, Once, Alone, HasAChance, Settled, Marks, Equipped,
     OneUpdater
<1>26. ASSUME NEW a \in Appliers, Crash(a) PROVE Marks'
  BY <1>26, ProposalsAreValid DEF Crash, Forget, ReleaseIf, corpus, others,
     Goto, NoLines, TypeOK, Once, Alone, HasAChance, Settled, Marks, Equipped,
     OneUpdater
<1>27. ASSUME NEW a \in Appliers, NEW p \in Proposals, Submit(a, p)
      PROVE  Marks'
  BY <1>27, ProposalsAreValid DEF Submit, Goto, corpus, ledger, others,
     TypeOK, Once, Alone, HasAChance, Settled, Marks, Equipped, OneUpdater
<1>28. ASSUME NEW a \in Appliers, NEW p \in Proposals, RollBack(a, p)
      PROVE  Marks'
  BY <1>28, ProposalsAreValid DEF RollBack, Goto, corpus, ledger, others,
     TypeOK, Once, Alone, HasAChance, Settled, Marks, Equipped, OneUpdater
<1>29. ASSUME NEW p \in Proposals, Stage(p) PROVE Marks'
  BY <1>29, ProposalsAreValid DEF Stage, corpus, others, locals, TypeOK, Once,
     Alone, HasAChance, Settled, Marks, Equipped, OneUpdater
<1>30. ASSUME NEW w \in Writers, NEW b \in Foreign, ReadFile(w, b) PROVE Marks'
  BY <1>30, ProposalsAreValid DEF ReadFile, corpus, ledger, locals, TypeOK,
     Once, Alone, HasAChance, Settled, Marks, Equipped, OneUpdater
<1>31. ASSUME NEW w \in Writers, ReplaceFile(w) PROVE Marks'
  BY <1>31, ProposalsAreValid DEF ReplaceFile, ledger, locals, TypeOK, Once,
     Alone, HasAChance, Settled, Marks, Equipped, OneUpdater
<1>32. CASE ReplayCommand
  BY <1>32, ProposalsAreValid DEF ReplayCommand, ledger, others, locals,
     TypeOK, Once, Alone, HasAChance, Settled, Marks, Equipped, OneUpdater
<1>33. CASE UNCHANGED vars
  BY <1>33, ProposalsAreValid DEF vars, TypeOK, Once, Alone, HasAChance, Settled,
     Marks, Equipped, OneUpdater
<1>34. QED
  BY <1>1, <1>2, <1>3, <1>4, <1>5, <1>6, <1>7, <1>8, <1>9, <1>10, <1>11,
     <1>12, <1>13, <1>14, <1>15, <1>16, <1>17, <1>18, <1>19, <1>20, <1>21,
     <1>22, <1>23, <1>24, <1>25, <1>26, <1>27, <1>28, <1>29, <1>30, <1>31,
     <1>32, <1>33
  DEF Next, Step, Applying, Restoring, Marking


\* No step applies a proposal a second time or takes back that it is settled.
LEMMA SettledStep ==
    ASSUME TypeOK, Equipped, Exclusive, OneUpdater, Once, [Next]_vars
    PROVE  Settled'
<1>1. ASSUME NEW a \in Appliers, TakeWorkspace(a) PROVE Settled'
  BY <1>1, ProposalsAreValid DEF TakeWorkspace, Goto, corpus, ledger, others,
     locals, TypeOK, Once, HasAChance, Settled, Marks, Equipped, OneUpdater
<1>2. ASSUME NEW a \in Appliers, WorkspaceTimeout(a) PROVE Settled'
  BY <1>2, ProposalsAreValid DEF WorkspaceTimeout, Forget, corpus, ledger,
     others, Goto, TypeOK, Once, HasAChance, Settled, Marks, Equipped,
     OneUpdater
<1>3. ASSUME NEW a \in Appliers, Recheck(a) PROVE Settled'
  BY <1>3, ProposalsAreValid DEF Recheck, Goto, corpus, ledger, others,
     locals, TypeOK, Once, HasAChance, Settled, Marks, Equipped, OneUpdater
<1>4. ASSUME NEW a \in Appliers, Replay(a) PROVE Settled'
  BY <1>4, ProposalsAreValid DEF Replay, Goto, corpus, ledger, others, locals,
     TypeOK, Once, HasAChance, Settled, Marks, Equipped, OneUpdater
<1>5. ASSUME NEW a \in Appliers, ListFiles(a) PROVE Settled'
  BY <1>5, ProposalsAreValid DEF ListFiles, Goto, corpus, ledger, others,
     TypeOK, Once, HasAChance, Settled, Marks, Equipped, OneUpdater
<1>6. ASSUME NEW a \in Appliers, TakeSnapshot(a) PROVE Settled'
  BY <1>6, ProposalsAreValid DEF TakeSnapshot, Goto, corpus, ledger, others,
     locals, TypeOK, Once, HasAChance, Settled, Marks, Equipped, OneUpdater
<1>7. ASSUME NEW a \in Appliers, Unmeasurable(a) PROVE Settled'
  BY <1>7, ProposalsAreValid DEF Unmeasurable, Goto, corpus, ledger, others,
     TypeOK, Once, HasAChance, Settled, Marks, Equipped, OneUpdater
<1>8. ASSUME NEW a \in Appliers, WriteReceipt(a) PROVE Settled'
  BY <1>8, ProposalsAreValid DEF WriteReceipt, Goto, corpus, ledger, others,
     locals, TypeOK, Once, HasAChance, Settled, Marks, Equipped, OneUpdater
<1>9. ASSUME NEW a \in Appliers, Begin(a) PROVE Settled'
  BY <1>9, ProposalsAreValid DEF Begin, Goto, corpus, ledger, others, locals,
     TypeOK, Once, HasAChance, Settled, Marks, Equipped, OneUpdater
<1>10. ASSUME NEW a \in Appliers, WriteBlock(a) PROVE Settled'
  BY <1>10, ProposalsAreValid DEF WriteBlock, Goto, ledger, others, TypeOK,
     Once, HasAChance, Settled, Marks, Equipped, OneUpdater
<1>11. ASSUME NEW a \in Appliers, OpFails(a) PROVE Settled'
  BY <1>11, ProposalsAreValid DEF OpFails, Goto, corpus, ledger, others,
     locals, TypeOK, Once, HasAChance, Settled, Marks, Equipped, OneUpdater
<1>12. ASSUME NEW a \in Appliers, OpEscapes(a) PROVE Settled'
  BY <1>12, ProposalsAreValid DEF OpEscapes, Goto, corpus, ledger, others,
     locals, TypeOK, Once, HasAChance, Settled, Marks, Equipped, OneUpdater
<1>13. ASSUME NEW a \in Appliers, Commit(a) PROVE Settled'
  BY <1>13, ProposalsAreValid DEF Commit, Goto, corpus, ledger, others,
     TypeOK, Once, HasAChance, Settled, Marks, Equipped, OneUpdater
<1>14. ASSUME NEW a \in Appliers, PostCheck(a) PROVE Settled'
  BY <1>14, ProposalsAreValid DEF PostCheck, Goto, corpus, ledger, others,
     TypeOK, Once, HasAChance, Settled, Marks, Equipped, OneUpdater
<1>15. ASSUME NEW a \in Appliers, Close(a) PROVE Settled'
  BY <1>15, ProposalsAreValid DEF Close, Goto, corpus, ledger, others, locals,
     TypeOK, Once, HasAChance, Settled, Marks, Equipped, OneUpdater
<1>16. ASSUME NEW a \in Appliers, UndoOp(a) PROVE Settled'
  BY <1>16, ProposalsAreValid DEF UndoOp, Goto, corpus, ledger, others,
     TypeOK, Once, HasAChance, Settled, Marks, Equipped, OneUpdater
<1>17. ASSUME NEW a \in Appliers, OpenRestore(a) PROVE Settled'
  BY <1>17, ProposalsAreValid DEF OpenRestore, Goto, corpus, ledger, others,
     TypeOK, Once, HasAChance, Settled, Marks, Equipped, OneUpdater
<1>18. ASSUME NEW a \in Appliers, CopyBack(a) PROVE Settled'
  BY <1>18, ProposalsAreValid DEF CopyBack, ledger, others, TypeOK, Once,
     HasAChance, Settled, Marks, Equipped, OneUpdater
<1>19. ASSUME NEW a \in Appliers, SweepOrphans(a) PROVE Settled'
  BY <1>19, ProposalsAreValid DEF SweepOrphans, Goto, ledger, others, locals,
     TypeOK, Once, HasAChance, Settled, Marks, Equipped, OneUpdater
<1>20. ASSUME NEW a \in Appliers, CleanupOrphans(a) PROVE Settled'
  BY <1>20, ProposalsAreValid DEF CleanupOrphans, Goto, ledger, others,
     locals, TypeOK, Once, HasAChance, Settled, Marks, Equipped, OneUpdater
<1>21. ASSUME NEW a \in Appliers, RecordRollback(a) PROVE Settled'
  BY <1>21, ProposalsAreValid DEF RecordRollback, Goto, corpus, ledger,
     others, locals, TypeOK, Once, HasAChance, Settled, Marks, Equipped,
     OneUpdater
<1>22. ASSUME NEW a \in Appliers, ReadLines(a) PROVE Settled'
  BY <1>22, ProposalsAreValid DEF ReadLines, Goto, corpus, others, locals,
     TypeOK, Once, HasAChance, Settled, Marks, Equipped, OneUpdater
<1>23. ASSUME NEW a \in Appliers, ReplaceLines(a) PROVE Settled'
  <2>1. wins[prop[a]] = 0 \/ cause[a] # "ok"
    BY <1>23 DEF Once, HasAChance, ReplaceLines
  <2>2. \A q \in Proposals : wins'[q] <= 1
    BY <2>1, <1>23, LinesReplaced DEF Once, Settled
  <2>3. \A q \in Proposals : wins'[q] = 1 => status'[q] \in {"applied", "rolled_back"}
    BY <2>1, <1>23, LinesReplaced DEF Once, Settled
  <2>4. Operator => \A q \in Proposals : status'[q] # "absent"
    BY <1>23, LinesReplaced DEF Once, Settled
  <2>5. QED
    BY <2>2, <2>3, <2>4 DEF Settled
<1>24. ASSUME NEW a \in Appliers, MarkFails(a) PROVE Settled'
  BY <1>24, ProposalsAreValid DEF MarkFails, Goto, corpus, ledger, others,
     locals, Succeeded, TypeOK, Once, HasAChance, Settled, Marks, Equipped,
     OneUpdater
<1>25. ASSUME NEW a \in Appliers, Unlock(a) PROVE Settled'
  BY <1>25, ProposalsAreValid DEF Unlock, Forget, ReleaseIf, corpus, ledger,
     others, Goto, TypeOK, Once, HasAChance, Settled, Marks, Equipped,
     OneUpdater
<1>26. ASSUME NEW a \in Appliers, Crash(a) PROVE Settled'
  BY <1>26, ProposalsAreValid DEF Crash, Forget, ReleaseIf, corpus, others,
     Goto, NoLines, TypeOK, Once, HasAChance, Settled, Marks, Equipped,
     OneUpdater
<1>27. ASSUME NEW a \in Appliers, NEW p \in Proposals, Submit(a, p)
      PROVE  Settled'
  BY <1>27, ProposalsAreValid DEF Submit, Goto, corpus, ledger, others,
     TypeOK, Once, HasAChance, Settled, Marks, Equipped, OneUpdater
<1>28. ASSUME NEW a \in Appliers, NEW p \in Proposals, RollBack(a, p)
      PROVE  Settled'
  BY <1>28, ProposalsAreValid DEF RollBack, Goto, corpus, ledger, others,
     TypeOK, Once, HasAChance, Settled, Marks, Equipped, OneUpdater
<1>29. ASSUME NEW p \in Proposals, Stage(p) PROVE Settled'
  BY <1>29, ProposalsAreValid DEF Stage, corpus, others, locals, TypeOK, Once,
     HasAChance, Settled, Marks, Equipped, OneUpdater
<1>30. ASSUME NEW w \in Writers, NEW b \in Foreign, ReadFile(w, b)
      PROVE  Settled'
  BY <1>30, ProposalsAreValid DEF ReadFile, corpus, ledger, locals, TypeOK,
     Once, HasAChance, Settled, Marks, Equipped, OneUpdater
<1>31. ASSUME NEW w \in Writers, ReplaceFile(w) PROVE Settled'
  BY <1>31, ProposalsAreValid DEF ReplaceFile, ledger, locals, TypeOK, Once,
     HasAChance, Settled, Marks, Equipped, OneUpdater
<1>32. CASE ReplayCommand
  BY <1>32, ProposalsAreValid DEF ReplayCommand, ledger, others, locals,
     TypeOK, Once, HasAChance, Settled, Marks, Equipped, OneUpdater
<1>33. CASE UNCHANGED vars
  BY <1>33, ProposalsAreValid DEF vars, TypeOK, Once, HasAChance, Settled,
     Marks, Equipped, OneUpdater
<1>34. QED
  BY <1>1, <1>2, <1>3, <1>4, <1>5, <1>6, <1>7, <1>8, <1>9, <1>10, <1>11,
     <1>12, <1>13, <1>14, <1>15, <1>16, <1>17, <1>18, <1>19, <1>20, <1>21,
     <1>22, <1>23, <1>24, <1>25, <1>26, <1>27, <1>28, <1>29, <1>30, <1>31,
     <1>32, <1>33
  DEF Next, Step, Applying, Restoring, Marking


\* It holds at first.
LEMMA FirstOnce ==
    ASSUME OneUpdater, Init
    PROVE  Once
<1>1. HasAChance
  BY DEF Init, HasAChance
<1>2. Marks
  BY DEF Init, Marks
<1>3. Settled
  BY DEF Init, OneUpdater, Settled
<1>4. Alone
  BY DEF Init, Alone
<1>5. QED
  BY <1>1, <1>2, <1>3, <1>4 DEF Once

\* However many processes try it at once, die, give up or are refused: a
\* proposal is applied once.
THEOREM AppliedAtMostOnce ==
    ASSUME OneUpdater
    PROVE  Spec => []AppliedOnce
<1>1. Init => IInv /\ Once
  BY OneUpdater, FirstInvariant, FirstOnce
<1>2. IInv /\ Once /\ [Next]_vars => (IInv /\ Once)'
  BY OneUpdater, InvariantStep, AloneStep, ChanceStep, MarksStep, SettledStep
  DEF IInv, Once
<1>3. Once /\ TypeOK => AppliedOnce
  <2> SUFFICES ASSUME Once, TypeOK, NEW p \in Proposals PROVE wins[p] < MaxWins
    BY DEF AppliedOnce
  <2>1. wins[p] \in 0..2 /\ wins[p] <= 1
    BY DEF Once, Settled, TypeOK, MaxWins
  <2>2. QED
    BY <2>1 DEF MaxWins
<1>4. IInv => TypeOK
  BY DEF IInv
<1>5. QED
  BY <1>1, <1>2, <1>3, <1>4, PTL DEF Spec

-----------------------------------------------------------------------------
(* Which steps change what.                                                *)

\* Putting back what the pending entry says ends it.
Undoes(e) == PutBack(e.file, e.existed, e.backup) /\ journal' = <<>>

\* The corpus is changed by a write, by the undoing of the pending op, and by
\* the three parts of a restore; the journal by an op's beginning and its end;
\* a snapshot by an apply that takes one; the file locks by the writers.
CorpusFrame ==
    \/ UNCHANGED corpus
    \/ journal # <<>> /\ Undoes(journal[1])
    \/ \E a \in Appliers : WriteBlock(a)
    \/ \E a \in Appliers : CopyBack(a)
    \/ \E a \in Appliers : SweepOrphans(a)
    \/ \E a \in Appliers : CleanupOrphans(a)
    \/ \E w \in Writers : ReplaceFile(w)
JournalFrame ==
    \/ UNCHANGED journal
    \/ journal # <<>> /\ Undoes(journal[1])
    \/ \E a \in Appliers : Commit(a)
    \/ \E a \in Appliers : Begin(a)
SnapshotFrame ==
    UNCHANGED snapshot \/ \E a \in Appliers : TakeSnapshot(a)
WriterFrame ==
    \/ UNCHANGED others
    \/ \E w \in Writers, b \in Foreign : ReadFile(w, b)
    \/ \E w \in Writers : ReplaceFile(w)
Frames == CorpusFrame /\ JournalFrame /\ SnapshotFrame /\ WriterFrame

\* The journal's only entry is its first and its last, and nothing is left
\* without it.
LEMMA TheEntry ==
    ASSUME IInv, journal # <<>>
    PROVE  /\ journal[1] \in Entries
           /\ Head(journal) = journal[1] /\ Last(journal) = journal[1]
           /\ Tail(journal) = <<>> /\ Front(journal) = <<>>
<1>1. /\ journal \in Seq(Entries) /\ Len(journal) \in Nat
      /\ Len(journal) <= 1 /\ Len(journal) # 0
  BY DEF IInv, TypeOK, OnePending
<1>2. Len(journal) = 1
  <2>1. \A n \in Nat : n <= 1 /\ n # 0 => n = 1
    OBVIOUS
  <2>2. QED
    BY <1>1, <2>1
<1>3. /\ Tail(journal) \in Seq(Entries) /\ Len(Tail(journal)) = 0
      /\ Front(journal) \in Seq(Entries) /\ Len(Front(journal)) = 0
      /\ Head(journal) \in Entries
  BY <1>2, EntriesAreSound DEF IInv
<1>4. Tail(journal) = <<>> /\ Front(journal) = <<>>
  BY <1>3, EmptySeq
<1>5. Head(journal) = journal[1] /\ Last(journal) = journal[1]
  BY <1>1, <1>2 DEF Last
<1>6. QED
  BY <1>3, <1>4, <1>5

\* Every step keeps to these frames.
LEMMA FramesStep ==
    ASSUME IInv, [Next]_vars
    PROVE  Frames
<1>1. ASSUME NEW a \in Appliers, TakeWorkspace(a) PROVE Frames
  BY <1>1 DEF TakeWorkspace, others, Frames, CorpusFrame, JournalFrame,
     SnapshotFrame, WriterFrame
<1>2. ASSUME NEW a \in Appliers, WorkspaceTimeout(a) PROVE Frames
  BY <1>2 DEF WorkspaceTimeout, others, Frames, CorpusFrame, JournalFrame,
     SnapshotFrame, WriterFrame
<1>3. ASSUME NEW a \in Appliers, Recheck(a) PROVE Frames
  BY <1>3 DEF Recheck, others, Frames, CorpusFrame, JournalFrame,
     SnapshotFrame, WriterFrame
<1>4. ASSUME NEW a \in Appliers, Replay(a) PROVE Frames
  <2>1. CASE journal = <<>>
    BY <1>4, <2>1 DEF Replay, Goto, corpus, ledger, others, locals, Frames,
       CorpusFrame, JournalFrame, SnapshotFrame, WriterFrame
  <2>2. CASE journal # <<>>
    <3>1. Undoes(journal[1])
      BY <1>4, <2>2, TheEntry DEF Replay, Undoes
    <3>2. UNCHANGED <<snapshot, fileLock, writing, text>>
      BY <1>4 DEF Replay, others
    <3>3. QED
      BY <2>2, <3>1, <3>2 DEF Frames, CorpusFrame, JournalFrame, SnapshotFrame,
         WriterFrame, others, Undoes
  <2>3. QED
    BY <2>1, <2>2
<1>5. ASSUME NEW a \in Appliers, ListFiles(a) PROVE Frames
  BY <1>5 DEF ListFiles, others, Frames, CorpusFrame, JournalFrame,
     SnapshotFrame, WriterFrame
<1>6. ASSUME NEW a \in Appliers, TakeSnapshot(a) PROVE Frames
  BY <1>6 DEF TakeSnapshot, others, Frames, CorpusFrame, JournalFrame,
     SnapshotFrame, WriterFrame
<1>7. ASSUME NEW a \in Appliers, Unmeasurable(a) PROVE Frames
  BY <1>7 DEF Unmeasurable, others, Frames, CorpusFrame, JournalFrame,
     SnapshotFrame, WriterFrame
<1>8. ASSUME NEW a \in Appliers, WriteReceipt(a) PROVE Frames
  BY <1>8 DEF WriteReceipt, others, Frames, CorpusFrame, JournalFrame,
     SnapshotFrame, WriterFrame
<1>9. ASSUME NEW a \in Appliers, Begin(a) PROVE Frames
  BY <1>9 DEF Begin, others, Frames, CorpusFrame, JournalFrame, SnapshotFrame,
     WriterFrame
<1>10. ASSUME NEW a \in Appliers, WriteBlock(a) PROVE Frames
  BY <1>10 DEF WriteBlock, others, Frames, CorpusFrame, JournalFrame,
     SnapshotFrame, WriterFrame
<1>11. ASSUME NEW a \in Appliers, OpFails(a) PROVE Frames
  BY <1>11 DEF OpFails, others, Frames, CorpusFrame, JournalFrame,
     SnapshotFrame, WriterFrame
<1>12. ASSUME NEW a \in Appliers, OpEscapes(a) PROVE Frames
  BY <1>12 DEF OpEscapes, others, Frames, CorpusFrame, JournalFrame,
     SnapshotFrame, WriterFrame
<1>13. ASSUME NEW a \in Appliers, Commit(a) PROVE Frames
  BY <1>13 DEF Commit, others, Frames, CorpusFrame, JournalFrame,
     SnapshotFrame, WriterFrame
<1>14. ASSUME NEW a \in Appliers, PostCheck(a) PROVE Frames
  BY <1>14 DEF PostCheck, others, Frames, CorpusFrame, JournalFrame,
     SnapshotFrame, WriterFrame
<1>15. ASSUME NEW a \in Appliers, Close(a) PROVE Frames
  BY <1>15 DEF Close, others, Frames, CorpusFrame, JournalFrame,
     SnapshotFrame, WriterFrame
<1>16. ASSUME NEW a \in Appliers, UndoOp(a) PROVE Frames
  <2>1. CASE journal = <<>>
    BY <1>16, <2>1 DEF UndoOp, Goto, corpus, ledger, others, locals, Frames,
       CorpusFrame, JournalFrame, SnapshotFrame, WriterFrame
  <2>2. CASE journal # <<>>
    <3>1. Undoes(journal[1])
      BY <1>16, <2>2, TheEntry DEF UndoOp, Undoes
    <3>2. UNCHANGED <<snapshot, fileLock, writing, text>>
      BY <1>16 DEF UndoOp, others
    <3>3. QED
      BY <2>2, <3>1, <3>2 DEF Frames, CorpusFrame, JournalFrame, SnapshotFrame,
         WriterFrame, others, Undoes
  <2>3. QED
    BY <2>1, <2>2
<1>17. ASSUME NEW a \in Appliers, OpenRestore(a) PROVE Frames
  BY <1>17 DEF OpenRestore, others, Frames, CorpusFrame, JournalFrame,
     SnapshotFrame, WriterFrame
<1>18. ASSUME NEW a \in Appliers, CopyBack(a) PROVE Frames
  BY <1>18 DEF CopyBack, others, Frames, CorpusFrame, JournalFrame,
     SnapshotFrame, WriterFrame
<1>19. ASSUME NEW a \in Appliers, SweepOrphans(a) PROVE Frames
  BY <1>19 DEF SweepOrphans, others, Frames, CorpusFrame, JournalFrame,
     SnapshotFrame, WriterFrame
<1>20. ASSUME NEW a \in Appliers, CleanupOrphans(a) PROVE Frames
  BY <1>20 DEF CleanupOrphans, others, Frames, CorpusFrame, JournalFrame,
     SnapshotFrame, WriterFrame
<1>21. ASSUME NEW a \in Appliers, RecordRollback(a) PROVE Frames
  BY <1>21 DEF RecordRollback, others, Frames, CorpusFrame, JournalFrame,
     SnapshotFrame, WriterFrame
<1>22. ASSUME NEW a \in Appliers, ReadLines(a) PROVE Frames
  BY <1>22 DEF ReadLines, others, Frames, CorpusFrame, JournalFrame,
     SnapshotFrame, WriterFrame
<1>23. ASSUME NEW a \in Appliers, ReplaceLines(a) PROVE Frames
  BY <1>23 DEF ReplaceLines, others, Frames, CorpusFrame, JournalFrame,
     SnapshotFrame, WriterFrame
<1>24. ASSUME NEW a \in Appliers, MarkFails(a) PROVE Frames
  BY <1>24 DEF MarkFails, others, Frames, CorpusFrame, JournalFrame,
     SnapshotFrame, WriterFrame
<1>25. ASSUME NEW a \in Appliers, Unlock(a) PROVE Frames
  BY <1>25 DEF Unlock, others, Frames, CorpusFrame, JournalFrame,
     SnapshotFrame, WriterFrame
<1>26. ASSUME NEW a \in Appliers, Crash(a) PROVE Frames
  BY <1>26 DEF Crash, others, Frames, CorpusFrame, JournalFrame,
     SnapshotFrame, WriterFrame
<1>27. ASSUME NEW a \in Appliers, NEW p \in Proposals, Submit(a, p)
      PROVE  Frames
  BY <1>27 DEF Submit, others, Frames, CorpusFrame, JournalFrame,
     SnapshotFrame, WriterFrame
<1>28. ASSUME NEW a \in Appliers, NEW p \in Proposals, RollBack(a, p)
      PROVE  Frames
  BY <1>28 DEF RollBack, others, Frames, CorpusFrame, JournalFrame,
     SnapshotFrame, WriterFrame
<1>29. ASSUME NEW p \in Proposals, Stage(p) PROVE Frames
  BY <1>29 DEF Stage, others, Frames, CorpusFrame, JournalFrame,
     SnapshotFrame, WriterFrame
<1>30. ASSUME NEW w \in Writers, NEW b \in Foreign, ReadFile(w, b) PROVE Frames
  BY <1>30 DEF ReadFile, others, Frames, CorpusFrame, JournalFrame,
     SnapshotFrame, WriterFrame
<1>31. ASSUME NEW w \in Writers, ReplaceFile(w) PROVE Frames
  BY <1>31 DEF ReplaceFile, others, Frames, CorpusFrame, JournalFrame,
     SnapshotFrame, WriterFrame
<1>32. CASE ReplayCommand
  <2>1. CASE journal = <<>>
    BY <1>32, <2>1 DEF ReplayCommand, Goto, corpus, ledger, others, locals, Frames,
       CorpusFrame, JournalFrame, SnapshotFrame, WriterFrame
  <2>2. CASE journal # <<>>
    <3>1. Undoes(journal[1])
      BY <1>32, <2>2, TheEntry DEF ReplayCommand, Undoes
    <3>2. UNCHANGED <<snapshot, fileLock, writing, text>>
      BY <1>32 DEF ReplayCommand, others
    <3>3. QED
      BY <2>2, <3>1, <3>2 DEF Frames, CorpusFrame, JournalFrame, SnapshotFrame,
         WriterFrame, others, Undoes
  <2>3. QED
    BY <2>1, <2>2
<1>33. CASE UNCHANGED vars
  BY <1>33 DEF vars, corpus, others, Frames, CorpusFrame, JournalFrame,
     SnapshotFrame, WriterFrame
<1>34. QED
  BY <1>1, <1>2, <1>3, <1>4, <1>5, <1>6, <1>7, <1>8, <1>9, <1>10, <1>11,
     <1>12, <1>13, <1>14, <1>15, <1>16, <1>17, <1>18, <1>19, <1>20, <1>21,
     <1>22, <1>23, <1>24, <1>25, <1>26, <1>27, <1>28, <1>29, <1>30, <1>31,
     <1>32, <1>33
  DEF Next, Step, Applying, Restoring, Marking



-----------------------------------------------------------------------------
(* Every block is in the file it is at home in.                            *)

Housed(f) == {b \in Blocks : HomeOf[b] = f}

\* Whatever is put into a file - a block written, a backup, the copy in a
\* snapshot, a writer's text - comes from that file, and a file that does not
\* exist has no blocks.
InTheirFiles == \A f \in Files :
    content[f] \subseteq Housed(f) /\ (f \notin present => content[f] = {})
BackupFits == journal # <<>> =>
    /\ journal[1].backup \subseteq Housed(journal[1].file)
    /\ journal[1].existed \/ journal[1].backup = {}
CopiesFit == \A p \in Proposals : snapshot[p] \in Snapshots =>
    \A f \in Files : snapshot[p].saved[f] \subseteq Housed(f)
TextsFit == \A w \in Writers : writing[w] # None =>
    text[w] \subseteq Housed(HomeOf[writing[w]])
Homes == InTheirFiles /\ BackupFits /\ CopiesFit /\ TextsFit

\* The write of an applier is one of its op's blocks, and goes to its home.
LEMMA WriteGoesHome ==
    ASSUME IInv, NEW a \in Appliers, WriteBlock(a)
    PROVE  \E b \in Blocks :
             /\ b = Op(a).writes[nth[a]] /\ b \in OpBlocks(prop[a], op[a])
             /\ b \in Written(prop[a])
             /\ HomeOf[b] \in Files /\ fileLock[HomeOf[b]] = None
             /\ content' = [content EXCEPT ![HomeOf[b]] = @ \cup {b}]
             /\ present' = present \cup {HomeOf[b]}
<1>1. /\ prop[a] \in Proposals /\ op[a] \in DOMAIN OpsOf[prop[a]]
      /\ nth[a] \in DOMAIN Op(a).writes
  BY DEF WriteBlock, IInv, Equipped
<1>2. Op(a).writes[nth[a]] \in Blocks
  BY <1>1, FirstWrite DEF Op
<1>3. Op(a).writes[nth[a]] \in OpBlocks(prop[a], op[a])
  BY <1>1 DEF OpBlocks, ToSet, Op
<1>4. Op(a).writes[nth[a]] \in Written(prop[a])
  BY <1>1, <1>3 DEF Written
<1>5. QED
  BY <1>2, <1>3, <1>4, HomesAreFiles DEF WriteBlock

\* A writer replaces its own block's file.
LEMMA ReplacementGoesHome ==
    ASSUME IInv, NEW w \in Writers, ReplaceFile(w)
    PROVE  \E b \in Blocks :
             /\ writing[w] = b /\ writing[w] # None /\ HomeOf[b] \in Files
             /\ content' = [content EXCEPT ![HomeOf[b]] = text[w] \cup {b}]
             /\ present' = present \cup {HomeOf[b]}
<1>1. writing[w] \in Blocks /\ writing[w] # None
  BY DEF ReplaceFile, IInv, TypeOK
<1>2. QED
  BY <1>1, HomesAreFiles DEF ReplaceFile, PutBack

\* A copy goes to one of the files still to do, and comes from the snapshot.
LEMMA CopyComesFromSnapshot ==
    ASSUME IInv, NEW a \in Appliers, CopyBack(a)
    PROVE  /\ prop[a] \in Proposals /\ snapshot[prop[a]] \in Snapshots
           /\ \E f \in todo[a] :
                /\ f \in Files
                /\ content' = [content EXCEPT ![f] = snapshot[prop[a]].saved[f]]
                /\ present' = present \cup {f}
                /\ todo' = [todo EXCEPT ![a] = todo[a] \ {f}]
<1>1. prop[a] \in Proposals /\ snapshot[prop[a]] \in Snapshots
  BY DEF CopyBack, IInv, Equipped
<1>2. todo[a] \subseteq Files
  BY DEF IInv, TypeOK
<1>3. QED
  BY <1>1, <1>2 DEF CopyBack, PutBack

\* A sweep empties the files it removes, and leaves the others alone.
LEMMA SweepErases ==
    ASSUME TypeOK, NEW files, Erase(files)
    PROVE  /\ \A f \in Files : f \in present' <=> f \in present /\ f \notin files
           /\ \A f \in Files : content'[f] = IF f \in files THEN {} ELSE content[f]
  BY DEF Erase, TypeOK

\* Every step leaves the blocks where they are at home.
LEMMA HomesStep ==
    ASSUME IInv, Homes, [Next]_vars
    PROVE  Homes'
<1> USE DEF Homes
<1>1. TypeOK /\ TypeOK'
  BY InvariantStep DEF IInv
<1>2. Frames
  BY FramesStep
<1>3. InTheirFiles'
  <2>1. CASE UNCHANGED corpus
    BY <2>1 DEF corpus, InTheirFiles
  <2>2. CASE journal # <<>> /\ Undoes(journal[1])
    <3>1. journal[1].file \in Files /\ journal[1].existed \in BOOLEAN
      BY <2>2, TheEntry DEF Entries
    <3>2. QED
      BY <1>1, <2>2, <3>1 DEF InTheirFiles, BackupFits, Undoes, PutBack, TypeOK
  <2>3. ASSUME NEW a \in Appliers, WriteBlock(a) PROVE InTheirFiles'
    <3>1. PICK b \in Blocks :
            /\ HomeOf[b] \in Files
            /\ content' = [content EXCEPT ![HomeOf[b]] = @ \cup {b}]
            /\ present' = present \cup {HomeOf[b]}
      BY <2>3, WriteGoesHome
    <3>2. QED
      BY <1>1, <3>1 DEF InTheirFiles, Housed, TypeOK
  <2>4. ASSUME NEW a \in Appliers, CopyBack(a) PROVE InTheirFiles'
    <3>1. PICK f \in todo[a] :
            /\ f \in Files
            /\ content' = [content EXCEPT ![f] = snapshot[prop[a]].saved[f]]
            /\ present' = present \cup {f}
      BY <2>4, CopyComesFromSnapshot
    <3>2. snapshot[prop[a]].saved[f] \subseteq Housed(f)
      BY <2>4, <3>1, CopyComesFromSnapshot DEF CopiesFit
    <3>3. QED
      BY <1>1, <3>1, <3>2 DEF InTheirFiles, TypeOK
  <2>5. ASSUME NEW a \in Appliers, SweepOrphans(a) PROVE InTheirFiles'
    BY <1>1, <2>5, SweepErases DEF SweepOrphans, InTheirFiles
  <2>6. ASSUME NEW a \in Appliers, CleanupOrphans(a) PROVE InTheirFiles'
    BY <1>1, <2>6, SweepErases DEF CleanupOrphans, InTheirFiles
  <2>7. ASSUME NEW w \in Writers, ReplaceFile(w) PROVE InTheirFiles'
    <3>1. PICK b \in Blocks :
            /\ writing[w] = b /\ writing[w] # None /\ HomeOf[b] \in Files
            /\ content' = [content EXCEPT ![HomeOf[b]] = text[w] \cup {b}]
            /\ present' = present \cup {HomeOf[b]}
      BY <2>7, ReplacementGoesHome
    <3>2. text[w] \cup {b} \subseteq Housed(HomeOf[b])
      BY <3>1 DEF TextsFit, Housed
    <3>3. QED
      BY <1>1, <3>1, <3>2 DEF InTheirFiles, TypeOK
  <2>8. QED
    BY <1>2, <2>1, <2>2, <2>3, <2>4, <2>5, <2>6, <2>7 DEF Frames, CorpusFrame
<1>4. BackupFits'
  <2>1. CASE UNCHANGED journal
    BY <2>1 DEF BackupFits
  <2>2. CASE journal' = <<>>
    BY <2>2 DEF BackupFits
  <2>3. ASSUME NEW a \in Appliers, Begin(a) PROVE BackupFits'
    <3>1. journal = <<>>
      BY <2>3 DEF Begin, IInv, CleanStart
    <3>2. journal' = <<[file    |-> Op(a).file,
                        existed |-> Op(a).file \in present,
                        backup  |-> content[Op(a).file]]>>
      BY <2>3, <3>1 DEF Begin
    <3>3. Op(a).file \in Files
      BY <2>3, FirstWrite DEF Begin, IInv, Equipped, Op
    <3>4. QED
      BY <3>2, <3>3 DEF BackupFits, InTheirFiles
  <2>4. ASSUME NEW a \in Appliers, Commit(a) PROVE journal' = <<>>
    BY <2>4, TheEntry DEF Commit
  <2>5. QED
    BY <1>2, <2>1, <2>2, <2>3, <2>4 DEF Frames, JournalFrame, Undoes
<1>5. CopiesFit'
  <2>1. CASE UNCHANGED snapshot
    BY <2>1 DEF CopiesFit
  <2>2. ASSUME NEW a \in Appliers, TakeSnapshot(a) PROVE CopiesFit'
    <3>1. prop[a] \in Proposals
      BY <2>2 DEF TakeSnapshot, IInv, Equipped
    <3>2. \A q \in Proposals \ {prop[a]} : snapshot'[q] = snapshot[q]
      BY <1>1, <2>2 DEF TakeSnapshot, TypeOK
    <3>3. snapshot'[prop[a]].saved =
            [f \in Files |-> IF f \in Touched(prop[a]) THEN content[f] ELSE {}]
      BY <1>1, <2>2, <3>1 DEF TakeSnapshot, TypeOK
    <3>4. QED
      BY <3>1, <3>2, <3>3 DEF CopiesFit, InTheirFiles
  <2>3. QED
    BY <1>2, <2>1, <2>2 DEF Frames, SnapshotFrame
<1>6. TextsFit'
  <2>1. CASE UNCHANGED others
    BY <2>1 DEF others, TextsFit
  <2>2. ASSUME NEW w \in Writers, NEW b \in Foreign, ReadFile(w, b) PROVE TextsFit'
    <3>1. b \in Blocks /\ HomeOf[b] \in Files
      BY HomesAreFiles DEF Foreign
    <3>2. QED
      BY <1>1, <2>2, <3>1 DEF ReadFile, TextsFit, InTheirFiles, TypeOK
  <2>3. ASSUME NEW w \in Writers, ReplaceFile(w) PROVE TextsFit'
    BY <1>1, <2>3 DEF ReplaceFile, TextsFit, TypeOK
  <2>4. QED
    BY <1>2, <2>1, <2>2, <2>3 DEF Frames, WriterFrame
<1>7. QED
  BY <1>3, <1>4, <1>5, <1>6

\* At first there are no blocks.
LEMMA FirstHomes ==
    ASSUME Init
    PROVE  Homes
<1>1. InTheirFiles /\ BackupFits /\ TextsFit
  BY DEF Init, InTheirFiles, BackupFits, TextsFit
<1>2. CopiesFit
  BY NoneIsNoSnapshot DEF Init, CopiesFit
<1>3. QED
  BY <1>1, <1>2 DEF Homes


-----------------------------------------------------------------------------
(* Other writers keep their blocks.                                        *)

\* The files that were there from the beginning and that no proposal touches.
Spared == {f \in FirstFiles : \A p \in Proposals : f \notin Touched(p)}

\* They stay, and nothing that could take blocks out of them does: they are in
\* no journal entry and no snapshot, every inventory of their directory and
\* every listing names them, and who is about to replace one has read all of
\* it and has its lock.
OutOfTheWay ==
    /\ Spared \subseteq present
    /\ journal # <<>> => journal[1].file \notin Spared
Inventoried == \A p \in Proposals : snapshot[p] \in Snapshots =>
    /\ snapshot[p].files \cap Spared = {}
    /\ Spared \cap InRootsOf(Touched(p)) \subseteq snapshot[p].inventory
Listed == \A a \in Appliers :
    /\ todo[a] \cap Spared = {}
    /\ pc[a] = "orphans" => cause[a] # "rollback"
    /\ \/ pc[a] \in {"snapshot", "precheck", "begin", "op", "commit", "undo",
                     "postcheck", "close"}
       \/ pc[a] \in {"restore", "copy", "orphans"} /\ cause[a] # "rollback"
       => Spared \subseteq listing[a]
ReadWhole == \A w \in Writers :
    writing[w] # None /\ HomeOf[writing[w]] \in Spared =>
        /\ fileLock[HomeOf[writing[w]]] = w
        /\ content[HomeOf[writing[w]]] \subseteq text[w]
Aside == OutOfTheWay /\ Inventoried /\ Listed /\ ReadWhole

\* The files spared are corpus files.
LEMMA SparedAreFiles == Spared \subseteq Files
  BY ProposalsAreValid DEF Spared

\* No op names a file that is spared.
LEMMA OpsSpareThem ==
    ASSUME NEW p \in Proposals, NEW i \in DOMAIN OpsOf[p]
    PROVE  OpsOf[p][i].file \in Touched(p) /\ OpsOf[p][i].file \notin Spared
  BY DEF Touched, OpFiles, Spared

\* A step takes no block out of a file that is spared, and while a writer has
\* such a file's lock nobody else puts one in.
LEMMA SparedKept ==
    ASSUME IInv, Aside, [Next]_vars, NEW f \in Spared
    PROVE  /\ f \in present' /\ content[f] \subseteq content'[f]
           /\ \A w \in Writers :
                fileLock[f] = w => content'[f] = content[f] \/ ReplaceFile(w)
<1> DEFINE Goal == /\ f \in present' /\ content[f] \subseteq content'[f]
                   /\ \A w \in Writers :
                        fileLock[f] = w => content'[f] = content[f] \/ ReplaceFile(w)
<1>1. f \in Files /\ f \in present /\ TypeOK /\ TypeOK'
  BY SparedAreFiles, InvariantStep DEF Aside, OutOfTheWay, IInv
<1>2. Frames
  BY FramesStep
<1>3. CASE UNCHANGED corpus
  BY <1>1, <1>3 DEF corpus
<1>4. CASE journal # <<>> /\ Undoes(journal[1])
  <2>1. journal[1].file # f
    BY <1>4 DEF Aside, OutOfTheWay
  <2>2. QED
    BY <1>1, <1>4, <2>1 DEF Undoes, PutBack, TypeOK
<1>5. ASSUME NEW a \in Appliers, WriteBlock(a) PROVE Goal
  <2>1. PICK b \in Blocks :
          /\ HomeOf[b] \in Files /\ fileLock[HomeOf[b]] = None
          /\ content' = [content EXCEPT ![HomeOf[b]] = @ \cup {b}]
          /\ present' = present \cup {HomeOf[b]}
    BY <1>5, WriteGoesHome
  <2>2. fileLock[f] \in Writers => HomeOf[b] # f
    BY <2>1, ProposalsAreValid
  <2>3. QED
    BY <1>1, <2>1, <2>2 DEF TypeOK
<1>6. ASSUME NEW a \in Appliers, CopyBack(a) PROVE Goal
  <2>1. PICK g \in todo[a] :
          /\ content' = [content EXCEPT ![g] = snapshot[prop[a]].saved[g]]
          /\ present' = present \cup {g}
    BY <1>6, CopyComesFromSnapshot
  <2>2. g # f
    BY DEF Aside, Listed
  <2>3. QED
    BY <1>1, <2>1, <2>2 DEF TypeOK
<1>7. ASSUME NEW a \in Appliers, SweepOrphans(a) PROVE Goal
  <2>1. prop[a] \in Proposals /\ snapshot[prop[a]] \in Snapshots
    BY <1>7 DEF SweepOrphans, IInv, Equipped
  <2>2. f \notin InRootsOf(Touched(prop[a])) \ snapshot[prop[a]].inventory
    BY <2>1 DEF Aside, Inventoried
  <2>3. QED
    BY <1>1, <1>7, <2>2, SweepErases DEF SweepOrphans
<1>8. ASSUME NEW a \in Appliers, CleanupOrphans(a) PROVE Goal
  <2>1. f \in listing[a]
    BY <1>8 DEF CleanupOrphans, Aside, Listed
  <2>2. QED
    BY <1>1, <1>8, <2>1, SweepErases DEF CleanupOrphans
<1>9. ASSUME NEW w \in Writers, ReplaceFile(w) PROVE Goal
  <2>1. PICK b \in Blocks :
          /\ writing[w] = b /\ writing[w] # None /\ HomeOf[b] \in Files
          /\ content' = [content EXCEPT ![HomeOf[b]] = text[w] \cup {b}]
          /\ present' = present \cup {HomeOf[b]}
    BY <1>9, ReplacementGoesHome
  <2>2. CASE HomeOf[b] = f
    <3>1. fileLock[f] = w /\ content[f] \subseteq text[w]
      BY <2>1, <2>2 DEF Aside, ReadWhole
    <3>2. QED
      BY <1>1, <1>9, <2>1, <2>2, <3>1 DEF TypeOK
  <2>3. CASE HomeOf[b] # f
    BY <1>1, <2>1, <2>3 DEF TypeOK
  <2>4. QED
    BY <2>2, <2>3
<1>10. QED
  BY <1>2, <1>3, <1>4, <1>5, <1>6, <1>7, <1>8, <1>9 DEF Frames, CorpusFrame

\* Every step leaves the files that are spared out of what is still to be
\* copied, and in the listing of who may remove files.
LEMMA ListedStep ==
    ASSUME TypeOK, Equipped, Aside, [Next]_vars
    PROVE  Listed'
<1>1. ASSUME NEW a \in Appliers, TakeWorkspace(a) PROVE Listed'
  BY <1>1 DEF TakeWorkspace, Goto, corpus, ledger, others, locals, TypeOK,
     Aside, Listed
<1>2. ASSUME NEW a \in Appliers, WorkspaceTimeout(a) PROVE Listed'
  BY <1>2 DEF WorkspaceTimeout, Forget, corpus, ledger, others, Goto, TypeOK,
     Aside, Listed
<1>3. ASSUME NEW a \in Appliers, Recheck(a) PROVE Listed'
  BY <1>3 DEF Recheck, Goto, corpus, ledger, others, locals, TypeOK, Aside,
     Listed
<1>4. ASSUME NEW a \in Appliers, Replay(a) PROVE Listed'
  BY <1>4 DEF Replay, Goto, corpus, ledger, others, locals, TypeOK, Aside,
     Listed
<1>5. ASSUME NEW a \in Appliers, ListFiles(a) PROVE Listed'
  <2>1. Spared \subseteq present
    BY DEF Aside, OutOfTheWay
  <2>2. QED
    BY <1>5, <2>1 DEF ListFiles, Goto, TypeOK, Aside, Listed
<1>6. ASSUME NEW a \in Appliers, TakeSnapshot(a) PROVE Listed'
  BY <1>6 DEF TakeSnapshot, Goto, corpus, ledger, others, locals, TypeOK,
     Aside, Listed
<1>7. ASSUME NEW a \in Appliers, Unmeasurable(a) PROVE Listed'
  <2>1. UNCHANGED <<todo, listing>>
    BY <1>7 DEF Unmeasurable, locals
  <2>2. pc[a] = "precheck"
    BY <1>7 DEF Unmeasurable
  <2>3. CASE /\ pc' = [pc EXCEPT ![a] = "restore"]
             /\ cause' = [cause EXCEPT ![a] = "unmeasurable"]
    BY <2>1, <2>2, <2>3 DEF TypeOK, Aside, Listed
  <2>4. QED
    BY <1>7, <2>3 DEF Unmeasurable, Goto, locals
<1>8. ASSUME NEW a \in Appliers, WriteReceipt(a) PROVE Listed'
  BY <1>8 DEF WriteReceipt, Goto, corpus, ledger, others, locals, TypeOK,
     Aside, Listed
<1>9. ASSUME NEW a \in Appliers, Begin(a) PROVE Listed'
  BY <1>9 DEF Begin, Goto, corpus, ledger, others, locals, TypeOK, Aside,
     Listed
<1>10. ASSUME NEW a \in Appliers, WriteBlock(a) PROVE Listed'
  BY <1>10 DEF WriteBlock, Goto, ledger, others, TypeOK, Aside, Listed
<1>11. ASSUME NEW a \in Appliers, OpFails(a) PROVE Listed'
  BY <1>11 DEF OpFails, Goto, corpus, ledger, others, locals, TypeOK, Aside,
     Listed
<1>12. ASSUME NEW a \in Appliers, OpEscapes(a) PROVE Listed'
  BY <1>12 DEF OpEscapes, Goto, corpus, ledger, others, locals, TypeOK, Aside,
     Listed
<1>13. ASSUME NEW a \in Appliers, Commit(a) PROVE Listed'
  BY <1>13 DEF Commit, Goto, corpus, ledger, others, TypeOK, Aside, Listed
<1>14. ASSUME NEW a \in Appliers, PostCheck(a) PROVE Listed'
  <2>1. UNCHANGED <<todo, listing>>
    BY <1>14 DEF PostCheck, locals
  <2>2. pc[a] = "postcheck"
    BY <1>14 DEF PostCheck
  <2>3. CASE pc' = [pc EXCEPT ![a] = "close"] /\ UNCHANGED cause
    BY <2>1, <2>2, <2>3 DEF TypeOK, Aside, Listed
  <2>4. CASE /\ pc' = [pc EXCEPT ![a] = "restore"]
             /\ cause' = [cause EXCEPT ![a] = "regressed"]
    BY <2>1, <2>2, <2>4 DEF TypeOK, Aside, Listed
  <2>5. QED
    BY <1>14, <2>3, <2>4 DEF PostCheck, Goto, locals
<1>15. ASSUME NEW a \in Appliers, Close(a) PROVE Listed'
  BY <1>15 DEF Close, Goto, corpus, ledger, others, locals, TypeOK, Aside,
     Listed
<1>16. ASSUME NEW a \in Appliers, UndoOp(a) PROVE Listed'
  <2>1. UNCHANGED <<todo, listing>>
    BY <1>16 DEF UndoOp, locals
  <2>2. pc[a] = "undo"
    BY <1>16 DEF UndoOp
  <2>3. CASE /\ pc' = [pc EXCEPT ![a] = "restore"]
             /\ cause' = [cause EXCEPT ![a] = "failed"]
    BY <2>1, <2>2, <2>3 DEF TypeOK, Aside, Listed
  <2>4. QED
    BY <1>16, <2>3 DEF UndoOp, Goto, locals
<1>17. ASSUME NEW a \in Appliers, OpenRestore(a) PROVE Listed'
  <2>1. prop[a] \in Proposals /\ snapshot[prop[a]] \in Snapshots
    BY <1>17 DEF OpenRestore, Equipped
  <2>2. snapshot[prop[a]].files \cap Spared = {}
    BY <2>1 DEF Aside, Inventoried
  <2>3. pc[a] = "restore" /\ UNCHANGED <<listing, cause>>
    BY <1>17 DEF OpenRestore
  <2>4. CASE /\ todo' = [todo EXCEPT ![a] = snapshot[prop[a]].files]
             /\ pc' = [pc EXCEPT ![a] = "copy"]
    BY <2>2, <2>3, <2>4 DEF TypeOK, Aside, Listed
  <2>5. CASE UNCHANGED todo /\ pc' = [pc EXCEPT ![a] = "unlock"]
    BY <2>3, <2>5 DEF TypeOK, Aside, Listed
  <2>6. QED
    BY <1>17, <2>4, <2>5 DEF OpenRestore, Goto
<1>18. ASSUME NEW a \in Appliers, CopyBack(a) PROVE Listed'
  BY <1>18 DEF CopyBack, ledger, others, TypeOK, Aside, Listed
<1>19. ASSUME NEW a \in Appliers, SweepOrphans(a) PROVE Listed'
  BY <1>19 DEF SweepOrphans, Goto, ledger, others, locals, TypeOK, Aside,
     Listed
<1>20. ASSUME NEW a \in Appliers, CleanupOrphans(a) PROVE Listed'
  BY <1>20 DEF CleanupOrphans, Goto, ledger, others, locals, TypeOK, Aside,
     Listed
<1>21. ASSUME NEW a \in Appliers, RecordRollback(a) PROVE Listed'
  <2>1. UNCHANGED <<todo, listing>>
    BY <1>21 DEF RecordRollback, locals
  <2>2. pc[a] = "record"
    BY <1>21 DEF RecordRollback
  <2>3. CASE pc' = [pc EXCEPT ![a] = "mark"] /\ UNCHANGED cause
    BY <2>1, <2>2, <2>3 DEF TypeOK, Aside, Listed
  <2>4. CASE pc' = [pc EXCEPT ![a] = "unlock"] /\ UNCHANGED cause
    BY <2>1, <2>2, <2>4 DEF TypeOK, Aside, Listed
  <2>5. QED
    BY <1>21, <2>3, <2>4 DEF RecordRollback, Goto, locals
<1>22. ASSUME NEW a \in Appliers, ReadLines(a) PROVE Listed'
  BY <1>22 DEF ReadLines, Goto, corpus, others, locals, TypeOK, Aside, Listed
<1>23. ASSUME NEW a \in Appliers, ReplaceLines(a) PROVE Listed'
  BY <1>23 DEF ReplaceLines, Goto, corpus, others, locals, TypeOK, Aside,
     Listed
<1>24. ASSUME NEW a \in Appliers, MarkFails(a) PROVE Listed'
  BY <1>24 DEF MarkFails, Goto, corpus, ledger, others, locals, TypeOK, Aside,
     Listed
<1>25. ASSUME NEW a \in Appliers, Unlock(a) PROVE Listed'
  BY <1>25 DEF Unlock, Forget, ReleaseIf, corpus, ledger, others, Goto,
     TypeOK, Aside, Listed
<1>26. ASSUME NEW a \in Appliers, Crash(a) PROVE Listed'
  BY <1>26 DEF Crash, Forget, ReleaseIf, corpus, others, Goto, TypeOK, Aside,
     Listed
<1>27. ASSUME NEW a \in Appliers, NEW p \in Proposals, Submit(a, p)
      PROVE  Listed'
  BY <1>27 DEF Submit, Goto, corpus, ledger, others, TypeOK, Aside, Listed
<1>28. ASSUME NEW a \in Appliers, NEW p \in Proposals, RollBack(a, p)
      PROVE  Listed'
  BY <1>28 DEF RollBack, Goto, corpus, ledger, others, TypeOK, Aside, Listed
<1>29. ASSUME NEW p \in Proposals, Stage(p) PROVE Listed'
  BY <1>29 DEF Stage, corpus, others, locals, TypeOK, Aside, Listed
<1>30. ASSUME NEW w \in Writers, NEW b \in Foreign, ReadFile(w, b)
      PROVE  Listed'
  BY <1>30 DEF ReadFile, corpus, ledger, locals, TypeOK, Aside, Listed
<1>31. ASSUME NEW w \in Writers, ReplaceFile(w) PROVE Listed'
  BY <1>31 DEF ReplaceFile, ledger, locals, TypeOK, Aside, Listed
<1>32. CASE ReplayCommand
  BY <1>32 DEF ReplayCommand, ledger, others, locals, TypeOK, Aside, Listed
<1>33. CASE UNCHANGED vars
  BY <1>33 DEF vars, TypeOK, Aside, Listed
<1>34. QED
  BY <1>1, <1>2, <1>3, <1>4, <1>5, <1>6, <1>7, <1>8, <1>9, <1>10, <1>11,
     <1>12, <1>13, <1>14, <1>15, <1>16, <1>17, <1>18, <1>19, <1>20, <1>21,
     <1>22, <1>23, <1>24, <1>25, <1>26, <1>27, <1>28, <1>29, <1>30, <1>31,
     <1>32, <1>33
  DEF Next, Step, Applying, Restoring, Marking


\* Every step keeps the files that are spared out of the way.
LEMMA AsideStep ==
    ASSUME IInv, Aside, [Next]_vars
    PROVE  Aside'
<1> USE DEF Aside
<1>1. TypeOK /\ TypeOK' /\ Equipped
  BY InvariantStep DEF IInv
<1>2. Frames
  BY FramesStep
<1>3. OutOfTheWay'
  <2>1. Spared \subseteq present'
    BY SparedKept
  <2>2. journal' # <<>> => journal'[1].file \notin Spared
    <3>1. CASE UNCHANGED journal \/ journal' = <<>>
      BY <3>1 DEF OutOfTheWay
    <3>2. ASSUME NEW a \in Appliers, Begin(a)
          PROVE  journal' # <<>> => journal'[1].file \notin Spared
      <4>1. journal = <<>>
        BY <3>2 DEF Begin, IInv, CleanStart
      <4>2. journal'[1].file = Op(a).file
        BY <3>2, <4>1 DEF Begin
      <4>3. QED
        BY <3>2, <4>2, OpsSpareThem, <1>1 DEF Begin, Equipped, Op
    <3>3. ASSUME NEW a \in Appliers, Commit(a) PROVE journal' = <<>>
      BY <3>3, TheEntry DEF Commit
    <3>4. QED
      BY <1>2, <3>1, <3>2, <3>3 DEF Frames, JournalFrame, Undoes
  <2>3. QED
    BY <2>1, <2>2 DEF OutOfTheWay
<1>4. Inventoried'
  <2>1. CASE UNCHANGED snapshot
    BY <2>1 DEF Inventoried
  <2>2. ASSUME NEW a \in Appliers, TakeSnapshot(a) PROVE Inventoried'
    <3>1. prop[a] \in Proposals
      BY <2>2 DEF TakeSnapshot, IInv, Equipped
    <3>2. \A q \in Proposals \ {prop[a]} : snapshot'[q] = snapshot[q]
      BY <1>1, <2>2 DEF TakeSnapshot, TypeOK
    <3>3. /\ snapshot'[prop[a]].files = Touched(prop[a]) \cap present
          /\ snapshot'[prop[a]].inventory = InRootsOf(Touched(prop[a])) \cap present
      BY <1>1, <2>2, <3>1 DEF TakeSnapshot, TypeOK
    <3>4. Touched(prop[a]) \cap Spared = {} /\ Spared \subseteq present
      BY <3>1 DEF Spared, OutOfTheWay
    <3>5. QED
      BY <3>1, <3>2, <3>3, <3>4 DEF Inventoried
  <2>3. QED
    BY <1>2, <2>1, <2>2 DEF Frames, SnapshotFrame
<1>5. Listed'
  BY <1>1, ListedStep
<1>6. ReadWhole'
  <2> SUFFICES ASSUME NEW w \in Writers, writing'[w] # None,
                      HomeOf[writing'[w]] \in Spared
               PROVE  /\ fileLock'[HomeOf[writing'[w]]] = w
                      /\ content'[HomeOf[writing'[w]]] \subseteq text'[w]
    BY DEF ReadWhole
  <2> DEFINE f == HomeOf[writing'[w]]
  <2>1. CASE UNCHANGED others
    <3>1. /\ writing' = writing /\ text' = text /\ fileLock' = fileLock
      BY <2>1 DEF others
    <3>2. fileLock[f] = w /\ content[f] \subseteq text[w]
      BY <3>1 DEF ReadWhole
    <3>3. content'[f] = content[f] \/ ReplaceFile(w)
      BY <3>2, SparedKept
    <3>4. ~ReplaceFile(w)
      BY <1>1, <3>1 DEF ReplaceFile, TypeOK
    <3>5. QED
      BY <3>1, <3>2, <3>3, <3>4
  <2>2. ASSUME NEW v \in Writers, NEW b \in Foreign, ReadFile(v, b)
        PROVE  fileLock'[f] = w /\ content'[f] \subseteq text'[w]
    <3>1. b \in Blocks /\ HomeOf[b] \in Files
      BY HomesAreFiles DEF Foreign
    <3>2. CASE v = w
      BY <1>1, <2>2, <3>1, <3>2 DEF ReadFile, corpus, TypeOK
    <3>3. CASE v # w
      <4>1. writing'[w] = writing[w] /\ text'[w] = text[w]
        BY <1>1, <2>2, <3>3 DEF ReadFile, TypeOK
      <4>2. fileLock[f] = w /\ content[f] \subseteq text[w]
        BY <4>1 DEF ReadWhole
      <4>3. HomeOf[b] # f /\ content' = content
        BY <2>2, <4>2, ProposalsAreValid DEF ReadFile, corpus
      <4>4. QED
        BY <1>1, <2>2, <3>1, <4>1, <4>2, <4>3 DEF ReadFile, TypeOK
    <3>4. QED
      BY <3>2, <3>3
  <2>3. ASSUME NEW v \in Writers, ReplaceFile(v)
        PROVE  fileLock'[f] = w /\ content'[f] \subseteq text'[w]
    <3>1. v # w
      BY <1>1, <2>3 DEF ReplaceFile, TypeOK
    <3>2. writing'[w] = writing[w] /\ text'[w] = text[w]
      BY <1>1, <2>3, <3>1 DEF ReplaceFile, TypeOK
    <3>3. fileLock[f] = w /\ content[f] \subseteq text[w]
      BY <3>2 DEF ReadWhole
    <3>4. f # HomeOf[writing[v]]
      BY <2>3, <3>1, <3>3 DEF ReplaceFile, ReadWhole
    <3>5. fileLock'[f] = fileLock[f] /\ content'[f] = content[f]
      BY <1>1, <2>3, <3>4, SparedAreFiles DEF ReplaceFile, PutBack, TypeOK
    <3>6. QED
      BY <3>2, <3>3, <3>5
  <2>4. QED
    BY <1>2, <2>1, <2>2, <2>3 DEF Frames, WriterFrame
<1>7. QED
  BY <1>3, <1>4, <1>5, <1>6

\* At first they are there and nobody has begun.
LEMMA FirstAside ==
    ASSUME Init
    PROVE  Aside
<1>1. OutOfTheWay
  BY DEF Init, OutOfTheWay, Spared
<1>2. Inventoried
  BY NoneIsNoSnapshot DEF Init, Inventoried
<1>3. Listed /\ ReadWhole
  BY DEF Init, Listed, ReadWhole
<1>4. QED
  BY <1>1, <1>2, <1>3 DEF Aside

\* Whatever an apply does, and whatever fails, is refused, dies, is rolled
\* back or replayed: no block that another writer wrote to a file no proposal
\* touches is ever taken out of the corpus again.
THEOREM BystandersAreSpared == Spec => BystandersStay
<1>1. Init => IInv /\ Homes /\ Aside
  BY FirstInvariant, FirstHomes, FirstAside
<1>2. IInv /\ Homes /\ Aside /\ [Next]_vars => (IInv /\ Homes /\ Aside)'
  BY InvariantStep, HomesStep, AsideStep
<1>3. IInv /\ Homes /\ Aside /\ [Next]_vars =>
        [\A b \in Bystanders : b \in Live => b \in Live']_vars
  <2> SUFFICES ASSUME IInv, Homes, Aside, [Next]_vars,
                      NEW b \in Bystanders, b \in Live
               PROVE  b \in Live'
    OBVIOUS
  <2>1. PICK f \in present : b \in content[f]
    BY DEF Live
  <2>2. f = HomeOf[b]
    BY <2>1 DEF Homes, InTheirFiles, Housed, IInv, TypeOK
  <2>3. f \in Spared
    BY <2>2 DEF Bystanders, Spared
  <2>4. f \in present' /\ b \in content'[f]
    BY <2>1, <2>3, SparedKept
  <2>5. QED
    BY <2>4 DEF Live
<1>4. QED
  BY <1>1, <1>2, <1>3, PTL DEF Spec, BystandersStay


-----------------------------------------------------------------------------
(* What the others can do while an applier has the workspace.              *)

\* Nothing it relies on changes, but that a writer replaces a file of its own
\* and a stager adds a line.
Untouched(c) ==
    /\ pc'[c] = pc[c] /\ prop'[c] = prop[c] /\ listing'[c] = listing[c]
    /\ op'[c] = op[c] /\ nth'[c] = nth[c] /\ todo'[c] = todo[c]
    /\ cause'[c] = cause[c] /\ lines'[c] = lines[c]
    /\ UNCHANGED <<journal, snapshot, receipt, lock>>
    /\ UNCHANGED corpus \/ \E w \in Writers : ReplaceFile(w)
    /\ UNCHANGED status \/ \E p \in Proposals : Stage(p)

Own(c) == Step(c) \/ Crash(c)

\* Unless somebody runs rollback, every step is one of the applier that has
\* got past waiting for the workspace, or leaves it what it relies on.
LEMMA OnlyTheHolderActs ==
    ASSUME TypeOK, Alone, ~Operator, [Next]_vars,
           NEW c \in Appliers, pc[c] \notin {"idle", "wait"}
    PROVE  Own(c) \/ Untouched(c)
<1>1. /\ lock = c /\ c # None
      /\ \A a \in Appliers \ {c} : pc[a] \in {"idle", "wait"}
  BY ProposalsAreValid DEF Alone
<1>2. ASSUME NEW a \in Appliers, TakeWorkspace(a) PROVE Own(c) \/ Untouched(c)
  BY <1>1, <1>2 DEF TakeWorkspace, Goto, corpus, ledger, others, locals, Own,
     Step, Applying, TypeOK, Untouched
<1>3. ASSUME NEW a \in Appliers, WorkspaceTimeout(a)
      PROVE  Own(c) \/ Untouched(c)
  BY <1>1, <1>3 DEF WorkspaceTimeout, Forget, corpus, ledger, others, Goto,
     Own, Step, Applying, TypeOK, Untouched
<1>4. ASSUME NEW a \in Appliers, Recheck(a) PROVE Own(c) \/ Untouched(c)
  <2>1. a = c
    BY <1>1, <1>4 DEF Recheck
  <2>2. QED
    BY <1>4, <2>1 DEF Own, Step, Applying, Restoring, Marking
<1>5. ASSUME NEW a \in Appliers, Replay(a) PROVE Own(c) \/ Untouched(c)
  <2>1. a = c
    BY <1>1, <1>5 DEF Replay
  <2>2. QED
    BY <1>5, <2>1 DEF Own, Step, Applying, Restoring, Marking
<1>6. ASSUME NEW a \in Appliers, ListFiles(a) PROVE Own(c) \/ Untouched(c)
  <2>1. a = c
    BY <1>1, <1>6 DEF ListFiles
  <2>2. QED
    BY <1>6, <2>1 DEF Own, Step, Applying, Restoring, Marking
<1>7. ASSUME NEW a \in Appliers, TakeSnapshot(a) PROVE Own(c) \/ Untouched(c)
  <2>1. a = c
    BY <1>1, <1>7 DEF TakeSnapshot
  <2>2. QED
    BY <1>7, <2>1 DEF Own, Step, Applying, Restoring, Marking
<1>8. ASSUME NEW a \in Appliers, Unmeasurable(a) PROVE Own(c) \/ Untouched(c)
  <2>1. a = c
    BY <1>1, <1>8 DEF Unmeasurable
  <2>2. QED
    BY <1>8, <2>1 DEF Own, Step, Applying, Restoring, Marking
<1>9. ASSUME NEW a \in Appliers, WriteReceipt(a) PROVE Own(c) \/ Untouched(c)
  <2>1. a = c
    BY <1>1, <1>9 DEF WriteReceipt
  <2>2. QED
    BY <1>9, <2>1 DEF Own, Step, Applying, Restoring, Marking
<1>10. ASSUME NEW a \in Appliers, Begin(a) PROVE Own(c) \/ Untouched(c)
  <2>1. a = c
    BY <1>1, <1>10 DEF Begin
  <2>2. QED
    BY <1>10, <2>1 DEF Own, Step, Applying, Restoring, Marking
<1>11. ASSUME NEW a \in Appliers, WriteBlock(a) PROVE Own(c) \/ Untouched(c)
  <2>1. a = c
    BY <1>1, <1>11 DEF WriteBlock
  <2>2. QED
    BY <1>11, <2>1 DEF Own, Step, Applying, Restoring, Marking
<1>12. ASSUME NEW a \in Appliers, OpFails(a) PROVE Own(c) \/ Untouched(c)
  <2>1. a = c
    BY <1>1, <1>12 DEF OpFails
  <2>2. QED
    BY <1>12, <2>1 DEF Own, Step, Applying, Restoring, Marking
<1>13. ASSUME NEW a \in Appliers, OpEscapes(a) PROVE Own(c) \/ Untouched(c)
  <2>1. a = c
    BY <1>1, <1>13 DEF OpEscapes
  <2>2. QED
    BY <1>13, <2>1 DEF Own, Step, Applying, Restoring, Marking
<1>14. ASSUME NEW a \in Appliers, Commit(a) PROVE Own(c) \/ Untouched(c)
  <2>1. a = c
    BY <1>1, <1>14 DEF Commit
  <2>2. QED
    BY <1>14, <2>1 DEF Own, Step, Applying, Restoring, Marking
<1>15. ASSUME NEW a \in Appliers, PostCheck(a) PROVE Own(c) \/ Untouched(c)
  <2>1. a = c
    BY <1>1, <1>15 DEF PostCheck
  <2>2. QED
    BY <1>15, <2>1 DEF Own, Step, Applying, Restoring, Marking
<1>16. ASSUME NEW a \in Appliers, Close(a) PROVE Own(c) \/ Untouched(c)
  <2>1. a = c
    BY <1>1, <1>16 DEF Close
  <2>2. QED
    BY <1>16, <2>1 DEF Own, Step, Applying, Restoring, Marking
<1>17. ASSUME NEW a \in Appliers, UndoOp(a) PROVE Own(c) \/ Untouched(c)
  <2>1. a = c
    BY <1>1, <1>17 DEF UndoOp
  <2>2. QED
    BY <1>17, <2>1 DEF Own, Step, Applying, Restoring, Marking
<1>18. ASSUME NEW a \in Appliers, OpenRestore(a) PROVE Own(c) \/ Untouched(c)
  <2>1. a = c
    BY <1>1, <1>18 DEF OpenRestore
  <2>2. QED
    BY <1>18, <2>1 DEF Own, Step, Applying, Restoring, Marking
<1>19. ASSUME NEW a \in Appliers, CopyBack(a) PROVE Own(c) \/ Untouched(c)
  <2>1. a = c
    BY <1>1, <1>19 DEF CopyBack
  <2>2. QED
    BY <1>19, <2>1 DEF Own, Step, Applying, Restoring, Marking
<1>20. ASSUME NEW a \in Appliers, SweepOrphans(a) PROVE Own(c) \/ Untouched(c)
  <2>1. a = c
    BY <1>1, <1>20 DEF SweepOrphans
  <2>2. QED
    BY <1>20, <2>1 DEF Own, Step, Applying, Restoring, Marking
<1>21. ASSUME NEW a \in Appliers, CleanupOrphans(a)
      PROVE  Own(c) \/ Untouched(c)
  <2>1. a = c
    BY <1>1, <1>21 DEF CleanupOrphans
  <2>2. QED
    BY <1>21, <2>1 DEF Own, Step, Applying, Restoring, Marking
<1>22. ASSUME NEW a \in Appliers, RecordRollback(a)
      PROVE  Own(c) \/ Untouched(c)
  <2>1. a = c
    BY <1>1, <1>22 DEF RecordRollback
  <2>2. QED
    BY <1>22, <2>1 DEF Own, Step, Applying, Restoring, Marking
<1>23. ASSUME NEW a \in Appliers, ReadLines(a) PROVE Own(c) \/ Untouched(c)
  <2>1. a = c
    BY <1>1, <1>23 DEF ReadLines
  <2>2. QED
    BY <1>23, <2>1 DEF Own, Step, Applying, Restoring, Marking
<1>24. ASSUME NEW a \in Appliers, ReplaceLines(a) PROVE Own(c) \/ Untouched(c)
  <2>1. a = c
    BY <1>1, <1>24 DEF ReplaceLines
  <2>2. QED
    BY <1>24, <2>1 DEF Own, Step, Applying, Restoring, Marking
<1>25. ASSUME NEW a \in Appliers, MarkFails(a) PROVE Own(c) \/ Untouched(c)
  <2>1. a = c
    BY <1>1, <1>25 DEF MarkFails
  <2>2. QED
    BY <1>25, <2>1 DEF Own, Step, Applying, Restoring, Marking
<1>26. ASSUME NEW a \in Appliers, Unlock(a) PROVE Own(c) \/ Untouched(c)
  <2>1. a = c
    BY <1>1, <1>26 DEF Unlock
  <2>2. QED
    BY <1>26, <2>1 DEF Own, Step, Applying, Restoring, Marking
<1>27. ASSUME NEW a \in Appliers, Crash(a) PROVE Own(c) \/ Untouched(c)
  BY <1>1, <1>27 DEF Crash, Forget, ReleaseIf, corpus, others, Goto, Own,
     Step, Applying, TypeOK, Untouched
<1>28. ASSUME NEW a \in Appliers, NEW p \in Proposals, Submit(a, p)
      PROVE  Own(c) \/ Untouched(c)
  BY <1>1, <1>28 DEF Submit, Goto, corpus, ledger, others, TypeOK, Untouched
<1>29. ASSUME NEW a \in Appliers, NEW p \in Proposals, RollBack(a, p)
      PROVE  Own(c) \/ Untouched(c)
  BY <1>1, <1>29 DEF RollBack, Goto, corpus, ledger, others, TypeOK, Untouched
<1>30. ASSUME NEW p \in Proposals, Stage(p) PROVE Own(c) \/ Untouched(c)
  BY <1>1, <1>30 DEF Stage, corpus, others, locals, TypeOK, Untouched
<1>31. ASSUME NEW w \in Writers, NEW b \in Foreign, ReadFile(w, b)
      PROVE  Own(c) \/ Untouched(c)
  BY <1>1, <1>31 DEF ReadFile, corpus, ledger, locals, TypeOK, Untouched
<1>32. ASSUME NEW w \in Writers, ReplaceFile(w) PROVE Own(c) \/ Untouched(c)
  BY <1>1, <1>32 DEF ReplaceFile, ledger, locals, TypeOK, Untouched
<1>33. CASE ReplayCommand
  BY <1>1, <1>33 DEF ReplayCommand, ledger, others, locals, TypeOK, Untouched
<1>34. CASE UNCHANGED vars
  BY <1>1, <1>34 DEF vars, corpus, TypeOK, Untouched
<1>35. QED
  BY <1>2, <1>3, <1>4, <1>5, <1>6, <1>7, <1>8, <1>9, <1>10, <1>11, <1>12,
     <1>13, <1>14, <1>15, <1>16, <1>17, <1>18, <1>19, <1>20, <1>21, <1>22,
     <1>23, <1>24, <1>25, <1>26, <1>27, <1>28, <1>29, <1>30, <1>31, <1>32,
     <1>33, <1>34
  DEF Next, Step, Applying, Restoring, Marking

\* What an applier has in hand.
Same(c) ==
    /\ pc'[c] = pc[c] /\ prop'[c] = prop[c] /\ listing'[c] = listing[c]
    /\ op'[c] = op[c] /\ nth'[c] = nth[c] /\ todo'[c] = todo[c]
    /\ cause'[c] = cause[c] /\ lines'[c] = lines[c]

\* It changes only by a step of its own, or when it begins something.
LEMMA OthersStandStill ==
    ASSUME TypeOK, [Next]_vars, NEW c \in Appliers
    PROVE  Same(c) \/ Own(c) \/ \E p \in Proposals : Submit(c, p) \/ RollBack(c, p)
<1> DEFINE Goal == Same(c) \/ Own(c) \/ \E p \in Proposals : Submit(c, p) \/ RollBack(c, p)
<1>1. ASSUME NEW a \in Appliers, TakeWorkspace(a) PROVE Goal
  <2>1. CASE a = c
    BY <1>1, <2>1 DEF Own, Step, Applying, Restoring, Marking
  <2>2. CASE a # c
    BY <1>1, <2>2 DEF TakeWorkspace, Goto, corpus, ledger, others, locals,
       Same, TypeOK
  <2>3. QED
    BY <2>1, <2>2
<1>2. ASSUME NEW a \in Appliers, WorkspaceTimeout(a) PROVE Goal
  <2>1. CASE a = c
    BY <1>2, <2>1 DEF Own, Step, Applying, Restoring, Marking
  <2>2. CASE a # c
    BY <1>2, <2>2 DEF WorkspaceTimeout, Forget, corpus, ledger, others, Goto,
       Same, TypeOK
  <2>3. QED
    BY <2>1, <2>2
<1>3. ASSUME NEW a \in Appliers, Recheck(a) PROVE Goal
  <2>1. CASE a = c
    BY <1>3, <2>1 DEF Own, Step, Applying, Restoring, Marking
  <2>2. CASE a # c
    BY <1>3, <2>2 DEF Recheck, Goto, corpus, ledger, others, locals, Same,
       TypeOK
  <2>3. QED
    BY <2>1, <2>2
<1>4. ASSUME NEW a \in Appliers, Replay(a) PROVE Goal
  <2>1. CASE a = c
    BY <1>4, <2>1 DEF Own, Step, Applying, Restoring, Marking
  <2>2. CASE a # c
    BY <1>4, <2>2 DEF Replay, Goto, corpus, ledger, others, locals, Same,
       TypeOK
  <2>3. QED
    BY <2>1, <2>2
<1>5. ASSUME NEW a \in Appliers, ListFiles(a) PROVE Goal
  <2>1. CASE a = c
    BY <1>5, <2>1 DEF Own, Step, Applying, Restoring, Marking
  <2>2. CASE a # c
    BY <1>5, <2>2 DEF ListFiles, Goto, corpus, ledger, others, Same, TypeOK
  <2>3. QED
    BY <2>1, <2>2
<1>6. ASSUME NEW a \in Appliers, TakeSnapshot(a) PROVE Goal
  <2>1. CASE a = c
    BY <1>6, <2>1 DEF Own, Step, Applying, Restoring, Marking
  <2>2. CASE a # c
    BY <1>6, <2>2 DEF TakeSnapshot, Goto, corpus, ledger, others, locals,
       Same, TypeOK
  <2>3. QED
    BY <2>1, <2>2
<1>7. ASSUME NEW a \in Appliers, Unmeasurable(a) PROVE Goal
  <2>1. CASE a = c
    BY <1>7, <2>1 DEF Own, Step, Applying, Restoring, Marking
  <2>2. CASE a # c
    BY <1>7, <2>2 DEF Unmeasurable, Goto, corpus, ledger, others, Same, TypeOK
  <2>3. QED
    BY <2>1, <2>2
<1>8. ASSUME NEW a \in Appliers, WriteReceipt(a) PROVE Goal
  <2>1. CASE a = c
    BY <1>8, <2>1 DEF Own, Step, Applying, Restoring, Marking
  <2>2. CASE a # c
    BY <1>8, <2>2 DEF WriteReceipt, Goto, corpus, ledger, others, locals,
       Same, TypeOK
  <2>3. QED
    BY <2>1, <2>2
<1>9. ASSUME NEW a \in Appliers, Begin(a) PROVE Goal
  <2>1. CASE a = c
    BY <1>9, <2>1 DEF Own, Step, Applying, Restoring, Marking
  <2>2. CASE a # c
    BY <1>9, <2>2 DEF Begin, Goto, corpus, ledger, others, locals, Same,
       TypeOK
  <2>3. QED
    BY <2>1, <2>2
<1>10. ASSUME NEW a \in Appliers, WriteBlock(a) PROVE Goal
  <2>1. CASE a = c
    BY <1>10, <2>1 DEF Own, Step, Applying, Restoring, Marking
  <2>2. CASE a # c
    BY <1>10, <2>2 DEF WriteBlock, Goto, ledger, others, Same, TypeOK
  <2>3. QED
    BY <2>1, <2>2
<1>11. ASSUME NEW a \in Appliers, OpFails(a) PROVE Goal
  <2>1. CASE a = c
    BY <1>11, <2>1 DEF Own, Step, Applying, Restoring, Marking
  <2>2. CASE a # c
    BY <1>11, <2>2 DEF OpFails, Goto, corpus, ledger, others, locals, Same,
       TypeOK
  <2>3. QED
    BY <2>1, <2>2
<1>12. ASSUME NEW a \in Appliers, OpEscapes(a) PROVE Goal
  <2>1. CASE a = c
    BY <1>12, <2>1 DEF Own, Step, Applying, Restoring, Marking
  <2>2. CASE a # c
    BY <1>12, <2>2 DEF OpEscapes, Goto, corpus, ledger, others, locals, Same,
       TypeOK
  <2>3. QED
    BY <2>1, <2>2
<1>13. ASSUME NEW a \in Appliers, Commit(a) PROVE Goal
  <2>1. CASE a = c
    BY <1>13, <2>1 DEF Own, Step, Applying, Restoring, Marking
  <2>2. CASE a # c
    BY <1>13, <2>2 DEF Commit, Goto, corpus, ledger, others, Same, TypeOK
  <2>3. QED
    BY <2>1, <2>2
<1>14. ASSUME NEW a \in Appliers, PostCheck(a) PROVE Goal
  <2>1. CASE a = c
    BY <1>14, <2>1 DEF Own, Step, Applying, Restoring, Marking
  <2>2. CASE a # c
    BY <1>14, <2>2 DEF PostCheck, Goto, corpus, ledger, others, Same, TypeOK
  <2>3. QED
    BY <2>1, <2>2
<1>15. ASSUME NEW a \in Appliers, Close(a) PROVE Goal
  <2>1. CASE a = c
    BY <1>15, <2>1 DEF Own, Step, Applying, Restoring, Marking
  <2>2. CASE a # c
    BY <1>15, <2>2 DEF Close, Goto, corpus, ledger, others, locals, Same,
       TypeOK
  <2>3. QED
    BY <2>1, <2>2
<1>16. ASSUME NEW a \in Appliers, UndoOp(a) PROVE Goal
  <2>1. CASE a = c
    BY <1>16, <2>1 DEF Own, Step, Applying, Restoring, Marking
  <2>2. CASE a # c
    BY <1>16, <2>2 DEF UndoOp, Goto, corpus, ledger, others, Same, TypeOK
  <2>3. QED
    BY <2>1, <2>2
<1>17. ASSUME NEW a \in Appliers, OpenRestore(a) PROVE Goal
  <2>1. CASE a = c
    BY <1>17, <2>1 DEF Own, Step, Applying, Restoring, Marking
  <2>2. CASE a # c
    BY <1>17, <2>2 DEF OpenRestore, Goto, corpus, ledger, others, Same, TypeOK
  <2>3. QED
    BY <2>1, <2>2
<1>18. ASSUME NEW a \in Appliers, CopyBack(a) PROVE Goal
  <2>1. CASE a = c
    BY <1>18, <2>1 DEF Own, Step, Applying, Restoring, Marking
  <2>2. CASE a # c
    BY <1>18, <2>2 DEF CopyBack, ledger, others, Same, TypeOK
  <2>3. QED
    BY <2>1, <2>2
<1>19. ASSUME NEW a \in Appliers, SweepOrphans(a) PROVE Goal
  <2>1. CASE a = c
    BY <1>19, <2>1 DEF Own, Step, Applying, Restoring, Marking
  <2>2. CASE a # c
    BY <1>19, <2>2 DEF SweepOrphans, Goto, ledger, others, locals, Same,
       TypeOK
  <2>3. QED
    BY <2>1, <2>2
<1>20. ASSUME NEW a \in Appliers, CleanupOrphans(a) PROVE Goal
  <2>1. CASE a = c
    BY <1>20, <2>1 DEF Own, Step, Applying, Restoring, Marking
  <2>2. CASE a # c
    BY <1>20, <2>2 DEF CleanupOrphans, Goto, ledger, others, locals, Same,
       TypeOK
  <2>3. QED
    BY <2>1, <2>2
<1>21. ASSUME NEW a \in Appliers, RecordRollback(a) PROVE Goal
  <2>1. CASE a = c
    BY <1>21, <2>1 DEF Own, Step, Applying, Restoring, Marking
  <2>2. CASE a # c
    BY <1>21, <2>2 DEF RecordRollback, Goto, corpus, ledger, others, locals,
       Same, TypeOK
  <2>3. QED
    BY <2>1, <2>2
<1>22. ASSUME NEW a \in Appliers, ReadLines(a) PROVE Goal
  <2>1. CASE a = c
    BY <1>22, <2>1 DEF Own, Step, Applying, Restoring, Marking
  <2>2. CASE a # c
    BY <1>22, <2>2 DEF ReadLines, Goto, corpus, others, locals, Same, TypeOK
  <2>3. QED
    BY <2>1, <2>2
<1>23. ASSUME NEW a \in Appliers, ReplaceLines(a) PROVE Goal
  <2>1. CASE a = c
    BY <1>23, <2>1 DEF Own, Step, Applying, Restoring, Marking
  <2>2. CASE a # c
    BY <1>23, <2>2 DEF ReplaceLines, Goto, corpus, others, locals, Same,
       TypeOK
  <2>3. QED
    BY <2>1, <2>2
<1>24. ASSUME NEW a \in Appliers, MarkFails(a) PROVE Goal
  <2>1. CASE a = c
    BY <1>24, <2>1 DEF Own, Step, Applying, Restoring, Marking
  <2>2. CASE a # c
    BY <1>24, <2>2 DEF MarkFails, Goto, corpus, ledger, others, locals, Same,
       TypeOK
  <2>3. QED
    BY <2>1, <2>2
<1>25. ASSUME NEW a \in Appliers, Unlock(a) PROVE Goal
  <2>1. CASE a = c
    BY <1>25, <2>1 DEF Own, Step, Applying, Restoring, Marking
  <2>2. CASE a # c
    BY <1>25, <2>2 DEF Unlock, Forget, ReleaseIf, corpus, ledger, others,
       Goto, Same, TypeOK
  <2>3. QED
    BY <2>1, <2>2
<1>26. ASSUME NEW a \in Appliers, Crash(a) PROVE Goal
  <2>1. CASE a = c
    BY <1>26, <2>1 DEF Own, Step, Applying, Restoring, Marking
  <2>2. CASE a # c
    BY <1>26, <2>2 DEF Crash, Forget, ReleaseIf, corpus, others, Goto, Same,
       TypeOK
  <2>3. QED
    BY <2>1, <2>2
<1>27. ASSUME NEW a \in Appliers, NEW p \in Proposals, Submit(a, p) PROVE Goal
  BY <1>27 DEF Submit, Goto, corpus, ledger, others, Same, TypeOK
<1>28. ASSUME NEW a \in Appliers, NEW p \in Proposals, RollBack(a, p) PROVE Goal
  BY <1>28 DEF RollBack, Goto, corpus, ledger, others, Same, TypeOK
<1>29. ASSUME NEW p \in Proposals, Stage(p) PROVE Goal
  BY <1>29 DEF Stage, corpus, others, locals, Same, TypeOK
<1>30. ASSUME NEW w \in Writers, NEW b \in Foreign, ReadFile(w, b) PROVE Goal
  BY <1>30 DEF ReadFile, corpus, ledger, locals, Same, TypeOK
<1>31. ASSUME NEW w \in Writers, ReplaceFile(w) PROVE Goal
  BY <1>31 DEF ReplaceFile, ledger, locals, Same, TypeOK
<1>32. CASE ReplayCommand
  BY <1>32 DEF ReplayCommand, ledger, others, locals, Same, TypeOK
<1>33. CASE UNCHANGED vars
  BY <1>33 DEF vars, Same, TypeOK
<1>34. QED
  BY <1>1, <1>2, <1>3, <1>4, <1>5, <1>6, <1>7, <1>8, <1>9, <1>10, <1>11,
     <1>12, <1>13, <1>14, <1>15, <1>16, <1>17, <1>18, <1>19, <1>20, <1>21,
     <1>22, <1>23, <1>24, <1>25, <1>26, <1>27, <1>28, <1>29, <1>30, <1>31,
     <1>32, <1>33
  DEF Next, Step, Applying, Restoring, Marking

\* An applier gets to the writes of an op by beginning it, and past a write by
\* that write.
LEMMA WhoWrites ==
    ASSUME TypeOK, NEW c \in Appliers, Own(c)
    PROVE  pc'[c] \in {"op", "commit"} => Begin(c) \/ WriteBlock(c)
<1>1. CASE TakeWorkspace(c)
  BY <1>1 DEF TakeWorkspace, Goto, corpus, ledger, others, locals, TypeOK
<1>2. CASE WorkspaceTimeout(c)
  BY <1>2 DEF WorkspaceTimeout, Forget, corpus, ledger, others, Goto, TypeOK
<1>3. CASE Recheck(c)
  BY <1>3 DEF Recheck, Goto, corpus, ledger, others, locals, TypeOK
<1>4. CASE Replay(c)
  BY <1>4 DEF Replay, Goto, corpus, ledger, others, locals, TypeOK
<1>5. CASE ListFiles(c)
  BY <1>5 DEF ListFiles, Goto, corpus, ledger, others, TypeOK
<1>6. CASE TakeSnapshot(c)
  BY <1>6 DEF TakeSnapshot, Goto, corpus, ledger, others, locals, TypeOK
<1>7. CASE Unmeasurable(c)
  BY <1>7 DEF Unmeasurable, Goto, corpus, ledger, others, TypeOK
<1>8. CASE WriteReceipt(c)
  BY <1>8 DEF WriteReceipt, Goto, corpus, ledger, others, locals, TypeOK
<1>9. CASE Begin(c)
  BY <1>9 DEF Begin, Goto, corpus, ledger, others, locals, TypeOK
<1>10. CASE WriteBlock(c)
  BY <1>10 DEF WriteBlock, Goto, ledger, others, TypeOK
<1>11. CASE OpFails(c)
  BY <1>11 DEF OpFails, Goto, corpus, ledger, others, locals, TypeOK
<1>12. CASE OpEscapes(c)
  BY <1>12 DEF OpEscapes, Goto, corpus, ledger, others, locals, TypeOK
<1>13. CASE Commit(c)
  BY <1>13 DEF Commit, Goto, corpus, ledger, others, TypeOK
<1>14. CASE PostCheck(c)
  BY <1>14 DEF PostCheck, Goto, corpus, ledger, others, TypeOK
<1>15. CASE Close(c)
  BY <1>15 DEF Close, Goto, corpus, ledger, others, locals, TypeOK
<1>16. CASE UndoOp(c)
  BY <1>16 DEF UndoOp, Goto, corpus, ledger, others, TypeOK
<1>17. CASE OpenRestore(c)
  BY <1>17 DEF OpenRestore, Goto, corpus, ledger, others, TypeOK
<1>18. CASE CopyBack(c)
  BY <1>18 DEF CopyBack, ledger, others, TypeOK
<1>19. CASE SweepOrphans(c)
  BY <1>19 DEF SweepOrphans, Goto, ledger, others, locals, TypeOK
<1>20. CASE CleanupOrphans(c)
  BY <1>20 DEF CleanupOrphans, Goto, ledger, others, locals, TypeOK
<1>21. CASE RecordRollback(c)
  BY <1>21 DEF RecordRollback, Goto, corpus, ledger, others, locals, TypeOK
<1>22. CASE ReadLines(c)
  BY <1>22 DEF ReadLines, Goto, corpus, others, locals, TypeOK
<1>23. CASE ReplaceLines(c)
  BY <1>23 DEF ReplaceLines, Goto, corpus, others, locals, TypeOK
<1>24. CASE MarkFails(c)
  BY <1>24 DEF MarkFails, Goto, corpus, ledger, others, locals, TypeOK
<1>25. CASE Unlock(c)
  BY <1>25 DEF Unlock, Forget, ReleaseIf, corpus, ledger, others, Goto, TypeOK
<1>26. CASE Crash(c)
  BY <1>26 DEF Crash, Forget, ReleaseIf, corpus, others, Goto, TypeOK
<1>27. QED
  BY <1>1, <1>2, <1>3, <1>4, <1>5, <1>6, <1>7, <1>8, <1>9, <1>10, <1>11,
     <1>12, <1>13, <1>14, <1>15, <1>16, <1>17, <1>18, <1>19, <1>20, <1>21,
     <1>22, <1>23, <1>24, <1>25, <1>26
  DEF Own, Step, Applying, Restoring, Marking


-----------------------------------------------------------------------------
(* No op takes effect in part.                                             *)

\* When that can be expected: nobody runs rollback or wal-replay during an
\* apply, the blocks an op writes are at home in the file it names, no two ops
\* write the same block, and other writers keep to other files.
OpsAreLocal ==
    \A p \in Proposals : \A i \in DOMAIN OpsOf[p] : \A b \in OpBlocks(p, i) :
        HomeOf[b] = OpsOf[p][i].file
OpsAreDistinct ==
    \A p, q \in Proposals : \A i \in DOMAIN OpsOf[p], j \in DOMAIN OpsOf[q] :
        p # q \/ i # j => OpBlocks(p, i) \cap OpBlocks(q, j) = {}
WritersKeepOut ==
    \A b \in Foreign, p \in Proposals : HomeOf[b] \notin Touched(p)
Undisturbed == ~Operator /\ OpsAreLocal /\ OpsAreDistinct /\ WritersKeepOut

\* In a set of blocks of a file, each op on that file is whole or absent.
Whole(f, blocks) == \A p \in Proposals : \A i \in DOMAIN OpsOf[p] :
    OpsOf[p][i].file = f =>
        OpBlocks(p, i) \subseteq blocks \/ OpBlocks(p, i) \cap blocks = {}

\* The only file that may hold part of an op is that of the pending entry,
\* which then is its backup and the writes done so far; backups and copies are
\* whole.
OthersAreWhole == \A f \in Files :
    Whole(f, content[f]) \/ (journal # <<>> /\ f = journal[1].file)
BackupIsWhole == journal # <<>> => Whole(journal[1].file, journal[1].backup)
CopiesAreWhole == \A p \in Proposals : snapshot[p] \in Snapshots =>
    \A f \in Files : Whole(f, snapshot[p].saved[f])
WritesSoFar(a) ==
    {Op(a).writes[k] : k \in 1..(IF pc[a] = "op" THEN nth[a] - 1
                                                  ELSE Len(Op(a).writes))}
PendingIsOpen == \A a \in Appliers : pc[a] \in {"op", "commit"} =>
    /\ journal # <<>> /\ journal[1].file = Op(a).file
    /\ content[Op(a).file] = journal[1].backup \cup WritesSoFar(a)
WritersAreForeign == \A w \in Writers : writing[w] \in Foreign \cup {None}
OpWhole == /\ OthersAreWhole /\ BackupIsWhole /\ CopiesAreWhole
           /\ PendingIsOpen /\ WritersAreForeign

\* A whole set stays whole with another op's blocks, or its own.
LEMMA WholeWithAnOp ==
    ASSUME OpsAreDistinct, NEW p \in Proposals, NEW i \in DOMAIN OpsOf[p],
           NEW f, NEW blocks, Whole(f, blocks)
    PROVE  Whole(f, blocks \cup OpBlocks(p, i))
<1> SUFFICES ASSUME NEW q \in Proposals, NEW j \in DOMAIN OpsOf[q],
                    OpsOf[q][j].file = f
             PROVE  \/ OpBlocks(q, j) \subseteq blocks \cup OpBlocks(p, i)
                    \/ OpBlocks(q, j) \cap (blocks \cup OpBlocks(p, i)) = {}
  BY DEF Whole
<1>1. OpBlocks(q, j) \subseteq blocks \/ OpBlocks(q, j) \cap blocks = {}
  BY DEF Whole
<1>2. CASE p = q /\ i = j
  BY <1>2
<1>3. CASE p # q \/ i # j
  <2>1. OpBlocks(p, i) \cap OpBlocks(q, j) = {}
    BY <1>3 DEF OpsAreDistinct
  <2>2. QED
    BY <1>1, <2>1
<1>4. QED
  BY <1>2, <1>3

\* A file no proposal touches is whole whatever is in it, and so is the empty one.
LEMMA WholeForNothing ==
    /\ \A f, blocks : (\A p \in Proposals : f \notin Touched(p)) => Whole(f, blocks)
    /\ \A f : Whole(f, {})
  BY DEF Whole, Touched, OpFiles

\* The writes done when an op is through are its blocks.
LEMMA WritesAreBlocks ==
    ASSUME NEW a \in Appliers
    PROVE  OpBlocks(prop[a], op[a]) = {Op(a).writes[k] : k \in DOMAIN Op(a).writes}
  BY DEF OpBlocks, ToSet, Op

\* What a write of an applier makes of its op's file.
LEMMA WriteOpens ==
    ASSUME IInv, OpWhole, Undisturbed, NEW a \in Appliers, WriteBlock(a)
    PROVE  /\ pc[a] = "op" /\ Op(a).file \in Files
           /\ journal # <<>> /\ journal[1].file = Op(a).file
           /\ \A f \in Files \ {Op(a).file} : content'[f] = content[f]
           /\ content'[Op(a).file] = content[Op(a).file] \cup {Op(a).writes[nth[a]]}
<1>1. pc[a] = "op" /\ prop[a] \in Proposals /\ op[a] \in DOMAIN OpsOf[prop[a]]
  BY DEF WriteBlock, IInv, Equipped
<1>2. PICK b \in Blocks :
        /\ b = Op(a).writes[nth[a]] /\ b \in OpBlocks(prop[a], op[a])
        /\ content' = [content EXCEPT ![HomeOf[b]] = @ \cup {b}]
  BY WriteGoesHome
<1>3. HomeOf[b] = Op(a).file
  BY <1>1, <1>2 DEF Undisturbed, OpsAreLocal, Op
<1>4. Op(a).file \in Files
  BY <1>1, FirstWrite DEF Op
<1>5. journal # <<>> /\ journal[1].file = Op(a).file
  BY <1>1 DEF OpWhole, PendingIsOpen
<1>6. QED
  BY <1>1, <1>2, <1>3, <1>4, <1>5 DEF IInv, TypeOK

\* Every step leaves each op whole or absent, but for the pending one.
LEMMA OpWholeStep ==
    ASSUME IInv, Alone, OpWhole, Undisturbed, [Next]_vars
    PROVE  OpWhole'
<1> USE DEF OpWhole
<1>1. TypeOK /\ TypeOK' /\ Equipped /\ Exclusive /\ ~Operator
  BY InvariantStep DEF IInv, Undisturbed
<1>2. Frames
  BY FramesStep
<1>3. WritersAreForeign'
  <2>1. CASE UNCHANGED others
    BY <2>1 DEF others, WritersAreForeign
  <2>2. ASSUME NEW w \in Writers, NEW b \in Foreign, ReadFile(w, b)
        PROVE  WritersAreForeign'
    BY <1>1, <2>2 DEF ReadFile, WritersAreForeign, TypeOK
  <2>3. ASSUME NEW w \in Writers, ReplaceFile(w) PROVE WritersAreForeign'
    BY <1>1, <2>3 DEF ReplaceFile, WritersAreForeign, TypeOK
  <2>4. QED
    BY <1>2, <2>1, <2>2, <2>3 DEF Frames, WriterFrame
<1>4. ASSUME NEW w \in Writers, ReplaceFile(w), NEW f \in Files,
             NEW p \in Proposals, f \in Touched(p)
      PROVE  content'[f] = content[f]
  <2>1. writing[w] \in Foreign
    BY <1>4 DEF ReplaceFile, WritersAreForeign
  <2>2. HomeOf[writing[w]] # f
    BY <1>4, <2>1 DEF Undisturbed, WritersKeepOut
  <2>3. QED
    BY <1>1, <1>4, <2>2 DEF ReplaceFile, PutBack, TypeOK
<1>5. CopiesAreWhole'
  <2>1. CASE UNCHANGED snapshot
    BY <2>1 DEF CopiesAreWhole
  <2>2. ASSUME NEW a \in Appliers, TakeSnapshot(a) PROVE CopiesAreWhole'
    <3>1. prop[a] \in Proposals /\ journal = <<>>
      BY <2>2 DEF TakeSnapshot, IInv, Equipped, CleanStart
    <3>2. \A q \in Proposals \ {prop[a]} : snapshot'[q] = snapshot[q]
      BY <1>1, <2>2 DEF TakeSnapshot, TypeOK
    <3>3. snapshot'[prop[a]].saved =
            [f \in Files |-> IF f \in Touched(prop[a]) THEN content[f] ELSE {}]
      BY <1>1, <2>2, <3>1 DEF TakeSnapshot, TypeOK
    <3>4. \A f \in Files : Whole(f, content[f])
      BY <3>1 DEF OthersAreWhole
    <3>5. \A f \in Files : Whole(f, snapshot'[prop[a]].saved[f])
      BY <3>3, <3>4, WholeForNothing
    <3>6. QED
      BY <3>2, <3>5 DEF CopiesAreWhole
  <2>3. QED
    BY <1>2, <2>1, <2>2 DEF Frames, SnapshotFrame
<1>6. BackupIsWhole'
  <2>1. CASE UNCHANGED journal
    BY <2>1 DEF BackupIsWhole
  <2>2. ASSUME NEW a \in Appliers, Begin(a) PROVE BackupIsWhole'
    <3>1. journal = <<>> /\ Op(a).file \in Files
      BY <2>2, FirstWrite DEF Begin, IInv, CleanStart, Equipped, Op
    <3>2. journal'[1].file = Op(a).file /\ journal'[1].backup = content[Op(a).file]
      BY <2>2, <3>1 DEF Begin
    <3>3. QED
      BY <3>1, <3>2 DEF BackupIsWhole, OthersAreWhole
  <2>3. ASSUME NEW a \in Appliers, Commit(a) PROVE BackupIsWhole'
    BY <2>3, TheEntry DEF Commit, BackupIsWhole
  <2>4. QED
    BY <1>2, <2>1, <2>2, <2>3 DEF Frames, JournalFrame, Undoes, BackupIsWhole
<1>7. OthersAreWhole'
  <2>1. CASE journal # <<>> /\ Undoes(journal[1])
    <3>1. journal[1].file \in Files
      BY <2>1, TheEntry DEF Entries
    <3>2. Whole(journal[1].file, content'[journal[1].file])
      BY <1>1, <2>1, <3>1 DEF Undoes, PutBack, BackupIsWhole, TypeOK
    <3>3. \A f \in Files \ {journal[1].file} : content'[f] = content[f]
      BY <1>1, <2>1, <3>1 DEF Undoes, PutBack, TypeOK
    <3>4. QED
      BY <3>2, <3>3 DEF OthersAreWhole
  <2>2. ASSUME NEW a \in Appliers, Commit(a) PROVE OthersAreWhole'
    <3>1. pc[a] = "commit" /\ content' = content
      BY <2>2 DEF Commit, corpus
    <3>2. prop[a] \in Proposals /\ op[a] \in DOMAIN OpsOf[prop[a]]
      BY <1>1, <3>1 DEF Equipped
    <3>3. /\ journal # <<>> /\ journal[1].file = Op(a).file
          /\ content[Op(a).file] = journal[1].backup \cup WritesSoFar(a)
      BY <3>1 DEF PendingIsOpen
    <3>4. WritesSoFar(a) = OpBlocks(prop[a], op[a])
      BY <3>1, <3>2, FirstWrite, WritesAreBlocks DEF WritesSoFar, Op
    <3>5. Whole(Op(a).file, content[Op(a).file])
      BY <3>2, <3>3, <3>4, WholeWithAnOp DEF BackupIsWhole, Undisturbed
    <3>6. QED
      BY <3>1, <3>3, <3>5 DEF OthersAreWhole
  <2>3. ASSUME NEW a \in Appliers, Begin(a) PROVE OthersAreWhole'
    <3>1. journal = <<>> /\ content' = content
      BY <2>3 DEF Begin, IInv, CleanStart, corpus
    <3>2. QED
      BY <3>1 DEF OthersAreWhole
  <2>4. CASE UNCHANGED journal
    <3>1. CASE UNCHANGED corpus
      BY <2>4, <3>1 DEF corpus, OthersAreWhole
    <3>2. ASSUME NEW a \in Appliers, WriteBlock(a) PROVE OthersAreWhole'
      BY <2>4, <3>2, WriteOpens DEF OthersAreWhole
    <3>3. ASSUME NEW a \in Appliers, CopyBack(a) PROVE OthersAreWhole'
      <4>1. PICK f \in todo[a] :
              /\ f \in Files
              /\ content' = [content EXCEPT ![f] = snapshot[prop[a]].saved[f]]
        BY <3>3, CopyComesFromSnapshot
      <4>2. Whole(f, snapshot[prop[a]].saved[f])
        BY <3>3, <4>1, CopyComesFromSnapshot DEF CopiesAreWhole
      <4>3. QED
        BY <1>1, <2>4, <4>1, <4>2 DEF OthersAreWhole, TypeOK
    <3>4. ASSUME NEW a \in Appliers, SweepOrphans(a) PROVE OthersAreWhole'
      BY <1>1, <2>4, <3>4, SweepErases, WholeForNothing DEF SweepOrphans, OthersAreWhole
    <3>5. ASSUME NEW a \in Appliers, CleanupOrphans(a) PROVE OthersAreWhole'
      BY <1>1, <2>4, <3>5, SweepErases, WholeForNothing DEF CleanupOrphans, OthersAreWhole
    <3>6. ASSUME NEW w \in Writers, ReplaceFile(w) PROVE OthersAreWhole'
      BY <1>4, <2>4, <3>6, WholeForNothing DEF OthersAreWhole
    <3>7. CASE journal # <<>> /\ Undoes(journal[1])
      BY <2>1, <3>7
    <3>8. QED
      BY <1>2, <3>1, <3>2, <3>3, <3>4, <3>5, <3>6, <3>7 DEF Frames, CorpusFrame
  <2>5. QED
    BY <1>2, <2>1, <2>2, <2>3, <2>4 DEF Frames, JournalFrame
<1>8. PendingIsOpen'
  <2> SUFFICES ASSUME NEW c \in Appliers, pc'[c] \in {"op", "commit"}
               PROVE  (/\ journal # <<>> /\ journal[1].file = Op(c).file
                       /\ content[Op(c).file] = journal[1].backup \cup WritesSoFar(c))'
    BY DEF PendingIsOpen
  <2>1. CASE Begin(c)
    <3>1. journal = <<>> /\ Op(c).file \in Files /\ nth[c] = 1
      BY <1>1, <2>1, FirstWrite DEF Begin, IInv, CleanStart, Equipped, Op
    <3>2. /\ journal' = <<[file |-> Op(c).file, existed |-> Op(c).file \in present,
                           backup |-> content[Op(c).file]]>>
          /\ content' = content /\ prop' = prop /\ op' = op /\ nth' = nth
          /\ pc'[c] = "op"
      BY <1>1, <2>1, <3>1 DEF Begin, corpus, locals, Goto, TypeOK
    <3>3. WritesSoFar(c)' = {}
      BY <3>1, <3>2 DEF WritesSoFar
    <3>4. QED
      BY <3>2, <3>3 DEF Op
  <2>2. CASE WriteBlock(c)
    <3>1. /\ pc[c] = "op" /\ journal # <<>> /\ journal[1].file = Op(c).file
          /\ content'[Op(c).file] = content[Op(c).file] \cup {Op(c).writes[nth[c]]}
      BY <2>2, WriteOpens
    <3>2. /\ prop' = prop /\ op' = op /\ journal' = journal
          /\ prop[c] \in Proposals /\ op[c] \in DOMAIN OpsOf[prop[c]]
          /\ nth[c] \in DOMAIN Op(c).writes
      BY <1>1, <2>2 DEF WriteBlock, Equipped
    <3>3. /\ Len(Op(c).writes) \in Nat
          /\ DOMAIN Op(c).writes = 1..Len(Op(c).writes)
      BY <3>2, FirstWrite DEF Op
    <3>4. content[Op(c).file] =
            journal[1].backup \cup {Op(c).writes[k] : k \in 1..(nth[c] - 1)}
      BY <3>1 DEF PendingIsOpen, WritesSoFar
    <3>5. WritesSoFar(c)' = {Op(c).writes[k] : k \in 1..nth[c]}
      <4>1. Op(c)' = Op(c)
        BY <3>2 DEF Op
      <4>2. CASE nth[c] < Len(Op(c).writes)
        <5>1. pc'[c] = "op" /\ nth'[c] = nth[c] + 1
          BY <1>1, <2>2, <3>1, <4>2 DEF WriteBlock, TypeOK
        <5>2. nth'[c] - 1 = nth[c]
          BY <3>2, <3>3, <5>1
        <5>3. QED
          BY <4>1, <5>1, <5>2 DEF WritesSoFar
      <4>3. CASE ~(nth[c] < Len(Op(c).writes))
        <5>1. pc'[c] = "commit" /\ nth[c] = Len(Op(c).writes)
          BY <1>1, <2>2, <3>2, <3>3, <4>3 DEF WriteBlock, Goto, TypeOK
        <5>2. QED
          BY <4>1, <5>1 DEF WritesSoFar
      <4>4. QED
        BY <4>2, <4>3
    <3>6. {Op(c).writes[k] : k \in 1..nth[c]} =
            {Op(c).writes[k] : k \in 1..(nth[c] - 1)} \cup {Op(c).writes[nth[c]]}
      <4>1. 1..nth[c] = (1..(nth[c] - 1)) \cup {nth[c]}
        BY <3>2, <3>3
      <4>2. QED
        BY <4>1
    <3>7. QED
      BY <3>1, <3>2, <3>4, <3>5, <3>6 DEF Op
  <2>3. CASE Untouched(c)
    <3>1. /\ pc[c] \in {"op", "commit"} /\ prop'[c] = prop[c] /\ op'[c] = op[c]
          /\ journal' = journal /\ nth'[c] = nth[c] /\ pc'[c] = pc[c]
      BY <2>3 DEF Untouched
    <3>2. /\ prop[c] \in Proposals /\ Op(c).file \in Touched(prop[c])
          /\ Op(c).file \in Files
      BY <1>1, <3>1, FirstWrite DEF Equipped, Touched, OpFiles, Op
    <3>3. content'[Op(c).file] = content[Op(c).file]
      BY <1>4, <2>3, <3>2 DEF Untouched, corpus
    <3>4. Op(c)' = Op(c) /\ WritesSoFar(c)' = WritesSoFar(c)
      BY <3>1 DEF Op, WritesSoFar
    <3>5. QED
      BY <3>1, <3>3, <3>4 DEF PendingIsOpen
  <2>4. CASE pc[c] \in {"idle", "wait"}
    <3>1. CASE Same(c)
      BY <2>4, <3>1 DEF Same
    <3>2. CASE Own(c)
      BY <1>1, <2>1, <2>2, <3>2, WhoWrites
    <3>3. ASSUME NEW p \in Proposals, Submit(c, p) \/ RollBack(c, p) PROVE FALSE
      BY <1>1, <3>3 DEF Submit, RollBack, Goto, TypeOK
    <3>4. QED
      BY <1>1, <3>1, <3>2, <3>3, OthersStandStill
  <2>5. QED
    BY <1>1, <2>1, <2>2, <2>3, <2>4, OnlyTheHolderActs, WhoWrites
<1>9. QED
  BY <1>3, <1>5, <1>6, <1>7, <1>8


\* At first there are no blocks.
LEMMA FirstOpWhole ==
    ASSUME Init
    PROVE  OpWhole
<1>1. OthersAreWhole /\ BackupIsWhole
  BY WholeForNothing DEF Init, OthersAreWhole, BackupIsWhole
<1>2. CopiesAreWhole
  BY NoneIsNoSnapshot DEF Init, CopiesAreWhole
<1>3. PendingIsOpen /\ WritersAreForeign
  BY DEF Init, PendingIsOpen, WritersAreForeign
<1>4. QED
  BY <1>1, <1>2, <1>3 DEF OpWhole

\* A block is in the corpus when it is in the file it is at home in.
LEMMA LiveAtHome ==
    ASSUME TypeOK, Homes, NEW b \in Blocks
    PROVE  b \in Live <=> b \in content[HomeOf[b]]
<1>1. ASSUME NEW f \in present, b \in content[f] PROVE f = HomeOf[b]
  BY <1>1 DEF Homes, InTheirFiles, Housed, TypeOK
<1>2. HomeOf[b] \in Files /\ (b \in content[HomeOf[b]] => HomeOf[b] \in present)
  BY HomesAreFiles DEF Homes, InTheirFiles
<1>3. QED
  BY <1>1, <1>2 DEF Live

\* Whoever dies, gives up or is refused in the middle of an op, and however
\* many appliers there are: whenever no op is pending, each op's blocks are in
\* the corpus together or not at all.
THEOREM OpsAreAtomic ==
    ASSUME Undisturbed
    PROVE  Spec => []OpIsAtomic
<1>1. Init => IInv /\ Homes /\ Alone /\ OpWhole
  BY FirstInvariant, FirstHomes, FirstOpWhole DEF Init, Alone
<1>2. IInv /\ Homes /\ Alone /\ OpWhole /\ [Next]_vars =>
        (IInv /\ Homes /\ Alone /\ OpWhole)'
  BY Undisturbed, InvariantStep, HomesStep, AloneStep, OpWholeStep DEF IInv
<1>3. IInv /\ Homes /\ OpWhole => OpIsAtomic
  <2> SUFFICES ASSUME IInv, Homes, OpWhole, journal = <<>>,
                      NEW p \in Proposals, NEW i \in DOMAIN OpsOf[p]
               PROVE  OpBlocks(p, i) \subseteq Live \/ OpBlocks(p, i) \cap Live = {}
    BY DEF OpIsAtomic
  <2> DEFINE f == OpsOf[p][i].file
  <2>1. \A b \in OpBlocks(p, i) : b \in Blocks /\ HomeOf[b] = f
    <3>1. OpsOf[p][i].writes \in Seq(Blocks)
      BY FirstWrite
    <3>2. OpBlocks(p, i) \subseteq Blocks
      BY <3>1 DEF OpBlocks, ToSet
    <3>3. QED
      BY <3>2 DEF Undisturbed, OpsAreLocal
  <2>2. \A b \in OpBlocks(p, i) : b \in Live <=> b \in content[f]
    BY <2>1, LiveAtHome DEF IInv
  <2>3. Whole(f, content[f])
    BY FirstWrite DEF OpWhole, OthersAreWhole
  <2>4. OpBlocks(p, i) \subseteq content[f] \/ OpBlocks(p, i) \cap content[f] = {}
    BY <2>3 DEF Whole
  <2>5. QED
    BY <2>2, <2>4
<1>4. QED
  BY <1>1, <1>2, <1>3, PTL DEF Spec

=============================================================================
