--------------------------- MODULE ApplyAtomicProofs ---------------------------
(***************************************************************************)
(* Proofs about applies that nothing interrupts: a proposal's blocks and   *)
(* its Status line agree, and enter the corpus in one step.                *)
(***************************************************************************)
EXTENDS ApplyOutcomeProofs

-----------------------------------------------------------------------------
(* What an applier that has the workspace can rely on.                     *)

\* Nobody dies, no op raises what execute_op does not catch, the governance
\* gate refuses nothing, every update of a Status line succeeds, nobody runs
\* rollback or wal-replay; ops and other writers keep to their own files and
\* blocks.
Calm == /\ ~Crashes /\ ~Escapes /\ ~Drift /\ ~MarkMayFail
        /\ Undisturbed

\* The files that ops write to.
Targets == UNION {Touched(p) : p \in Proposals}

\* Where it is: until it restores it may succeed, from its second look until
\* it has replaced the Status line its proposal is staged, and before that its
\* receipt says how it went.
OnCourse(a) ==
    /\ pc[a] = "idle" => prop[a] = None
    /\ pc[a] \in {"idle", "wait", "recheck", "replay", "list", "snapshot",
                  "precheck"} => op[a] = 1
    /\ pc[a] \in {"idle", "wait", "recheck", "replay", "list", "snapshot",
                  "precheck", "begin", "op", "commit", "undo", "postcheck",
                  "close"} => cause[a] = "ok"
    /\ pc[a] \notin {"idle", "wait", "recheck", "unlock"} =>
         status[prop[a]] = "staged"
    /\ pc[a] = "replace" => lines[a][prop[a]] = "staged"
    /\ pc[a] \in {"mark", "replace"} /\ cause[a] = "ok" =>
         receipt[prop[a]] = "applied"

\* What it can go back to: its listing and its snapshot name every target that
\* is there, and but for the blocks of its proposal the files it touches are
\* as they were saved.
IsListed(a) ==
    pc[a] \in {"snapshot", "precheck", "begin", "op", "commit", "undo",
               "postcheck", "close", "restore", "copy", "orphans"} =>
        Targets \cap present \subseteq listing[a]
IsSaved(a) ==
    pc[a] \in {"precheck", "begin", "op", "commit", "undo", "postcheck",
               "close", "restore", "copy"} =>
        LET s == snapshot[prop[a]] IN
        /\ s.files \subseteq Touched(prop[a]) \cap s.inventory \cap listing[a]
        /\ Targets \cap present \cap InRootsOf(Touched(prop[a])) \subseteq s.inventory
        /\ Touched(prop[a]) \cap present \subseteq s.files
        /\ \A f \in Touched(prop[a]) :
             content[f] \ Written(prop[a]) = s.saved[f]

\* The pending entry is that of its op, and undoing it does not go further
\* back than the snapshot.
Reversible(a) == pc[a] \in {"op", "commit", "undo"} =>
    LET s == snapshot[prop[a]] IN
    /\ journal # <<>> /\ journal[1].file = Op(a).file
    /\ journal[1].existed => Op(a).file \in s.files
    /\ journal[1].backup \ Written(prop[a]) = s.saved[Op(a).file]

\* How far it has got: which ops it has done, which files it has copied back,
\* and that nothing is left of its proposal after a restore.
HasDone(a) ==
    /\ pc[a] \in {"begin", "op", "commit"} =>
         \A i \in 1..(op[a] - 1) : OpBlocks(prop[a], i) \subseteq Live
    /\ \/ pc[a] \in {"postcheck", "close"}
       \/ pc[a] \in {"mark", "replace"} /\ cause[a] = "ok"
       => Written(prop[a]) \subseteq Live
HasUndone(a) ==
    /\ pc[a] = "copy" =>
         /\ todo[a] \subseteq snapshot[prop[a]].files
         /\ \A f \in snapshot[prop[a]].files \ todo[a] :
              content[f] \cap Written(prop[a]) = {}
    /\ \/ pc[a] \in {"orphans", "record"}
       \/ pc[a] \in {"mark", "replace"} /\ cause[a] # "ok"
       => Written(prop[a]) \cap Live = {}

\* No op is pending but that of an applier at work.
NothingPending == journal # <<>> =>
    \E a \in Appliers : pc[a] \in {"op", "commit", "undo"}

AtWork == \A a \in Appliers :
    /\ OnCourse(a) /\ IsListed(a) /\ IsSaved(a) /\ Reversible(a)
    /\ HasDone(a) /\ HasUndone(a)
CalmInv == /\ IInv /\ Homes /\ Once /\ OpWhole
           /\ AtWork /\ NothingPending /\ StatusTellsTheTruth

-----------------------------------------------------------------------------
(* The blocks and the files of a proposal.                                 *)

\* A proposal's blocks are at home in the files it touches.
LEMMA WrittenAtHome ==
    ASSUME Calm, NEW p \in Proposals
    PROVE  /\ Touched(p) \subseteq Files /\ Touched(p) \subseteq Targets
           /\ Written(p) \subseteq Blocks
           /\ \A b \in Written(p) : HomeOf[b] \in Touched(p)
<1>1. Touched(p) \subseteq Files
  BY FirstWrite DEF Touched, OpFiles
<1>2. ASSUME NEW b \in Written(p) PROVE b \in Blocks /\ HomeOf[b] \in Touched(p)
  <2>1. PICK i \in DOMAIN OpsOf[p] : b \in OpBlocks(p, i)
    BY DEF Written
  <2>2. b \in Blocks
    BY <2>1, FirstWrite DEF OpBlocks, ToSet
  <2>3. HomeOf[b] = OpsOf[p][i].file
    BY <2>1 DEF Calm, Undisturbed, OpsAreLocal
  <2>4. QED
    BY <2>2, <2>3 DEF Touched, OpFiles
<1>3. QED
  BY <1>1, <1>2 DEF Targets

\* Two proposals write different blocks.
LEMMA WrittenApart ==
    ASSUME Calm, NEW p \in Proposals, NEW q \in Proposals, p # q
    PROVE  Written(p) \cap Written(q) = {}
  BY DEF Calm, Undisturbed, OpsAreDistinct, Written

\* A writer's file is no target.
LEMMA WritersSpareTargets ==
    ASSUME Calm, IInv, OpWhole, NEW w \in Writers, ReplaceFile(w), NEW f \in Targets
    PROVE  content'[f] = content[f] /\ (f \in present' <=> f \in present)
<1>1. writing[w] \in Foreign
  BY DEF ReplaceFile, OpWhole, WritersAreForeign
<1>2. f \in Files /\ HomeOf[writing[w]] # f
  BY <1>1, WrittenAtHome DEF Calm, Undisturbed, WritersKeepOut, Targets
<1>3. QED
  BY <1>2 DEF ReplaceFile, PutBack, IInv, TypeOK

\* What LiveAtHome says of a state holds of the next one.
LEMMA LiveAtHomeNext ==
    ASSUME TypeOK', Homes', NEW b \in Blocks
    PROVE  b \in Live' <=> b \in content'[HomeOf[b]]
<1>1. ASSUME NEW f \in present', b \in content'[f] PROVE f = HomeOf[b]
  BY <1>1 DEF Homes, InTheirFiles, Housed, TypeOK
<1>2. HomeOf[b] \in Files /\ (b \in content'[HomeOf[b]] => HomeOf[b] \in present')
  BY HomesAreFiles DEF Homes, InTheirFiles
<1>3. QED
  BY <1>1, <1>2 DEF Live

\* A step that leaves the targets as they are leaves the proposals' blocks.
LEMMA SameBlocks ==
    ASSUME Calm, TypeOK, TypeOK', Homes, Homes', NEW p \in Proposals,
           NEW b \in Written(p), content'[HomeOf[b]] = content[HomeOf[b]]
    PROVE  b \in Live' <=> b \in Live
<1>1. b \in Blocks
  BY WrittenAtHome
<1>2. b \in Live <=> b \in content[HomeOf[b]]
  BY <1>1, LiveAtHome
<1>3. b \in Live' <=> b \in content'[HomeOf[b]]
  BY <1>1, LiveAtHomeNext
<1>4. QED
  BY <1>2, <1>3

-----------------------------------------------------------------------------
(* What the steps of the applier at work do to the targets.                *)

\* A write adds one of its proposal's blocks to a file that is there.
LEMMA WriteInPlace ==
    ASSUME Calm, CalmInv, NEW c \in Appliers, WriteBlock(c)
    PROVE  /\ prop[c] \in Proposals /\ op[c] \in DOMAIN OpsOf[prop[c]]
           /\ Op(c).file \in Touched(prop[c]) /\ Op(c).file \in present
           /\ present' = present
           /\ \E b \in OpBlocks(prop[c], op[c]) :
                /\ b \in Written(prop[c])
                /\ content' = [content EXCEPT ![Op(c).file] = @ \cup {b}]
<1>1. /\ pc[c] = "op" /\ prop[c] \in Proposals /\ op[c] \in DOMAIN OpsOf[prop[c]]
      /\ nth[c] \in DOMAIN Op(c).writes
  BY DEF WriteBlock, CalmInv, IInv, Equipped
<1>2. Op(c).file \in Touched(prop[c]) /\ Op(c).file \in Files
  BY <1>1, FirstWrite DEF Touched, OpFiles, Op
<1>3. PICK b \in Blocks :
        /\ b \in OpBlocks(prop[c], op[c]) /\ b \in Written(prop[c])
        /\ content' = [content EXCEPT ![HomeOf[b]] = @ \cup {b}]
        /\ present' = present \cup {HomeOf[b]}
  BY WriteGoesHome DEF CalmInv
<1>4. HomeOf[b] = Op(c).file
  BY <1>1, <1>3 DEF Calm, Undisturbed, OpsAreLocal, Op
<1>5. Op(c).file \in present
  <2>1. CASE nth[c] > 1
    <3>1. 1 \in 1..(nth[c] - 1)
      BY <1>1, <2>1, FirstWrite DEF Op
    <3>2. Op(c).writes[1] \in WritesSoFar(c)
      BY <1>1, <3>1 DEF WritesSoFar
    <3>3. content[Op(c).file] # {}
      BY <1>1, <3>2 DEF CalmInv, OpWhole, PendingIsOpen
    <3>4. QED
      BY <1>2, <3>3 DEF CalmInv, Homes, InTheirFiles
  <2>2. CASE ~(nth[c] > 1)
    BY <2>2 DEF WriteBlock
  <2>3. QED
    BY <2>1, <2>2
<1>6. QED
  BY <1>1, <1>2, <1>3, <1>4, <1>5

\* Nothing is left to replay.
LEMMA NothingToReplay ==
    ASSUME Calm, CalmInv, NEW c \in Appliers, Replay(c)
    PROVE  /\ journal = <<>> /\ UNCHANGED <<corpus, journal>>
           /\ pc' = [pc EXCEPT ![c] = "list"]
<1>1. pc[c] = "replay"
  BY DEF Replay
<1>2. \A a \in Appliers : pc[a] \notin {"op", "commit", "undo"}
  BY <1>1 DEF CalmInv, IInv, Exclusive
<1>3. journal = <<>>
  BY <1>2 DEF CalmInv, NothingPending
<1>4. QED
  BY <1>3 DEF Replay, Goto

\* A sweep removes no target.
LEMMA SweepsSpareTargets ==
    ASSUME Calm, CalmInv, NEW c \in Appliers, SweepOrphans(c) \/ CleanupOrphans(c),
           NEW f \in Targets
    PROVE  content'[f] = content[f] /\ (f \in present' <=> f \in present)
<1>1. f \in Files /\ (f \notin present => content[f] = {})
  BY WrittenAtHome DEF Targets, CalmInv, Homes, InTheirFiles
<1>2. CASE SweepOrphans(c)
  <2>1. f \in present =>
          f \notin InRootsOf(Touched(prop[c])) \ snapshot[prop[c]].inventory
    BY <1>2 DEF SweepOrphans, CalmInv, AtWork, IsSaved
  <2>2. QED
    BY <1>1, <1>2, <2>1, SweepErases DEF SweepOrphans, CalmInv, IInv
<1>3. CASE CleanupOrphans(c)
  <2>1. f \in present => f \in listing[c]
    BY <1>3 DEF CleanupOrphans, CalmInv, AtWork, IsListed
  <2>2. QED
    BY <1>1, <1>3, <2>1, SweepErases DEF CleanupOrphans, CalmInv, IInv
<1>4. QED
  BY <1>2, <1>3

\* Undoing an op takes its file back, but not beyond the snapshot.
LEMMA UndoPutsBack ==
    ASSUME Calm, CalmInv, NEW c \in Appliers, UndoOp(c)
    PROVE  /\ Op(c).file \in Touched(prop[c]) /\ prop[c] \in Proposals
           /\ Op(c).file \in Files
           /\ content' = [content EXCEPT ![Op(c).file] = journal[1].backup]
           /\ journal[1].backup \ Written(prop[c]) = snapshot[prop[c]].saved[Op(c).file]
           /\ present' \subseteq present \cup {Op(c).file}
           /\ present \subseteq present' \cup {Op(c).file}
           /\ Op(c).file \in present' => Op(c).file \in snapshot[prop[c]].files
<1>1. pc[c] = "undo" /\ prop[c] \in Proposals /\ op[c] \in DOMAIN OpsOf[prop[c]]
  BY DEF UndoOp, CalmInv, IInv, Equipped
<1>2. Op(c).file \in Touched(prop[c]) /\ Op(c).file \in Files
  BY <1>1, FirstWrite DEF Touched, OpFiles, Op
<1>3. /\ journal # <<>> /\ journal[1].file = Op(c).file
      /\ journal[1].existed => Op(c).file \in snapshot[prop[c]].files
      /\ journal[1].backup \ Written(prop[c]) = snapshot[prop[c]].saved[Op(c).file]
  BY <1>1 DEF CalmInv, AtWork, Reversible
<1>4. PutBack(Op(c).file, journal[1].existed, journal[1].backup)
  BY <1>3, TheEntry DEF UndoOp, CalmInv
<1>5. QED
  BY <1>1, <1>2, <1>3, <1>4 DEF PutBack

\* Copying a file back takes away the blocks of its proposal, no others.
LEMMA CopyPutsBack ==
    ASSUME Calm, CalmInv, NEW c \in Appliers, CopyBack(c)
    PROVE  /\ prop[c] \in Proposals /\ pc[c] = "copy"
           /\ \E f \in todo[c] :
                /\ f \in Touched(prop[c]) /\ f \in snapshot[prop[c]].files
                /\ content' = [content EXCEPT ![f] = content[f] \ Written(prop[c])]
                /\ present' = present \cup {f}
                /\ todo' = [todo EXCEPT ![c] = todo[c] \ {f}]
<1>1. prop[c] \in Proposals /\ pc[c] = "copy"
  BY DEF CopyBack, CalmInv, IInv, Equipped
<1>2. PICK f \in todo[c] :
        /\ content' = [content EXCEPT ![f] = snapshot[prop[c]].saved[f]]
        /\ present' = present \cup {f}
        /\ todo' = [todo EXCEPT ![c] = todo[c] \ {f}]
  BY CopyComesFromSnapshot DEF CalmInv
<1>3. f \in snapshot[prop[c]].files
  BY <1>1 DEF CalmInv, AtWork, HasUndone
<1>4. f \in Touched(prop[c])
  BY <1>1, <1>3 DEF CalmInv, AtWork, IsSaved
<1>5. snapshot[prop[c]].saved[f] = content[f] \ Written(prop[c])
  BY <1>1, <1>4 DEF CalmInv, AtWork, IsSaved
<1>6. QED
  BY <1>1, <1>2, <1>3, <1>4, <1>5

\* What a step of the applier at work leaves of the targets: all but its own
\* proposal's blocks, and every file it does not touch.
KeepsTargets(c) == \A f \in Targets :
    /\ content'[f] \ Written(prop[c]) = content[f] \ Written(prop[c])
    /\ f \notin Touched(prop[c]) =>
         content'[f] = content[f] /\ (f \in present' <=> f \in present)
    /\ f \in present' => f \in present \/ f \in snapshot[prop[c]].files

\* Every step of the applier at work keeps the targets.
LEMMA TargetsKept ==
    ASSUME Calm, CalmInv, NEW c \in Appliers, Own(c)
    PROVE  KeepsTargets(c)
<1>1. CASE TakeWorkspace(c)
  BY <1>1 DEF TakeWorkspace, corpus, KeepsTargets
<1>2. CASE WorkspaceTimeout(c)
  BY <1>2 DEF WorkspaceTimeout, corpus, KeepsTargets
<1>3. CASE Recheck(c)
  BY <1>3 DEF Recheck, corpus, KeepsTargets
<1>4. CASE Replay(c)
  BY <1>4, NothingToReplay DEF corpus, KeepsTargets
<1>5. CASE ListFiles(c)
  BY <1>5 DEF ListFiles, corpus, KeepsTargets
<1>6. CASE TakeSnapshot(c)
  BY <1>6 DEF TakeSnapshot, corpus, KeepsTargets
<1>7. CASE Unmeasurable(c)
  BY <1>7 DEF Unmeasurable, corpus, KeepsTargets
<1>8. CASE WriteReceipt(c)
  BY <1>8 DEF WriteReceipt, corpus, KeepsTargets
<1>9. CASE Begin(c)
  BY <1>9 DEF Begin, corpus, KeepsTargets
<1>10. CASE WriteBlock(c)
  <2>1. PICK b \in Written(prop[c]) :
          /\ content' = [content EXCEPT ![Op(c).file] = @ \cup {b}]
          /\ present' = present /\ Op(c).file \in Touched(prop[c])
    BY <1>10, WriteInPlace
  <2>2. Targets \subseteq Files
    BY WrittenAtHome DEF Targets
  <2>3. QED
    BY <2>1, <2>2 DEF KeepsTargets, CalmInv, IInv, TypeOK
<1>11. CASE OpFails(c)
  BY <1>11 DEF OpFails, corpus, KeepsTargets
<1>12. CASE OpEscapes(c)
  BY <1>12 DEF OpEscapes, corpus, KeepsTargets
<1>13. CASE Commit(c)
  BY <1>13 DEF Commit, corpus, KeepsTargets
<1>14. CASE PostCheck(c)
  BY <1>14 DEF PostCheck, corpus, KeepsTargets
<1>15. CASE Close(c)
  BY <1>15 DEF Close, corpus, KeepsTargets
<1>16. CASE UndoOp(c)
  <2>1. Targets \subseteq Files
    BY WrittenAtHome DEF Targets
  <2>2. content[Op(c).file] \ Written(prop[c]) = snapshot[prop[c]].saved[Op(c).file]
    BY <1>16, UndoPutsBack DEF UndoOp, CalmInv, AtWork, IsSaved
  <2>3. journal[1].backup \ Written(prop[c]) = content[Op(c).file] \ Written(prop[c])
    BY <1>16, <2>2, UndoPutsBack
  <2>4. \A f \in Targets \ {Op(c).file} :
          content'[f] = content[f] /\ (f \in present' <=> f \in present)
    BY <1>16, <2>1, UndoPutsBack DEF CalmInv, IInv, TypeOK
  <2>5. /\ content'[Op(c).file] = journal[1].backup
        /\ Op(c).file \in Touched(prop[c])
        /\ Op(c).file \in present' => Op(c).file \in snapshot[prop[c]].files
    BY <1>16, UndoPutsBack DEF CalmInv, IInv, TypeOK
  <2>6. QED
    BY <2>3, <2>4, <2>5 DEF KeepsTargets
<1>17. CASE OpenRestore(c)
  BY <1>17 DEF OpenRestore, corpus, KeepsTargets
<1>18. CASE CopyBack(c)
  <2>1. PICK f \in todo[c] :
          /\ f \in Touched(prop[c]) /\ f \in snapshot[prop[c]].files
          /\ content' = [content EXCEPT ![f] = content[f] \ Written(prop[c])]
          /\ present' = present \cup {f}
    BY <1>18, CopyPutsBack
  <2>2. Targets \subseteq Files
    BY WrittenAtHome DEF Targets
  <2>3. QED
    BY <2>1, <2>2 DEF KeepsTargets, CalmInv, IInv, TypeOK
<1>19. CASE SweepOrphans(c)
  BY <1>19, SweepsSpareTargets DEF KeepsTargets
<1>20. CASE CleanupOrphans(c)
  BY <1>20, SweepsSpareTargets DEF KeepsTargets
<1>21. CASE RecordRollback(c)
  BY <1>21 DEF RecordRollback, corpus, KeepsTargets
<1>22. CASE ReadLines(c)
  BY <1>22 DEF ReadLines, corpus, KeepsTargets
<1>23. CASE ReplaceLines(c)
  BY <1>23 DEF ReplaceLines, corpus, KeepsTargets
<1>24. CASE MarkFails(c)
  BY <1>24 DEF MarkFails, corpus, KeepsTargets
<1>25. CASE Unlock(c)
  BY <1>25 DEF Unlock, corpus, KeepsTargets
<1>26. CASE Crash(c)
  BY <1>26 DEF Crash, corpus, KeepsTargets
<1>27. QED
  BY <1>1, <1>2, <1>3, <1>4, <1>5, <1>6, <1>7, <1>8, <1>9, <1>10, <1>11,
     <1>12, <1>13, <1>14, <1>15, <1>16, <1>17, <1>18, <1>19, <1>20, <1>21,
     <1>22, <1>23, <1>24, <1>25, <1>26
  DEF Own, Step, Applying, Restoring, Marking

-----------------------------------------------------------------------------
(* The steps of the applier at work keep what it relies on.                *)

\* Where its listing, its snapshot and its pending entry come from.
SameListing(c) ==
    /\ pc[c] \in {"snapshot", "precheck", "begin", "op", "commit", "undo",
                  "postcheck", "close", "restore", "copy", "orphans"}
    /\ prop'[c] = prop[c] /\ listing'[c] = listing[c]
SameSnapshot(c) ==
    /\ pc[c] \in {"precheck", "begin", "op", "commit", "undo", "postcheck",
                  "close", "restore", "copy"}
    /\ prop'[c] = prop[c] /\ listing'[c] = listing[c] /\ snapshot' = snapshot
SameEntry(c) ==
    /\ pc[c] \in {"op", "commit", "undo"}
    /\ prop'[c] = prop[c] /\ op'[c] = op[c]
    /\ journal' = journal /\ snapshot' = snapshot
ListingFrame(c) ==
    pc'[c] \in {"snapshot", "precheck", "begin", "op", "commit", "undo",
                "postcheck", "close", "restore", "copy", "orphans"} =>
        SameListing(c) \/ ListFiles(c)
SnapshotKept(c) ==
    pc'[c] \in {"precheck", "begin", "op", "commit", "undo", "postcheck",
                "close", "restore", "copy"} =>
        SameSnapshot(c) \/ TakeSnapshot(c)
EntryFrame(c) ==
    pc'[c] \in {"op", "commit", "undo"} => SameEntry(c) \/ Begin(c)

\* They come from nowhere else.
LEMMA OwnFrames ==
    ASSUME Calm, CalmInv, NEW c \in Appliers, Own(c)
    PROVE  ListingFrame(c) /\ SnapshotKept(c) /\ EntryFrame(c)
<1>1. CASE TakeWorkspace(c)
  BY <1>1 DEF TakeWorkspace, Goto, corpus, ledger, others, locals, CalmInv,
     IInv, TypeOK, ListingFrame, SnapshotKept, EntryFrame, SameListing,
     SameSnapshot, SameEntry
<1>2. CASE WorkspaceTimeout(c)
  BY <1>2 DEF WorkspaceTimeout, Forget, corpus, ledger, others, Goto, CalmInv,
     IInv, TypeOK, ListingFrame, SnapshotKept, EntryFrame, SameListing,
     SameSnapshot, SameEntry
<1>3. CASE Recheck(c)
  BY <1>3 DEF Recheck, Goto, corpus, ledger, others, locals, CalmInv, IInv,
     TypeOK, ListingFrame, SnapshotKept, EntryFrame, SameListing,
     SameSnapshot, SameEntry
<1>4. CASE Replay(c)
  BY <1>4, NothingToReplay DEF CalmInv, IInv, TypeOK, ListingFrame, SnapshotKept,
     EntryFrame
<1>5. CASE ListFiles(c)
  BY <1>5 DEF ListFiles, Goto, corpus, ledger, others, CalmInv, IInv, TypeOK,
     ListingFrame, SnapshotKept, EntryFrame, SameListing, SameSnapshot,
     SameEntry
<1>6. CASE TakeSnapshot(c)
  BY <1>6 DEF TakeSnapshot, Goto, corpus, ledger, others, locals, CalmInv,
     IInv, TypeOK, ListingFrame, SnapshotKept, EntryFrame, SameListing,
     SameSnapshot, SameEntry
<1>7. CASE Unmeasurable(c)
  BY <1>7 DEF Unmeasurable, Goto, corpus, ledger, others, CalmInv, IInv,
     TypeOK, ListingFrame, SnapshotKept, EntryFrame, SameListing,
     SameSnapshot, SameEntry
<1>8. CASE WriteReceipt(c)
  BY <1>8 DEF WriteReceipt, Goto, corpus, ledger, others, locals, CalmInv,
     IInv, TypeOK, ListingFrame, SnapshotKept, EntryFrame, SameListing,
     SameSnapshot, SameEntry
<1>9. CASE Begin(c)
  BY <1>9 DEF Begin, Goto, corpus, ledger, others, locals, CalmInv, IInv,
     TypeOK, ListingFrame, SnapshotKept, EntryFrame, SameListing,
     SameSnapshot, SameEntry
<1>10. CASE WriteBlock(c)
  BY <1>10 DEF WriteBlock, Goto, ledger, others, CalmInv, IInv, TypeOK,
     ListingFrame, SnapshotKept, EntryFrame, SameListing, SameSnapshot,
     SameEntry
<1>11. CASE OpFails(c)
  BY <1>11 DEF OpFails, Goto, corpus, ledger, others, locals, CalmInv, IInv,
     TypeOK, ListingFrame, SnapshotKept, EntryFrame, SameListing,
     SameSnapshot, SameEntry
<1>12. CASE OpEscapes(c)
  BY <1>12 DEF OpEscapes, Goto, corpus, ledger, others, locals, CalmInv, IInv,
     TypeOK, ListingFrame, SnapshotKept, EntryFrame, SameListing,
     SameSnapshot, SameEntry
<1>13. CASE Commit(c)
  BY <1>13 DEF Commit, Goto, corpus, ledger, others, CalmInv, IInv, TypeOK,
     ListingFrame, SnapshotKept, EntryFrame, SameListing, SameSnapshot,
     SameEntry
<1>14. CASE PostCheck(c)
  BY <1>14 DEF PostCheck, Goto, corpus, ledger, others, CalmInv, IInv, TypeOK,
     ListingFrame, SnapshotKept, EntryFrame, SameListing, SameSnapshot,
     SameEntry
<1>15. CASE Close(c)
  BY <1>15 DEF Close, Goto, corpus, ledger, others, locals, CalmInv, IInv,
     TypeOK, ListingFrame, SnapshotKept, EntryFrame, SameListing,
     SameSnapshot, SameEntry
<1>16. CASE UndoOp(c)
  BY <1>16 DEF UndoOp, Goto, corpus, ledger, others, CalmInv, IInv, TypeOK,
     ListingFrame, SnapshotKept, EntryFrame, SameListing, SameSnapshot,
     SameEntry
<1>17. CASE OpenRestore(c)
  BY <1>17 DEF OpenRestore, Goto, corpus, ledger, others, CalmInv, IInv,
     TypeOK, ListingFrame, SnapshotKept, EntryFrame, SameListing,
     SameSnapshot, SameEntry
<1>18. CASE CopyBack(c)
  BY <1>18 DEF CopyBack, ledger, others, CalmInv, IInv, TypeOK, ListingFrame,
     SnapshotKept, EntryFrame, SameListing, SameSnapshot, SameEntry
<1>19. CASE SweepOrphans(c)
  BY <1>19 DEF SweepOrphans, Goto, ledger, others, locals, CalmInv, IInv,
     TypeOK, ListingFrame, SnapshotKept, EntryFrame, SameListing,
     SameSnapshot, SameEntry
<1>20. CASE CleanupOrphans(c)
  BY <1>20 DEF CleanupOrphans, Goto, ledger, others, locals, CalmInv, IInv,
     TypeOK, ListingFrame, SnapshotKept, EntryFrame, SameListing,
     SameSnapshot, SameEntry
<1>21. CASE RecordRollback(c)
  BY <1>21 DEF RecordRollback, Goto, corpus, ledger, others, locals, CalmInv,
     IInv, TypeOK, ListingFrame, SnapshotKept, EntryFrame, SameListing,
     SameSnapshot, SameEntry
<1>22. CASE ReadLines(c)
  BY <1>22 DEF ReadLines, Goto, corpus, others, locals, CalmInv, IInv, TypeOK,
     ListingFrame, SnapshotKept, EntryFrame, SameListing, SameSnapshot,
     SameEntry
<1>23. CASE ReplaceLines(c)
  BY <1>23 DEF ReplaceLines, Goto, corpus, others, locals, CalmInv, IInv,
     TypeOK, ListingFrame, SnapshotKept, EntryFrame, SameListing,
     SameSnapshot, SameEntry
<1>24. CASE MarkFails(c)
  BY <1>24 DEF MarkFails, Goto, corpus, ledger, others, locals, CalmInv, IInv,
     TypeOK, ListingFrame, SnapshotKept, EntryFrame, SameListing,
     SameSnapshot, SameEntry
<1>25. CASE Unlock(c)
  BY <1>25 DEF Unlock, Forget, ReleaseIf, corpus, ledger, others, Goto,
     CalmInv, IInv, TypeOK, ListingFrame, SnapshotKept, EntryFrame,
     SameListing, SameSnapshot, SameEntry
<1>26. CASE Crash(c)
  BY <1>26 DEF Crash, Forget, ReleaseIf, corpus, others, Goto, CalmInv, IInv,
     TypeOK, ListingFrame, SnapshotKept, EntryFrame, SameListing,
     SameSnapshot, SameEntry
<1>27. QED
  BY <1>1, <1>2, <1>3, <1>4, <1>5, <1>6, <1>7, <1>8, <1>9, <1>10, <1>11,
     <1>12, <1>13, <1>14, <1>15, <1>16, <1>17, <1>18, <1>19, <1>20, <1>21,
     <1>22, <1>23, <1>24, <1>25, <1>26
  DEF Own, Step, Applying, Restoring, Marking

\* Nobody else has got past waiting for the workspace.
LEMMA HolderIsAlone ==
    ASSUME Calm, CalmInv, NEW c \in Appliers, pc[c] \notin {"idle", "wait"}
    PROVE  \A a \in Appliers \ {c} : pc[a] \in {"idle", "wait"}
  BY DEF Calm, Undisturbed, CalmInv, Once, Alone

\* After its listing an applier takes a snapshot, after a sweep it cleans up.
LEMMA OwnAtEnds ==
    ASSUME Calm, NEW c \in Appliers, Own(c)
    PROVE  /\ pc[c] = "snapshot" => TakeSnapshot(c)
           /\ pc[c] = "orphans" => CleanupOrphans(c)
<1>1. CASE TakeWorkspace(c)
  BY <1>1 DEF TakeWorkspace, Goto, corpus, ledger, others, locals, Calm
<1>2. CASE WorkspaceTimeout(c)
  BY <1>2 DEF WorkspaceTimeout, Forget, corpus, ledger, others, Goto, Calm
<1>3. CASE Recheck(c)
  BY <1>3 DEF Recheck, Goto, corpus, ledger, others, locals, Calm
<1>4. CASE Replay(c)
  BY <1>4 DEF Replay, Goto, corpus, ledger, others, locals, Calm
<1>5. CASE ListFiles(c)
  BY <1>5 DEF ListFiles, Goto, corpus, ledger, others, Calm
<1>6. CASE TakeSnapshot(c)
  BY <1>6 DEF TakeSnapshot, Goto, corpus, ledger, others, locals, Calm
<1>7. CASE Unmeasurable(c)
  BY <1>7 DEF Unmeasurable, Goto, corpus, ledger, others, Calm
<1>8. CASE WriteReceipt(c)
  BY <1>8 DEF WriteReceipt, Goto, corpus, ledger, others, locals, Calm
<1>9. CASE Begin(c)
  BY <1>9 DEF Begin, Goto, corpus, ledger, others, locals, Calm
<1>10. CASE WriteBlock(c)
  BY <1>10 DEF WriteBlock, Goto, ledger, others, Calm
<1>11. CASE OpFails(c)
  BY <1>11 DEF OpFails, Goto, corpus, ledger, others, locals, Calm
<1>12. CASE OpEscapes(c)
  BY <1>12 DEF OpEscapes, Goto, corpus, ledger, others, locals, Calm
<1>13. CASE Commit(c)
  BY <1>13 DEF Commit, Goto, corpus, ledger, others, Calm
<1>14. CASE PostCheck(c)
  BY <1>14 DEF PostCheck, Goto, corpus, ledger, others, Calm
<1>15. CASE Close(c)
  BY <1>15 DEF Close, Goto, corpus, ledger, others, locals, Calm
<1>16. CASE UndoOp(c)
  BY <1>16 DEF UndoOp, Goto, corpus, ledger, others, Calm
<1>17. CASE OpenRestore(c)
  BY <1>17 DEF OpenRestore, Goto, corpus, ledger, others, Calm
<1>18. CASE CopyBack(c)
  BY <1>18 DEF CopyBack, ledger, others, Calm
<1>19. CASE SweepOrphans(c)
  BY <1>19 DEF SweepOrphans, Goto, ledger, others, locals, Calm
<1>20. CASE CleanupOrphans(c)
  BY <1>20 DEF CleanupOrphans, Goto, ledger, others, locals, Calm
<1>21. CASE RecordRollback(c)
  BY <1>21 DEF RecordRollback, Goto, corpus, ledger, others, locals, Calm
<1>22. CASE ReadLines(c)
  BY <1>22 DEF ReadLines, Goto, corpus, others, locals, Calm
<1>23. CASE ReplaceLines(c)
  BY <1>23 DEF ReplaceLines, Goto, corpus, others, locals, Calm
<1>24. CASE MarkFails(c)
  BY <1>24 DEF MarkFails, Goto, corpus, ledger, others, locals, Calm
<1>25. CASE Unlock(c)
  BY <1>25 DEF Unlock, Forget, ReleaseIf, corpus, ledger, others, Goto, Calm
<1>26. CASE Crash(c)
  BY <1>26 DEF Crash, Forget, ReleaseIf, corpus, others, Goto, Calm
<1>27. QED
  BY <1>1, <1>2, <1>3, <1>4, <1>5, <1>6, <1>7, <1>8, <1>9, <1>10, <1>11,
     <1>12, <1>13, <1>14, <1>15, <1>16, <1>17, <1>18, <1>19, <1>20, <1>21,
     <1>22, <1>23, <1>24, <1>25, <1>26
  DEF Own, Step, Applying, Restoring, Marking

\* What an applier has listed and saved stays good.
LEMMA BaselineStep ==
    ASSUME Calm, CalmInv, IInv', NEW c \in Appliers, Own(c)
    PROVE  IsListed(c)' /\ IsSaved(c)'
<1>1. TypeOK /\ TypeOK' /\ Equipped
  BY DEF CalmInv, IInv
<1>2. KeepsTargets(c)
  BY TargetsKept
<1>3. ListingFrame(c) /\ SnapshotKept(c)
  BY OwnFrames
<1>4. CASE ListFiles(c)
  <2>1. /\ listing'[c] = present /\ pc'[c] = "snapshot" /\ present' = present
    BY <1>1, <1>4 DEF ListFiles, Goto, corpus, TypeOK
  <2>2. QED
    BY <2>1 DEF IsListed, IsSaved
<1>5. CASE TakeSnapshot(c)
  <2>1. /\ prop[c] \in Proposals /\ prop'[c] = prop[c] /\ listing'[c] = listing[c]
        /\ content' = content /\ present' = present /\ pc[c] = "snapshot"
    BY <1>1, <1>5 DEF TakeSnapshot, Equipped, locals, corpus
  <2>2. snapshot'[prop[c]] =
          [files     |-> Touched(prop[c]) \cap present,
           saved     |-> [f \in Files |-> IF f \in Touched(prop[c]) THEN content[f] ELSE {}],
           inventory |-> InRootsOf(Touched(prop[c])) \cap present]
    BY <1>1, <1>5, <2>1 DEF TakeSnapshot, TypeOK
  <2>3. Targets \cap present \subseteq listing[c]
    BY <2>1 DEF CalmInv, AtWork, IsListed
  <2>4. \A f \in Touched(prop[c]) : content[f] \cap Written(prop[c]) = {}
    <3> SUFFICES ASSUME NEW f \in Touched(prop[c]), NEW b \in Written(prop[c]),
                        b \in content[f]
                 PROVE  FALSE
      OBVIOUS
    <3>1. f \in Files /\ b \in Blocks
      BY <2>1, WrittenAtHome
    <3>2. f = HomeOf[b]
      BY <3>1 DEF CalmInv, Homes, InTheirFiles, Housed
    <3>3. b \in Live
      BY <1>1, <3>1, <3>2, LiveAtHome DEF CalmInv
    <3>4. status[prop[c]] = "staged"
      BY <2>1 DEF CalmInv, AtWork, OnCourse
    <3>5. prop[c] \notin UnderWay
      <4>1. \A a \in Appliers \ {c} : pc[a] \in {"idle", "wait"}
        BY <2>1, HolderIsAlone
      <4>2. \A a \in Appliers : pc[a] = "idle" => prop[a] = None
        BY DEF CalmInv, AtWork, OnCourse
      <4>3. QED
        BY <2>1, <4>1, <4>2, ProposalsAreValid DEF UnderWay
    <3>6. QED
      BY <2>1, <3>3, <3>4, <3>5 DEF CalmInv, StatusTellsTheTruth
  <2>5. Touched(prop[c]) \subseteq Files /\ Touched(prop[c]) \subseteq Targets
    BY <2>1, WrittenAtHome
  <2>6. Touched(prop[c]) \cap present \subseteq InRootsOf(Touched(prop[c])) \cap present
    BY <2>5 DEF InRootsOf
  <2>7. IsSaved(c)'
    BY <2>1, <2>2, <2>3, <2>4, <2>5, <2>6 DEF IsSaved
  <2>8. IsListed(c)'
    BY <2>1, <2>3 DEF IsListed
  <2>9. QED
    BY <2>7, <2>8
<1>6. IsSaved(c)'
  <2>1. CASE SameSnapshot(c)
    <3>1. prop[c] \in Proposals
      BY <1>1, <2>1 DEF SameSnapshot, Equipped
    <3>2. Touched(prop[c]) \subseteq Targets
      BY <3>1, WrittenAtHome
    <3> DEFINE s == snapshot[prop[c]]
    <3>3. /\ s.files \subseteq Touched(prop[c]) \cap s.inventory \cap listing[c]
          /\ Targets \cap present \cap InRootsOf(Touched(prop[c])) \subseteq s.inventory
          /\ Touched(prop[c]) \cap present \subseteq s.files
          /\ \A f \in Touched(prop[c]) :
               content[f] \ Written(prop[c]) = s.saved[f]
      BY <2>1 DEF SameSnapshot, CalmInv, AtWork, IsSaved
    <3>4. \A f \in Targets : f \in present' => f \in present \/ f \in s.files
      BY <1>2 DEF KeepsTargets
    <3>5. \A f \in Touched(prop[c]) :
             content'[f] \ Written(prop[c]) = content[f] \ Written(prop[c])
      BY <1>2, <3>2 DEF KeepsTargets
    <3>6. QED
      BY <2>1, <3>2, <3>3, <3>4, <3>5 DEF SameSnapshot, IsSaved
  <2>2. CASE pc'[c] \notin {"precheck", "begin", "op", "commit", "undo",
                            "postcheck", "close", "restore", "copy"}
    BY <2>2 DEF IsSaved
  <2>3. QED
    BY <1>3, <1>5, <2>1, <2>2 DEF SnapshotKept
<1>7. IsListed(c)'
  <2>1. CASE SameListing(c)
    <3>1. \A f \in Targets : f \in present' => f \in listing[c]
      <4>1. Targets \cap present \subseteq listing[c]
        BY <2>1 DEF SameListing, CalmInv, AtWork, IsListed
      <4>2. CASE UNCHANGED present
        BY <4>1, <4>2
      <4>3. CASE pc[c] \in {"precheck", "begin", "op", "commit", "undo",
                            "postcheck", "close", "restore", "copy"}
        <5>1. snapshot[prop[c]].files \subseteq listing[c]
          BY <4>3 DEF CalmInv, AtWork, IsSaved
        <5>2. QED
          BY <1>2, <4>1, <5>1 DEF KeepsTargets
      <4>4. CASE pc[c] = "snapshot" \/ pc[c] = "orphans"
        <5>1. TakeSnapshot(c) \/ CleanupOrphans(c)
          BY <4>4, OwnAtEnds
        <5>2. QED
          BY <4>1, <4>2, <5>1, SweepsSpareTargets DEF TakeSnapshot, corpus
      <4>5. QED
        BY <2>1, <4>3, <4>4 DEF SameListing
    <3>2. QED
      BY <2>1, <3>1 DEF SameListing, IsListed
  <2>2. CASE pc'[c] \notin {"snapshot", "precheck", "begin", "op", "commit",
                            "undo", "postcheck", "close", "restore", "copy",
                            "orphans"}
    BY <2>2 DEF IsListed
  <2>3. QED
    BY <1>3, <1>4, <2>1, <2>2 DEF ListingFrame
<1>8. QED
  BY <1>6, <1>7

\* What an applier has pending stays what it may undo.
LEMMA ReversibleStep ==
    ASSUME Calm, CalmInv, NEW c \in Appliers, Own(c)
    PROVE  Reversible(c)'
<1>1. TypeOK /\ Equipped
  BY DEF CalmInv, IInv
<1>2. EntryFrame(c)
  BY OwnFrames
<1>3. CASE SameEntry(c)
  BY <1>3 DEF SameEntry, CalmInv, AtWork, Reversible, Op
<1>4. CASE Begin(c)
  <2>1. /\ prop[c] \in Proposals /\ op[c] \in DOMAIN OpsOf[prop[c]]
        /\ journal = <<>>
    BY <1>4 DEF Begin, CalmInv, IInv, Equipped, CleanStart
  <2>2. /\ journal' = <<[file |-> Op(c).file, existed |-> Op(c).file \in present,
                         backup |-> content[Op(c).file]]>>
        /\ prop' = prop /\ op' = op /\ snapshot' = snapshot
    BY <1>4, <2>1 DEF Begin, locals
  <2>3. Op(c).file \in Touched(prop[c])
    BY <2>1 DEF Touched, OpFiles, Op
  <2>4. /\ Touched(prop[c]) \cap present \subseteq snapshot[prop[c]].files
        /\ content[Op(c).file] \ Written(prop[c]) = snapshot[prop[c]].saved[Op(c).file]
    BY <1>4, <2>3 DEF Begin, CalmInv, AtWork, IsSaved
  <2>5. QED
    BY <2>2, <2>3, <2>4 DEF Reversible, Op
<1>5. CASE pc'[c] \notin {"op", "commit", "undo"}
  BY <1>5 DEF Reversible
<1>6. QED
  BY <1>2, <1>3, <1>4, <1>5 DEF EntryFrame

\* What every step below starts from.
LEMMA AtWorkNow ==
    ASSUME CalmInv, NEW c \in Appliers
    PROVE  /\ TypeOK /\ Equipped /\ OnCourse(c)
           /\ pc[c] # "idle" => prop[c] \in Proposals
           /\ pc[c] \in {"restore", "copy", "orphans", "record"} => cause[c] # "ok"
  BY DEF CalmInv, AtWork, IInv, Equipped, Once, HasAChance

\* It stays on its course.
LEMMA CourseStep ==
    ASSUME Calm, CalmInv, NEW c \in Appliers, Own(c)
    PROVE  OnCourse(c)'
<1>1. CASE TakeWorkspace(c)
  BY <1>1, AtWorkNow DEF TakeWorkspace, Goto, corpus, ledger, others, locals,
     Calm, Undisturbed, TypeOK, OnCourse
<1>2. CASE WorkspaceTimeout(c)
  BY <1>2, AtWorkNow DEF WorkspaceTimeout, Forget, corpus, ledger, others,
     Goto, Calm, Undisturbed, TypeOK, OnCourse
<1>3. CASE Recheck(c)
  BY <1>3, AtWorkNow DEF Recheck, Goto, corpus, ledger, others, locals, Calm,
     Undisturbed, TypeOK, OnCourse
<1>4. CASE Replay(c)
  <2>1. /\ pc[c] = "replay" /\ pc'[c] \in {"replay", "list"}
        /\ UNCHANGED <<status, lines, receipt, prop, op, cause>>
    BY <1>4, AtWorkNow, NothingToReplay DEF Replay, Goto, corpus, ledger,
       others, locals, Calm, TypeOK
  <2>2. QED
    BY <2>1, AtWorkNow DEF OnCourse
<1>5. CASE ListFiles(c)
  <2>1. /\ pc[c] = "list" /\ pc'[c] = "snapshot"
        /\ UNCHANGED <<status, lines, receipt, prop, op, cause>>
    BY <1>5, AtWorkNow DEF ListFiles, Goto, corpus, ledger, others, Calm, TypeOK
  <2>2. QED
    BY <2>1, AtWorkNow DEF OnCourse
<1>6. CASE TakeSnapshot(c)
  <2>1. /\ pc[c] = "snapshot" /\ pc'[c] = "precheck"
        /\ UNCHANGED <<status, lines, prop, op, cause>>
    BY <1>6, AtWorkNow DEF TakeSnapshot, Goto, corpus, ledger, others, locals,
       Calm, TypeOK
  <2>2. QED
    BY <2>1, AtWorkNow DEF OnCourse
<1>7. CASE Unmeasurable(c)
  <2>1. /\ pc[c] = "precheck" /\ pc'[c] = "restore"
        /\ UNCHANGED <<status, lines, prop, op>>
    BY <1>7, AtWorkNow DEF Unmeasurable, Goto, corpus, ledger, others, Calm,
       TypeOK
  <2>2. QED
    BY <2>1, AtWorkNow DEF OnCourse
<1>8. CASE WriteReceipt(c)
  <2>1. /\ pc[c] = "precheck" /\ pc'[c] = "begin"
        /\ UNCHANGED <<status, lines, prop, op, cause>>
    BY <1>8, AtWorkNow DEF WriteReceipt, Goto, corpus, ledger, others, locals,
       Calm, TypeOK
  <2>2. QED
    BY <2>1, AtWorkNow DEF OnCourse
<1>9. CASE Begin(c)
  BY <1>9, AtWorkNow DEF Begin, Goto, corpus, ledger, others, locals, Calm,
     Undisturbed, TypeOK, OnCourse
<1>10. CASE WriteBlock(c)
  BY <1>10, AtWorkNow DEF WriteBlock, Goto, ledger, others, Calm, Undisturbed,
     TypeOK, OnCourse
<1>11. CASE OpFails(c)
  BY <1>11, AtWorkNow DEF OpFails, Goto, corpus, ledger, others, locals, Calm,
     Undisturbed, TypeOK, OnCourse
<1>12. CASE OpEscapes(c)
  BY <1>12, AtWorkNow DEF OpEscapes, Goto, corpus, ledger, others, locals,
     Calm, Undisturbed, TypeOK, OnCourse
<1>13. CASE Commit(c)
  BY <1>13, AtWorkNow DEF Commit, Goto, corpus, ledger, others, Calm,
     Undisturbed, TypeOK, OnCourse
<1>14. CASE PostCheck(c)
  BY <1>14, AtWorkNow DEF PostCheck, Goto, corpus, ledger, others, Calm,
     Undisturbed, TypeOK, OnCourse
<1>15. CASE Close(c)
  BY <1>15, AtWorkNow DEF Close, Goto, corpus, ledger, others, locals, Calm,
     Undisturbed, TypeOK, OnCourse
<1>16. CASE UndoOp(c)
  BY <1>16, AtWorkNow DEF UndoOp, Goto, corpus, ledger, others, Calm,
     Undisturbed, TypeOK, OnCourse
<1>17. CASE OpenRestore(c)
  BY <1>17, AtWorkNow DEF OpenRestore, Goto, corpus, ledger, others, Calm,
     Undisturbed, TypeOK, OnCourse
<1>18. CASE CopyBack(c)
  BY <1>18, AtWorkNow DEF CopyBack, ledger, others, Calm, Undisturbed, TypeOK,
     OnCourse
<1>19. CASE SweepOrphans(c)
  BY <1>19, AtWorkNow DEF SweepOrphans, Goto, ledger, others, locals, Calm,
     Undisturbed, TypeOK, OnCourse
<1>20. CASE CleanupOrphans(c)
  BY <1>20, AtWorkNow DEF CleanupOrphans, Goto, ledger, others, locals, Calm,
     Undisturbed, TypeOK, OnCourse
<1>21. CASE RecordRollback(c)
  BY <1>21, AtWorkNow DEF RecordRollback, Goto, corpus, ledger, others,
     locals, Calm, Undisturbed, TypeOK, OnCourse
<1>22. CASE ReadLines(c)
  BY <1>22, AtWorkNow DEF ReadLines, Goto, corpus, others, locals, Calm,
     Undisturbed, TypeOK, OnCourse
<1>23. CASE ReplaceLines(c)
  BY <1>23, AtWorkNow DEF ReplaceLines, Goto, corpus, others, locals, Calm,
     Undisturbed, TypeOK, OnCourse
<1>24. CASE MarkFails(c)
  BY <1>24, AtWorkNow DEF MarkFails, Goto, corpus, ledger, others, locals,
     Calm, Undisturbed, TypeOK, OnCourse
<1>25. CASE Unlock(c)
  BY <1>25, AtWorkNow DEF Unlock, Forget, ReleaseIf, corpus, ledger, others,
     Goto, Calm, Undisturbed, TypeOK, OnCourse
<1>26. CASE Crash(c)
  BY <1>26, AtWorkNow DEF Crash, Forget, ReleaseIf, corpus, others, Goto,
     Calm, Undisturbed, TypeOK, OnCourse
<1>27. QED
  BY <1>1, <1>2, <1>3, <1>4, <1>5, <1>6, <1>7, <1>8, <1>9, <1>10, <1>11,
     <1>12, <1>13, <1>14, <1>15, <1>16, <1>17, <1>18, <1>19, <1>20, <1>21,
     <1>22, <1>23, <1>24, <1>25, <1>26
  DEF Own, Step, Applying, Restoring, Marking

-----------------------------------------------------------------------------
(* How far it has got.                                                     *)

\* What the corpus does, the live blocks do.
LEMMA LiveStays == UNCHANGED corpus => Live' = Live
  BY DEF corpus, Live

\* A write takes no block away.
LEMMA LiveGrows ==
    ASSUME Calm, CalmInv, NEW c \in Appliers, WriteBlock(c)
    PROVE  Live \subseteq Live'
<1>1. PICK b \in Blocks :
        /\ HomeOf[b] \in Files
        /\ content' = [content EXCEPT ![HomeOf[b]] = @ \cup {b}]
        /\ present' = present \cup {HomeOf[b]}
  BY WriteGoesHome DEF CalmInv
<1>2. \A f \in Files : content[f] \subseteq content'[f]
  BY <1>1 DEF CalmInv, IInv, TypeOK
<1>3. present \subseteq Files /\ present \subseteq present'
  BY <1>1 DEF CalmInv, IInv, TypeOK
<1>4. QED
  BY <1>2, <1>3 DEF Live

\* When the last write of an op is done, it and those before it are.
LEMMA OpIsDone ==
    ASSUME Calm, CalmInv, NEW c \in Appliers, pc[c] = "commit"
    PROVE  \A i \in 1..op[c] : OpBlocks(prop[c], i) \subseteq Live
<1>1. prop[c] \in Proposals /\ op[c] \in DOMAIN OpsOf[prop[c]] /\ op[c] \in Nat
  BY DEF CalmInv, IInv, Equipped, TypeOK
<1>2. content[Op(c).file] = journal[1].backup \cup WritesSoFar(c)
  BY DEF CalmInv, OpWhole, PendingIsOpen
<1>3. OpBlocks(prop[c], op[c]) \subseteq content[Op(c).file]
  <2>1. DOMAIN Op(c).writes = 1..Len(Op(c).writes)
    BY <1>1, FirstWrite DEF Op
  <2>2. QED
    BY <1>2, <2>1, WritesAreBlocks DEF WritesSoFar
<1>4. \A b \in OpBlocks(prop[c], op[c]) : b \in Blocks /\ HomeOf[b] = Op(c).file
  <2>1. \A b \in OpBlocks(prop[c], op[c]) : HomeOf[b] = Op(c).file
    BY <1>1 DEF Calm, Undisturbed, OpsAreLocal, Op
  <2>2. QED
    BY <1>1, <2>1, FirstWrite DEF OpBlocks, ToSet
<1>5. OpBlocks(prop[c], op[c]) \subseteq Live
  BY <1>3, <1>4, LiveAtHome DEF CalmInv, IInv
<1>6. \A i \in 1..(op[c] - 1) : OpBlocks(prop[c], i) \subseteq Live
  BY DEF CalmInv, AtWork, HasDone
<1>7. QED
  BY <1>1, <1>5, <1>6

\* Where a step leaves an applier that has something done.
DoneFrame(c) ==
    /\ pc'[c] \in {"begin", "op", "commit"} =>
         \/ op'[c] = 1
         \/ /\ pc[c] \in {"begin", "op"} /\ prop'[c] = prop[c] /\ op'[c] = op[c]
            /\ UNCHANGED corpus \/ WriteBlock(c)
         \/ /\ pc[c] = "commit" /\ prop'[c] = prop[c] /\ op'[c] = op[c] + 1
            /\ UNCHANGED corpus
    /\ pc'[c] \in {"postcheck", "close"} \/ (pc'[c] \in {"mark", "replace"} /\ cause'[c] = "ok") =>
         \/ /\ pc[c] \in {"postcheck", "close"}
               \/ (pc[c] \in {"mark", "replace"} /\ cause[c] = "ok")
            /\ prop'[c] = prop[c] /\ UNCHANGED corpus
         \/ /\ pc[c] = "commit" /\ prop'[c] = prop[c]
            /\ op[c] = Len(OpsOf[prop[c]]) /\ UNCHANGED corpus

\* That is all that happens.
LEMMA DoneSteps ==
    ASSUME Calm, CalmInv, NEW c \in Appliers, Own(c)
    PROVE  DoneFrame(c)
<1>1. CASE TakeWorkspace(c)
  BY <1>1, AtWorkNow DEF TakeWorkspace, Goto, corpus, ledger, others, locals,
     Calm, OnCourse, TypeOK, DoneFrame
<1>2. CASE WorkspaceTimeout(c)
  BY <1>2, AtWorkNow DEF WorkspaceTimeout, Forget, corpus, ledger, others,
     Goto, Calm, OnCourse, TypeOK, DoneFrame
<1>3. CASE Recheck(c)
  BY <1>3, AtWorkNow DEF Recheck, Goto, corpus, ledger, others, locals, Calm,
     OnCourse, TypeOK, DoneFrame
<1>4. CASE Replay(c)
  BY <1>4, NothingToReplay, AtWorkNow DEF Replay, locals, TypeOK, DoneFrame
<1>5. CASE ListFiles(c)
  BY <1>5, AtWorkNow DEF ListFiles, Goto, corpus, ledger, others, Calm,
     OnCourse, TypeOK, DoneFrame
<1>6. CASE TakeSnapshot(c)
  BY <1>6, AtWorkNow DEF TakeSnapshot, Goto, corpus, ledger, others, locals,
     Calm, OnCourse, TypeOK, DoneFrame
<1>7. CASE Unmeasurable(c)
  BY <1>7, AtWorkNow DEF Unmeasurable, Goto, corpus, ledger, others, Calm,
     OnCourse, TypeOK, DoneFrame
<1>8. CASE WriteReceipt(c)
  BY <1>8, AtWorkNow DEF WriteReceipt, Goto, corpus, ledger, others, locals,
     Calm, OnCourse, TypeOK, DoneFrame
<1>9. CASE Begin(c)
  BY <1>9, AtWorkNow DEF Begin, Goto, corpus, ledger, others, locals, Calm,
     OnCourse, TypeOK, DoneFrame
<1>10. CASE WriteBlock(c)
  BY <1>10, AtWorkNow DEF WriteBlock, Goto, ledger, others, Calm, OnCourse,
     TypeOK, DoneFrame
<1>11. CASE OpFails(c)
  BY <1>11, AtWorkNow DEF OpFails, Goto, corpus, ledger, others, locals, Calm,
     OnCourse, TypeOK, DoneFrame
<1>12. CASE OpEscapes(c)
  BY <1>12, AtWorkNow DEF OpEscapes, Goto, corpus, ledger, others, locals,
     Calm, OnCourse, TypeOK, DoneFrame
<1>13. CASE Commit(c)
  <2>1. /\ pc[c] = "commit" /\ prop' = prop /\ UNCHANGED corpus
        /\ op[c] \in 1..Len(OpsOf[prop[c]])
    BY <1>13, AtWorkNow, FirstWrite, ProposalsAreValid DEF Commit, Equipped
  <2>2. CASE op[c] < Len(OpsOf[prop[c]])
    BY <1>13, <2>1, <2>2, AtWorkNow DEF Commit, Goto, DoneFrame, TypeOK
  <2>3. CASE ~(op[c] < Len(OpsOf[prop[c]]))
    <3>1. op[c] = Len(OpsOf[prop[c]])
      <4>1. OpsOf[prop[c]] \in Seq([file : Files, writes : Seq(Blocks)])
        BY <1>13, <2>1, AtWorkNow, ProposalsAreValid
      <4>2. Len(OpsOf[prop[c]]) \in Nat
        BY <4>1
      <4>3. QED
        BY <2>1, <2>3, <4>2
    <3>2. QED
      BY <1>13, <2>1, <2>3, <3>1, AtWorkNow DEF Commit, Goto, DoneFrame, TypeOK
  <2>4. QED
    BY <2>2, <2>3
<1>14. CASE PostCheck(c)
  BY <1>14, AtWorkNow DEF PostCheck, Goto, corpus, ledger, others, Calm,
     OnCourse, TypeOK, DoneFrame
<1>15. CASE Close(c)
  BY <1>15, AtWorkNow DEF Close, Goto, corpus, ledger, others, locals, Calm,
     OnCourse, TypeOK, DoneFrame
<1>16. CASE UndoOp(c)
  BY <1>16, AtWorkNow DEF UndoOp, Goto, corpus, ledger, others, Calm,
     OnCourse, TypeOK, DoneFrame
<1>17. CASE OpenRestore(c)
  BY <1>17, AtWorkNow DEF OpenRestore, Goto, corpus, ledger, others, Calm,
     OnCourse, TypeOK, DoneFrame
<1>18. CASE CopyBack(c)
  BY <1>18, AtWorkNow DEF CopyBack, ledger, others, Calm, OnCourse, TypeOK,
     DoneFrame
<1>19. CASE SweepOrphans(c)
  BY <1>19, AtWorkNow DEF SweepOrphans, Goto, ledger, others, locals, Calm,
     OnCourse, TypeOK, DoneFrame
<1>20. CASE CleanupOrphans(c)
  BY <1>20, AtWorkNow DEF CleanupOrphans, Goto, ledger, others, locals, Calm,
     OnCourse, TypeOK, DoneFrame
<1>21. CASE RecordRollback(c)
  BY <1>21, AtWorkNow DEF RecordRollback, Goto, corpus, ledger, others,
     locals, Calm, OnCourse, TypeOK, DoneFrame
<1>22. CASE ReadLines(c)
  BY <1>22, AtWorkNow DEF ReadLines, Goto, corpus, others, locals, Calm,
     OnCourse, TypeOK, DoneFrame
<1>23. CASE ReplaceLines(c)
  BY <1>23, AtWorkNow DEF ReplaceLines, Goto, corpus, others, locals, Calm,
     OnCourse, TypeOK, DoneFrame
<1>24. CASE MarkFails(c)
  BY <1>24, AtWorkNow DEF MarkFails, Goto, corpus, ledger, others, locals,
     Calm, OnCourse, TypeOK, DoneFrame
<1>25. CASE Unlock(c)
  BY <1>25, AtWorkNow DEF Unlock, Forget, ReleaseIf, corpus, ledger, others,
     Goto, Calm, OnCourse, TypeOK, DoneFrame
<1>26. CASE Crash(c)
  BY <1>26, AtWorkNow DEF Crash, Forget, ReleaseIf, corpus, others, Goto,
     Calm, OnCourse, TypeOK, DoneFrame
<1>27. QED
  BY <1>1, <1>2, <1>3, <1>4, <1>5, <1>6, <1>7, <1>8, <1>9, <1>10, <1>11,
     <1>12, <1>13, <1>14, <1>15, <1>16, <1>17, <1>18, <1>19, <1>20, <1>21,
     <1>22, <1>23, <1>24, <1>25, <1>26
  DEF Own, Step, Applying, Restoring, Marking

\* So what it has done stays done.
LEMMA HasDoneStep ==
    ASSUME Calm, CalmInv, NEW c \in Appliers, Own(c)
    PROVE  HasDone(c)'
<1>1. DoneFrame(c)
  BY DoneSteps
<1>2. ASSUME pc'[c] \in {"begin", "op", "commit"}
      PROVE  \A i \in 1..(op'[c] - 1) : OpBlocks(prop'[c], i) \subseteq Live'
  <2>1. CASE op'[c] = 1
    BY <2>1
  <2>2. CASE /\ pc[c] \in {"begin", "op"} /\ prop'[c] = prop[c] /\ op'[c] = op[c]
             /\ UNCHANGED corpus \/ WriteBlock(c)
    <3>1. \A i \in 1..(op[c] - 1) : OpBlocks(prop[c], i) \subseteq Live
      BY <2>2 DEF CalmInv, AtWork, HasDone
    <3>2. Live \subseteq Live'
      BY <2>2, LiveStays, LiveGrows
    <3>3. QED
      BY <2>2, <3>1, <3>2
  <2>3. CASE /\ pc[c] = "commit" /\ prop'[c] = prop[c] /\ op'[c] = op[c] + 1
             /\ UNCHANGED corpus
    <3>1. op'[c] - 1 = op[c]
      BY <2>3 DEF CalmInv, IInv, TypeOK
    <3>2. QED
      BY <2>3, <3>1, OpIsDone, LiveStays
  <2>4. QED
    BY <1>1, <1>2, <2>1, <2>2, <2>3 DEF DoneFrame
<1>3. ASSUME pc'[c] \in {"postcheck", "close"} \/ (pc'[c] \in {"mark", "replace"} /\ cause'[c] = "ok")
      PROVE  Written(prop'[c]) \subseteq Live'
  <2>1. CASE /\ pc[c] \in {"postcheck", "close"}
                \/ (pc[c] \in {"mark", "replace"} /\ cause[c] = "ok")
             /\ prop'[c] = prop[c] /\ UNCHANGED corpus
    BY <2>1, LiveStays DEF CalmInv, AtWork, HasDone
  <2>2. CASE /\ pc[c] = "commit" /\ prop'[c] = prop[c]
             /\ op[c] = Len(OpsOf[prop[c]]) /\ UNCHANGED corpus
    <3>1. prop[c] \in Proposals
      BY <2>2, AtWorkNow
    <3>2. DOMAIN OpsOf[prop[c]] = 1..op[c]
      BY <2>2, <3>1, ProposalsAreValid
    <3>3. QED
      BY <2>2, <3>2, OpIsDone, LiveStays DEF Written
  <2>3. QED
    BY <1>1, <1>3, <2>1, <2>2 DEF DoneFrame
<1>4. QED
  BY <1>2, <1>3 DEF HasDone

\* When every file that had been there is copied back, nothing is left of the
\* proposal: the files it touches that had not been there are not there.
LEMMA CopiedBack ==
    ASSUME Calm, CalmInv, NEW c \in Appliers, pc[c] = "copy", todo[c] = {}
    PROVE  Written(prop[c]) \cap Live = {}
<1> SUFFICES ASSUME NEW b \in Written(prop[c]), b \in Live
             PROVE  FALSE
  OBVIOUS
<1>1. /\ prop[c] \in Proposals /\ b \in Blocks /\ HomeOf[b] \in Touched(prop[c])
      /\ HomeOf[b] \in Files
  BY AtWorkNow, WrittenAtHome
<1>2. b \in content[HomeOf[b]]
  BY <1>1, LiveAtHome DEF CalmInv, IInv
<1>3. HomeOf[b] \in present
  BY <1>1, <1>2 DEF CalmInv, Homes, InTheirFiles
<1>4. HomeOf[b] \in snapshot[prop[c]].files
  BY <1>1, <1>3 DEF CalmInv, AtWork, IsSaved
<1>5. content[HomeOf[b]] \cap Written(prop[c]) = {}
  BY <1>4 DEF CalmInv, AtWork, HasUndone
<1>6. QED
  BY <1>2, <1>5

\* A sweep, which removes no target, brings none of its blocks back.
LEMMA SweptClean ==
    ASSUME Calm, CalmInv, TypeOK', Homes', NEW c \in Appliers,
           SweepOrphans(c) \/ CleanupOrphans(c), NEW p \in Proposals
    PROVE  Written(p) \cap Live' = Written(p) \cap Live
<1> SUFFICES ASSUME NEW b \in Written(p)
             PROVE  b \in Live' <=> b \in Live
  OBVIOUS
<1>1. HomeOf[b] \in Targets
  BY WrittenAtHome
<1>2. content'[HomeOf[b]] = content[HomeOf[b]]
  BY <1>1, SweepsSpareTargets
<1>3. QED
  BY <1>2, SameBlocks DEF CalmInv, IInv

\* Where a step leaves an applier that restores.
RestoreFrame(c) ==
    /\ pc'[c] = "copy" =>
         \/ OpenRestore(c) /\ todo'[c] = snapshot[prop[c]].files
         \/ CopyBack(c)
    /\ \/ pc'[c] \in {"orphans", "record"}
       \/ pc'[c] \in {"mark", "replace"} /\ cause'[c] # "ok"
       =>
       \/ pc[c] = "copy" /\ todo[c] = {} /\ SweepOrphans(c) /\ prop'[c] = prop[c]
       \/ pc[c] = "orphans" /\ CleanupOrphans(c) /\ prop'[c] = prop[c]
       \/ /\ \/ pc[c] \in {"orphans", "record"}
             \/ pc[c] \in {"mark", "replace"} /\ cause[c] # "ok"
          /\ prop'[c] = prop[c] /\ UNCHANGED corpus

\* That is all that happens.
LEMMA RestoreSteps ==
    ASSUME TypeOK, ~Drift, NEW c \in Appliers, Own(c),
           pc[c] = "close" => cause[c] = "ok",
           pc[c] \in {"restore", "copy", "orphans", "record"} => cause[c] # "ok"
    PROVE  RestoreFrame(c)
<1>1. CASE TakeWorkspace(c)
  BY <1>1 DEF TakeWorkspace, Goto, corpus, ledger, others, locals, TypeOK,
     RestoreFrame
<1>2. CASE WorkspaceTimeout(c)
  BY <1>2 DEF WorkspaceTimeout, Forget, corpus, ledger, others, Goto, TypeOK,
     RestoreFrame
<1>3. CASE Recheck(c)
  BY <1>3 DEF Recheck, Goto, corpus, ledger, others, locals, TypeOK,
     RestoreFrame
<1>4. CASE Replay(c)
  BY <1>4 DEF Replay, Goto, corpus, ledger, others, locals, TypeOK,
     RestoreFrame
<1>5. CASE ListFiles(c)
  BY <1>5 DEF ListFiles, Goto, corpus, ledger, others, TypeOK, RestoreFrame
<1>6. CASE TakeSnapshot(c)
  BY <1>6 DEF TakeSnapshot, Goto, corpus, ledger, others, locals, TypeOK,
     RestoreFrame
<1>7. CASE Unmeasurable(c)
  BY <1>7 DEF Unmeasurable, Goto, corpus, ledger, others, TypeOK, RestoreFrame
<1>8. CASE WriteReceipt(c)
  BY <1>8 DEF WriteReceipt, Goto, corpus, ledger, others, locals, TypeOK,
     RestoreFrame
<1>9. CASE Begin(c)
  BY <1>9 DEF Begin, Goto, corpus, ledger, others, locals, TypeOK,
     RestoreFrame
<1>10. CASE WriteBlock(c)
  BY <1>10 DEF WriteBlock, Goto, ledger, others, TypeOK, RestoreFrame
<1>11. CASE OpFails(c)
  BY <1>11 DEF OpFails, Goto, corpus, ledger, others, locals, TypeOK,
     RestoreFrame
<1>12. CASE OpEscapes(c)
  BY <1>12 DEF OpEscapes, Goto, corpus, ledger, others, locals, TypeOK,
     RestoreFrame
<1>13. CASE Commit(c)
  BY <1>13 DEF Commit, Goto, corpus, ledger, others, TypeOK, RestoreFrame
<1>14. CASE PostCheck(c)
  BY <1>14 DEF PostCheck, Goto, corpus, ledger, others, TypeOK, RestoreFrame
<1>15. CASE Close(c)
  BY <1>15 DEF Close, Goto, corpus, ledger, others, locals, TypeOK,
     RestoreFrame
<1>16. CASE UndoOp(c)
  BY <1>16 DEF UndoOp, Goto, corpus, ledger, others, TypeOK, RestoreFrame
<1>17. CASE OpenRestore(c)
  BY <1>17 DEF OpenRestore, Goto, corpus, ledger, others, TypeOK, RestoreFrame
<1>18. CASE CopyBack(c)
  BY <1>18 DEF CopyBack, ledger, others, TypeOK, RestoreFrame
<1>19. CASE SweepOrphans(c)
  BY <1>19 DEF SweepOrphans, Goto, ledger, others, locals, TypeOK,
     RestoreFrame
<1>20. CASE CleanupOrphans(c)
  BY <1>20 DEF CleanupOrphans, Goto, ledger, others, locals, TypeOK,
     RestoreFrame
<1>21. CASE RecordRollback(c)
  BY <1>21 DEF RecordRollback, Goto, corpus, ledger, others, locals, TypeOK,
     RestoreFrame
<1>22. CASE ReadLines(c)
  BY <1>22 DEF ReadLines, Goto, corpus, others, locals, TypeOK, RestoreFrame
<1>23. CASE ReplaceLines(c)
  BY <1>23 DEF ReplaceLines, Goto, corpus, others, locals, TypeOK,
     RestoreFrame
<1>24. CASE MarkFails(c)
  BY <1>24 DEF MarkFails, Goto, corpus, ledger, others, locals, TypeOK,
     RestoreFrame
<1>25. CASE Unlock(c)
  BY <1>25 DEF Unlock, Forget, ReleaseIf, corpus, ledger, others, Goto,
     TypeOK, RestoreFrame
<1>26. CASE Crash(c)
  BY <1>26 DEF Crash, Forget, ReleaseIf, corpus, others, Goto, TypeOK,
     RestoreFrame
<1>27. QED
  BY <1>1, <1>2, <1>3, <1>4, <1>5, <1>6, <1>7, <1>8, <1>9, <1>10, <1>11,
     <1>12, <1>13, <1>14, <1>15, <1>16, <1>17, <1>18, <1>19, <1>20, <1>21,
     <1>22, <1>23, <1>24, <1>25, <1>26
  DEF Own, Step, Applying, Restoring, Marking

\* So what it has undone stays undone.
LEMMA HasUndoneStep ==
    ASSUME Calm, CalmInv, TypeOK', Homes', NEW c \in Appliers, Own(c)
    PROVE  HasUndone(c)'
<1>1. RestoreFrame(c)
  BY AtWorkNow, RestoreSteps DEF Calm, OnCourse
<1>2. ASSUME pc'[c] = "copy"
      PROVE  /\ todo'[c] \subseteq snapshot'[prop'[c]].files
             /\ \A f \in snapshot'[prop'[c]].files \ todo'[c] :
                  content'[f] \cap Written(prop'[c]) = {}
  <2>1. CASE OpenRestore(c) /\ todo'[c] = snapshot[prop[c]].files
    BY <2>1 DEF OpenRestore
  <2>2. CASE CopyBack(c)
    <3>1. PICK f \in todo[c] :
            /\ f \in Touched(prop[c]) /\ f \in snapshot[prop[c]].files
            /\ content' = [content EXCEPT ![f] = content[f] \ Written(prop[c])]
            /\ todo' = [todo EXCEPT ![c] = todo[c] \ {f}]
      BY <2>2, CopyPutsBack
    <3>2. /\ pc[c] = "copy" /\ prop[c] \in Proposals
          /\ prop' = prop /\ snapshot' = snapshot
      BY <2>2, AtWorkNow DEF CopyBack
    <3>3. /\ todo[c] \subseteq snapshot[prop[c]].files
          /\ \A g \in snapshot[prop[c]].files \ todo[c] :
               content[g] \cap Written(prop[c]) = {}
      BY <3>2 DEF CalmInv, AtWork, HasUndone
    <3>4. todo'[c] = todo[c] \ {f}
      BY <3>1, AtWorkNow DEF TypeOK
    <3>5. snapshot[prop[c]].files \subseteq Files
      BY <3>2, WrittenAtHome DEF CalmInv, AtWork, IsSaved
    <3>6. \A g \in Files : content'[g] = IF g = f THEN content[f] \ Written(prop[c])
                                         ELSE content[g]
      BY <3>1, AtWorkNow DEF TypeOK
    <3>7. QED
      BY <3>2, <3>3, <3>4, <3>5, <3>6
  <2>3. QED
    BY <1>1, <1>2, <2>1, <2>2 DEF RestoreFrame
<1>3. ASSUME \/ pc'[c] \in {"orphans", "record"}
             \/ pc'[c] \in {"mark", "replace"} /\ cause'[c] # "ok"
      PROVE  Written(prop'[c]) \cap Live' = {}
  <2>1. CASE pc[c] = "copy" /\ todo[c] = {} /\ SweepOrphans(c) /\ prop'[c] = prop[c]
    <3>1. prop[c] \in Proposals
      BY <2>1, AtWorkNow
    <3>2. QED
      BY <2>1, <3>1, CopiedBack, SweptClean
  <2>2. CASE pc[c] = "orphans" /\ CleanupOrphans(c) /\ prop'[c] = prop[c]
    <3>1. prop[c] \in Proposals
      BY <2>2, AtWorkNow
    <3>2. Written(prop[c]) \cap Live = {}
      BY <2>2 DEF CalmInv, AtWork, HasUndone
    <3>3. QED
      BY <2>2, <3>1, <3>2, SweptClean
  <2>3. CASE /\ \/ pc[c] \in {"orphans", "record"}
                \/ pc[c] \in {"mark", "replace"} /\ cause[c] # "ok"
             /\ prop'[c] = prop[c] /\ UNCHANGED corpus
    BY <2>3, LiveStays DEF CalmInv, AtWork, HasUndone
  <2>4. QED
    BY <1>1, <1>3, <2>1, <2>2, <2>3 DEF RestoreFrame
<1>4. QED
  BY <1>2, <1>3 DEF HasUndone

-----------------------------------------------------------------------------
(* Whoever acts, the appliers at work can go on.                           *)

\* What the others do leaves the targets alone, ...
LEMMA TargetsUntouched ==
    ASSUME Calm, CalmInv, NEW c \in Appliers, Untouched(c)
    PROVE  \A f \in Targets : content'[f] = content[f] /\ (f \in present' <=> f \in present)
<1>1. CASE UNCHANGED corpus
  BY <1>1 DEF corpus
<1>2. ASSUME NEW w \in Writers, ReplaceFile(w)
      PROVE  \A f \in Targets : content'[f] = content[f] /\ (f \in present' <=> f \in present)
  BY <1>2, WritersSpareTargets DEF CalmInv
<1>3. QED
  BY <1>1, <1>2 DEF Untouched

\* ... and with them what the proposals wrote.
LEMMA BlocksUntouched ==
    ASSUME Calm, CalmInv, TypeOK', Homes', NEW c \in Appliers, Untouched(c),
           NEW p \in Proposals
    PROVE  Written(p) \cap Live' = Written(p) \cap Live
<1> SUFFICES ASSUME NEW b \in Written(p)
             PROVE  b \in Live' <=> b \in Live
  OBVIOUS
<1>1. HomeOf[b] \in Targets
  BY WrittenAtHome
<1>2. content'[HomeOf[b]] = content[HomeOf[b]]
  BY <1>1, TargetsUntouched
<1>3. QED
  BY <1>2, SameBlocks DEF CalmInv, IInv

\* A staged line stays staged while others act.
LEMMA StagedUntouched ==
    ASSUME TypeOK, NEW c \in Appliers, Untouched(c), NEW p \in Proposals
    PROVE  \/ status'[p] = status[p]
           \/ status[p] = "absent" /\ status'[p] = "staged"
  BY DEF Untouched, Stage, TypeOK

\* So the applier at work still has what it had.
LEMMA StillAtWork ==
    ASSUME Calm, CalmInv, TypeOK', Homes', NEW c \in Appliers, Untouched(c),
           pc[c] # "idle"
    PROVE  /\ OnCourse(c)' /\ IsListed(c)' /\ IsSaved(c)' /\ Reversible(c)'
           /\ HasDone(c)' /\ HasUndone(c)'
<1>1. /\ pc'[c] = pc[c] /\ prop'[c] = prop[c] /\ listing'[c] = listing[c]
      /\ op'[c] = op[c] /\ todo'[c] = todo[c] /\ cause'[c] = cause[c]
      /\ lines'[c] = lines[c] /\ journal' = journal /\ snapshot' = snapshot
      /\ receipt' = receipt
  BY DEF Untouched
<1>2. prop[c] \in Proposals
  BY AtWorkNow
<1>3. \A f \in Targets : content'[f] = content[f] /\ (f \in present' <=> f \in present)
  BY TargetsUntouched
<1>4. Written(prop[c]) \cap Live' = Written(prop[c]) \cap Live
  BY <1>2, BlocksUntouched
<1>5. Touched(prop[c]) \subseteq Targets
  BY <1>2, WrittenAtHome
<1>6. OnCourse(c)'
  <2>1. \/ status'[prop[c]] = status[prop[c]]
        \/ status[prop[c]] = "absent" /\ status'[prop[c]] = "staged"
    BY <1>2, AtWorkNow, StagedUntouched
  <2>2. QED
    BY <1>1, <2>1, AtWorkNow DEF OnCourse
<1>7. IsListed(c)'
  BY <1>1, <1>3 DEF IsListed, CalmInv, AtWork
<1>8. IsSaved(c)'
  <2>1. CASE pc[c] \in {"precheck", "begin", "op", "commit", "undo", "postcheck",
                        "close", "restore", "copy"}
    <3>1. LET s == snapshot[prop[c]] IN
          /\ s.files \subseteq Touched(prop[c]) \cap s.inventory \cap listing[c]
          /\ Targets \cap present \cap InRootsOf(Touched(prop[c])) \subseteq s.inventory
          /\ Touched(prop[c]) \cap present \subseteq s.files
          /\ \A f \in Touched(prop[c]) :
               content[f] \ Written(prop[c]) = s.saved[f]
      BY <2>1 DEF IsSaved, CalmInv, AtWork
    <3>2. QED
      BY <1>1, <1>3, <1>5, <3>1 DEF IsSaved
  <2>2. QED
    BY <1>1, <2>1 DEF IsSaved
<1>9. Reversible(c)'
  BY <1>1 DEF Reversible, Op, CalmInv, AtWork
<1>10. HasDone(c)'
  <2>1. \A i \in DOMAIN OpsOf[prop[c]] : OpBlocks(prop[c], i) \subseteq Written(prop[c])
    BY DEF Written
  <2>2. pc[c] \in {"begin", "op", "commit"} =>
          /\ op[c] \in DOMAIN OpsOf[prop[c]]
          /\ \A i \in 1..(op[c] - 1) : i \in DOMAIN OpsOf[prop[c]]
    <3>1. op[c] \in DOMAIN OpsOf[prop[c]] /\ op[c] \in Nat
      BY AtWorkNow DEF Equipped, TypeOK
    <3>2. DOMAIN OpsOf[prop[c]] = 1..Len(OpsOf[prop[c]]) /\ Len(OpsOf[prop[c]]) \in Nat
      BY <1>2, ProposalsAreValid
    <3>3. QED
      BY <3>1, <3>2
  <2>3. HasDone(c)
    BY DEF CalmInv, AtWork
  <2>4. QED
    BY <1>1, <1>4, <2>1, <2>2, <2>3 DEF HasDone
<1>11. HasUndone(c)'
  <2>1. pc[c] = "copy" => snapshot[prop[c]].files \subseteq Touched(prop[c])
    BY DEF IsSaved, CalmInv, AtWork
  <2>2. HasUndone(c)
    BY DEF CalmInv, AtWork
  <2>3. QED
    BY <1>1, <1>3, <1>4, <1>5, <2>1, <2>2 DEF HasUndone
<1>12. QED
  BY <1>6, <1>7, <1>8, <1>9, <1>10, <1>11

\* Every step leaves everybody at work.
LEMMA AtWorkStep ==
    ASSUME Calm, CalmInv, IInv', Homes', [Next]_vars
    PROVE  AtWork'
<1> SUFFICES ASSUME NEW c \in Appliers
             PROVE  /\ OnCourse(c)' /\ IsListed(c)' /\ IsSaved(c)' /\ Reversible(c)'
                    /\ HasDone(c)' /\ HasUndone(c)'
  BY DEF AtWork
<1>1. TypeOK /\ TypeOK' /\ Alone /\ ~Operator
  BY DEF CalmInv, IInv, Once, Calm, Undisturbed
<1>2. CASE Own(c)
  BY <1>1, <1>2, CourseStep, BaselineStep, ReversibleStep, HasDoneStep, HasUndoneStep
<1>3. CASE pc[c] # "idle" /\ Untouched(c)
  BY <1>1, <1>3, StillAtWork
<1>4. CASE pc[c] \in {"idle", "wait"} /\ Same(c)
  BY <1>4, AtWorkNow DEF Same, OnCourse, IsListed, IsSaved, Reversible, HasDone,
     HasUndone
<1>5. ASSUME NEW p \in Proposals, Submit(c, p)
      PROVE  /\ OnCourse(c)' /\ IsListed(c)' /\ IsSaved(c)' /\ Reversible(c)'
             /\ HasDone(c)' /\ HasUndone(c)'
  <2>1. /\ pc[c] = "idle" /\ pc'[c] = "wait" /\ op'[c] = op[c] /\ cause'[c] = cause[c]
    BY <1>1, <1>5 DEF Submit, Goto, TypeOK
  <2>2. QED
    BY <2>1, AtWorkNow DEF OnCourse, IsListed, IsSaved, Reversible, HasDone,
       HasUndone
<1>6. ASSUME NEW p \in Proposals, RollBack(c, p) PROVE FALSE
  BY <1>1, <1>6 DEF RollBack
<1>7. Same(c) \/ Own(c) \/ \E p \in Proposals : Submit(c, p) \/ RollBack(c, p)
  BY <1>1, OthersStandStill
<1>8. pc[c] \notin {"idle", "wait"} => Own(c) \/ Untouched(c)
  BY <1>1, OnlyTheHolderActs
<1>9. QED
  BY <1>2, <1>3, <1>4, <1>5, <1>6, <1>7, <1>8

\* An op that its applier leaves is no longer pending.
LEMMA OwnPending ==
    ASSUME IInv, ~Crashes, ~Escapes, NEW c \in Appliers, Own(c),
           pc[c] \in {"op", "commit", "undo"}
    PROVE  \/ pc'[c] \in {"op", "commit", "undo"} /\ prop'[c] = prop[c]
           \/ journal' = <<>>
<1>1. CASE TakeWorkspace(c)
  BY <1>1 DEF TakeWorkspace, Goto, corpus, ledger, others, locals, IInv,
     TypeOK
<1>2. CASE WorkspaceTimeout(c)
  BY <1>2 DEF WorkspaceTimeout, Forget, corpus, ledger, others, Goto, IInv,
     TypeOK
<1>3. CASE Recheck(c)
  BY <1>3 DEF Recheck, Goto, corpus, ledger, others, locals, IInv, TypeOK
<1>4. CASE Replay(c)
  BY <1>4 DEF Replay, Goto, corpus, ledger, others, locals, IInv, TypeOK
<1>5. CASE ListFiles(c)
  BY <1>5 DEF ListFiles, Goto, corpus, ledger, others, IInv, TypeOK
<1>6. CASE TakeSnapshot(c)
  BY <1>6 DEF TakeSnapshot, Goto, corpus, ledger, others, locals, IInv, TypeOK
<1>7. CASE Unmeasurable(c)
  BY <1>7 DEF Unmeasurable, Goto, corpus, ledger, others, IInv, TypeOK
<1>8. CASE WriteReceipt(c)
  BY <1>8 DEF WriteReceipt, Goto, corpus, ledger, others, locals, IInv, TypeOK
<1>9. CASE Begin(c)
  BY <1>9 DEF Begin, Goto, corpus, ledger, others, locals, IInv, TypeOK
<1>10. CASE WriteBlock(c)
  BY <1>10 DEF WriteBlock, Goto, ledger, others, IInv, TypeOK
<1>11. CASE OpFails(c)
  BY <1>11 DEF OpFails, Goto, corpus, ledger, others, locals, IInv, TypeOK
<1>12. CASE OpEscapes(c)
  BY <1>12 DEF OpEscapes, Goto, corpus, ledger, others, locals, IInv, TypeOK
<1>13. CASE Commit(c)
  <2>1. journal' = <<>>
    BY <1>13, TheEntry DEF Commit
  <2>2. QED
    BY <2>1
<1>14. CASE PostCheck(c)
  BY <1>14 DEF PostCheck, Goto, corpus, ledger, others, IInv, TypeOK
<1>15. CASE Close(c)
  BY <1>15 DEF Close, Goto, corpus, ledger, others, locals, IInv, TypeOK
<1>16. CASE UndoOp(c)
  <2>1. journal' = <<>>
    BY <1>16, TheEntry DEF UndoOp
  <2>2. QED
    BY <2>1
<1>17. CASE OpenRestore(c)
  BY <1>17 DEF OpenRestore, Goto, corpus, ledger, others, IInv, TypeOK
<1>18. CASE CopyBack(c)
  BY <1>18 DEF CopyBack, ledger, others, IInv, TypeOK
<1>19. CASE SweepOrphans(c)
  BY <1>19 DEF SweepOrphans, Goto, ledger, others, locals, IInv, TypeOK
<1>20. CASE CleanupOrphans(c)
  BY <1>20 DEF CleanupOrphans, Goto, ledger, others, locals, IInv, TypeOK
<1>21. CASE RecordRollback(c)
  BY <1>21 DEF RecordRollback, Goto, corpus, ledger, others, locals, IInv,
     TypeOK
<1>22. CASE ReadLines(c)
  BY <1>22 DEF ReadLines, Goto, corpus, others, locals, IInv, TypeOK
<1>23. CASE ReplaceLines(c)
  BY <1>23 DEF ReplaceLines, Goto, corpus, others, locals, IInv, TypeOK
<1>24. CASE MarkFails(c)
  BY <1>24 DEF MarkFails, Goto, corpus, ledger, others, locals, IInv, TypeOK
<1>25. CASE Unlock(c)
  BY <1>25 DEF Unlock, Forget, ReleaseIf, corpus, ledger, others, Goto, IInv,
     TypeOK
<1>26. CASE Crash(c)
  BY <1>26 DEF Crash, Forget, ReleaseIf, corpus, others, Goto, IInv, TypeOK
<1>27. QED
  BY <1>1, <1>2, <1>3, <1>4, <1>5, <1>6, <1>7, <1>8, <1>9, <1>10, <1>11,
     <1>12, <1>13, <1>14, <1>15, <1>16, <1>17, <1>18, <1>19, <1>20, <1>21,
     <1>22, <1>23, <1>24, <1>25, <1>26
  DEF Own, Step, Applying, Restoring, Marking

\* Nothing is left pending.
LEMMA PendingStep ==
    ASSUME Calm, CalmInv, [Next]_vars
    PROVE  NothingPending'
<1> SUFFICES ASSUME journal' # <<>>
             PROVE  \E a \in Appliers : pc'[a] \in {"op", "commit", "undo"}
  BY DEF NothingPending
<1>1. TypeOK /\ Alone /\ ~Operator /\ IInv
  BY DEF CalmInv, IInv, Once, Calm, Undisturbed
<1>2. CASE journal = <<>>
  <2>1. JournalFrame
    BY <1>1, FramesStep DEF Frames
  <2>2. ASSUME NEW a \in Appliers, Commit(a) PROVE FALSE
    BY <1>2, <2>2 DEF Commit
  <2>3. PICK a \in Appliers : Begin(a)
    BY <1>2, <2>1, <2>2 DEF JournalFrame
  <2>4. pc'[a] = "op"
    BY <1>1, <2>3 DEF Begin, Goto, TypeOK
  <2>5. QED
    BY <2>4
<1>3. CASE journal # <<>>
  <2>1. PICK c \in Appliers : pc[c] \in {"op", "commit", "undo"}
    BY <1>3 DEF CalmInv, NothingPending
  <2>2. Own(c) \/ Untouched(c)
    BY <1>1, <2>1, OnlyTheHolderActs
  <2>3. CASE Own(c)
    BY <1>1, <2>1, <2>3, OwnPending DEF Calm
  <2>4. CASE Untouched(c)
    BY <2>1, <2>4 DEF Untouched
  <2>5. QED
    BY <2>2, <2>3, <2>4
<1>4. QED
  BY <1>2, <1>3

-----------------------------------------------------------------------------
(* The Status lines of the proposals nobody is at work on.                 *)

\* Where an applier is that is not under way with its proposal.
Early == {"wait", "recheck", "replay", "list", "snapshot", "precheck", "unlock"}

\* What a Status line says of its proposal.
Truthful(p) == IF status[p] = "applied"
                 THEN Written(p) \subseteq Live /\ receipt[p] = "applied"
                 ELSE Written(p) \cap Live = {}

\* Nobody goes on with an apply: one is begun at most, a writer replaces a file
\* or a stager adds a line.
Outside ==
    /\ receipt' = receipt
    /\ UNCHANGED corpus \/ \E w \in Writers : ReplaceFile(w)
    /\ UNCHANGED status \/ \E p \in Proposals : Stage(p)
    /\ \A a \in Appliers : \/ pc'[a] = pc[a] /\ prop'[a] = prop[a]
                           \/ pc[a] = "idle" /\ pc'[a] = "wait"

\* Every step is an applier's own, or an outside one.
LEMMA WhoActs ==
    ASSUME Calm, TypeOK, [Next]_vars
    PROVE  Outside \/ \E c \in Appliers : Own(c)
<1>1. ASSUME NEW a \in Appliers, Step(a) \/ Crash(a)
      PROVE  \E c \in Appliers : Own(c)
  BY <1>1 DEF Own
<1>2. ASSUME NEW a \in Appliers, NEW p \in Proposals, Submit(a, p) PROVE Outside
  BY <1>2 DEF Submit, Goto, corpus, ledger, Outside, TypeOK
<1>3. ASSUME NEW a \in Appliers, NEW p \in Proposals, RollBack(a, p) PROVE FALSE
  BY <1>3 DEF RollBack, Calm, Undisturbed
<1>4. ASSUME NEW p \in Proposals, Stage(p) PROVE Outside
  BY <1>4 DEF Stage, corpus, locals, Outside
<1>5. ASSUME NEW w \in Writers, ReplaceFile(w) PROVE Outside
  BY <1>5 DEF ReplaceFile, ledger, locals, Outside
<1>6. ASSUME NEW w \in Writers, NEW b \in Foreign, ReadFile(w, b) PROVE Outside
  BY <1>6 DEF ReadFile, corpus, ledger, locals, Outside
<1>7. CASE ReplayCommand
  BY <1>7 DEF ReplayCommand, Calm, Undisturbed
<1>8. CASE UNCHANGED vars
  BY <1>8 DEF vars, corpus, Outside
<1>9. QED
  BY <1>1, <1>2, <1>3, <1>4, <1>5, <1>6, <1>7, <1>8 DEF Next

\* An outside step leaves every Status line as truthful as it was.
LEMMA OutsideStep ==
    ASSUME Calm, CalmInv, TypeOK', Homes', Outside
    PROVE  StatusTellsTheTruth'
<1> SUFFICES ASSUME NEW p \in Proposals, p \notin UnderWay'
             PROVE  Truthful(p)'
  BY DEF StatusTellsTheTruth, Truthful
<1>1. p \notin UnderWay
  <2> SUFFICES ASSUME NEW a \in Appliers, prop[a] = p, pc[a] \notin Early
               PROVE  prop'[a] = p /\ pc'[a] \notin Early
    BY DEF UnderWay, Early
  <2>1. pc[a] # "idle"
    BY ProposalsAreValid DEF CalmInv, AtWork, OnCourse
  <2>2. QED
    BY <2>1 DEF Outside
<1>2. Truthful(p)
  BY <1>1 DEF CalmInv, StatusTellsTheTruth, Truthful
<1>3. \/ status'[p] = status[p]
      \/ status[p] = "absent" /\ status'[p] = "staged"
  BY DEF Outside, Stage, CalmInv, IInv, TypeOK
<1>4. Written(p) \cap Live' = Written(p) \cap Live
  <2> SUFFICES ASSUME NEW b \in Written(p)
               PROVE  b \in Live' <=> b \in Live
    OBVIOUS
  <2>1. HomeOf[b] \in Targets
    BY WrittenAtHome
  <2>2. content'[HomeOf[b]] = content[HomeOf[b]]
    BY <2>1, WritersSpareTargets DEF Outside, corpus, CalmInv
  <2>3. QED
    BY <2>2, SameBlocks DEF CalmInv, IInv
<1>5. QED
  BY <1>2, <1>3, <1>4 DEF Truthful, Outside

\* How an applier's own step bears on its proposal: before its first op the
\* Status line is "staged" or does not change; it leaves off with a clean-up,
\* the record of a rollback or a new Status line.
EndFrame(c) ==
    \/ /\ pc[c] \in Early /\ UNCHANGED corpus /\ status' = status
       /\ receipt'[prop[c]] = receipt[prop[c]] \/ status[prop[c]] = "staged"
    \/ pc'[c] \notin Early /\ prop'[c] = prop[c]
    \/ CleanupOrphans(c) /\ status' = status
    \/ pc[c] = "record" /\ UNCHANGED corpus /\ status' = status
    \/ ReplaceLines(c)

\* That is all that happens to it.
LEMMA EndSteps ==
    ASSUME Calm, CalmInv, NEW c \in Appliers, Own(c)
    PROVE  EndFrame(c)
<1>1. CASE TakeWorkspace(c)
  BY <1>1, AtWorkNow DEF TakeWorkspace, Goto, corpus, ledger, others, locals,
     Calm, TypeOK, OnCourse, EndFrame, Early
<1>2. CASE WorkspaceTimeout(c)
  BY <1>2, AtWorkNow DEF WorkspaceTimeout, Forget, corpus, ledger, others,
     Goto, Calm, TypeOK, OnCourse, EndFrame, Early
<1>3. CASE Recheck(c)
  BY <1>3, AtWorkNow DEF Recheck, Goto, corpus, ledger, others, locals, Calm,
     TypeOK, OnCourse, EndFrame, Early
<1>4. CASE Replay(c)
  BY <1>4, NothingToReplay DEF Replay, ledger, locals, EndFrame, Early
<1>5. CASE ListFiles(c)
  BY <1>5, AtWorkNow DEF ListFiles, Goto, corpus, ledger, others, Calm,
     TypeOK, OnCourse, EndFrame, Early
<1>6. CASE TakeSnapshot(c)
  BY <1>6, AtWorkNow DEF TakeSnapshot, Goto, corpus, ledger, others, locals,
     Calm, TypeOK, OnCourse, EndFrame, Early
<1>7. CASE Unmeasurable(c)
  BY <1>7, AtWorkNow DEF Unmeasurable, Goto, corpus, ledger, others, Calm,
     TypeOK, OnCourse, EndFrame, Early
<1>8. CASE WriteReceipt(c)
  BY <1>8, AtWorkNow DEF WriteReceipt, Goto, corpus, ledger, others, locals,
     Calm, TypeOK, OnCourse, EndFrame, Early
<1>9. CASE Begin(c)
  BY <1>9, AtWorkNow DEF Begin, Goto, corpus, ledger, others, locals, Calm,
     TypeOK, OnCourse, EndFrame, Early
<1>10. CASE WriteBlock(c)
  BY <1>10, AtWorkNow DEF WriteBlock, Goto, ledger, others, Calm, TypeOK,
     OnCourse, EndFrame, Early
<1>11. CASE OpFails(c)
  BY <1>11, AtWorkNow DEF OpFails, Goto, corpus, ledger, others, locals, Calm,
     TypeOK, OnCourse, EndFrame, Early
<1>12. CASE OpEscapes(c)
  BY <1>12, AtWorkNow DEF OpEscapes, Goto, corpus, ledger, others, locals,
     Calm, TypeOK, OnCourse, EndFrame, Early
<1>13. CASE Commit(c)
  BY <1>13, AtWorkNow DEF Commit, Goto, corpus, ledger, others, Calm, TypeOK,
     OnCourse, EndFrame, Early
<1>14. CASE PostCheck(c)
  BY <1>14, AtWorkNow DEF PostCheck, Goto, corpus, ledger, others, Calm,
     TypeOK, OnCourse, EndFrame, Early
<1>15. CASE Close(c)
  BY <1>15, AtWorkNow DEF Close, Goto, corpus, ledger, others, locals, Calm,
     TypeOK, OnCourse, EndFrame, Early
<1>16. CASE UndoOp(c)
  BY <1>16, AtWorkNow DEF UndoOp, Goto, corpus, ledger, others, Calm, TypeOK,
     OnCourse, EndFrame, Early
<1>17. CASE OpenRestore(c)
  BY <1>17, AtWorkNow DEF OpenRestore, Goto, corpus, ledger, others, Calm,
     TypeOK, OnCourse, EndFrame, Early
<1>18. CASE CopyBack(c)
  BY <1>18, AtWorkNow DEF CopyBack, ledger, others, Calm, TypeOK, OnCourse,
     EndFrame, Early
<1>19. CASE SweepOrphans(c)
  BY <1>19, AtWorkNow DEF SweepOrphans, Goto, ledger, others, locals, Calm,
     TypeOK, OnCourse, EndFrame, Early
<1>20. CASE CleanupOrphans(c)
  BY <1>20, AtWorkNow DEF CleanupOrphans, Goto, ledger, others, locals, Calm,
     TypeOK, OnCourse, EndFrame, Early
<1>21. CASE RecordRollback(c)
  BY <1>21, AtWorkNow DEF RecordRollback, Goto, corpus, ledger, others,
     locals, Calm, TypeOK, OnCourse, EndFrame, Early
<1>22. CASE ReadLines(c)
  BY <1>22, AtWorkNow DEF ReadLines, Goto, corpus, others, locals, Calm,
     TypeOK, OnCourse, EndFrame, Early
<1>23. CASE ReplaceLines(c)
  BY <1>23, AtWorkNow DEF ReplaceLines, Goto, corpus, others, locals, Calm,
     TypeOK, OnCourse, EndFrame, Early
<1>24. CASE MarkFails(c)
  BY <1>24, AtWorkNow DEF MarkFails, Goto, corpus, ledger, others, locals,
     Calm, TypeOK, OnCourse, EndFrame, Early
<1>25. CASE Unlock(c)
  BY <1>25, AtWorkNow DEF Unlock, Forget, ReleaseIf, corpus, ledger, others,
     Goto, Calm, TypeOK, OnCourse, EndFrame, Early
<1>26. CASE Crash(c)
  BY <1>26, AtWorkNow DEF Crash, Forget, ReleaseIf, corpus, others, Goto,
     Calm, TypeOK, OnCourse, EndFrame, Early
<1>27. QED
  BY <1>1, <1>2, <1>3, <1>4, <1>5, <1>6, <1>7, <1>8, <1>9, <1>10, <1>11,
     <1>12, <1>13, <1>14, <1>15, <1>16, <1>17, <1>18, <1>19, <1>20, <1>21,
     <1>22, <1>23, <1>24, <1>25, <1>26
  DEF Own, Step, Applying, Restoring, Marking

\* An applier's step is about its own proposal, but that a replacing of the
\* Status lines may lose one staged in between.
OthersFrame(c) ==
    /\ pc[c] # "idle"
    /\ \A a \in Appliers \ {c} : pc'[a] = pc[a] /\ prop'[a] = prop[a]
    /\ \A q \in Proposals \ {prop[c]} :
         /\ receipt'[q] = receipt[q]
         /\ \/ status'[q] = status[q]
            \/ status[q] = "staged" /\ status'[q] = "absent"

\* That is all that happens to the others.
LEMMA OthersKept ==
    ASSUME Calm, CalmInv, NEW c \in Appliers, Own(c)
    PROVE  OthersFrame(c)
<1>1. CASE TakeWorkspace(c)
  BY <1>1, AtWorkNow DEF TakeWorkspace, Goto, corpus, ledger, others, locals,
     Calm, TypeOK, OthersFrame
<1>2. CASE WorkspaceTimeout(c)
  BY <1>2, AtWorkNow DEF WorkspaceTimeout, Forget, corpus, ledger, others,
     Goto, Calm, TypeOK, OthersFrame
<1>3. CASE Recheck(c)
  BY <1>3, AtWorkNow DEF Recheck, Goto, corpus, ledger, others, locals, Calm,
     TypeOK, OthersFrame
<1>4. CASE Replay(c)
  BY <1>4, AtWorkNow, NothingToReplay DEF Replay, ledger, locals, TypeOK, OthersFrame
<1>5. CASE ListFiles(c)
  BY <1>5, AtWorkNow DEF ListFiles, Goto, corpus, ledger, others, Calm,
     TypeOK, OthersFrame
<1>6. CASE TakeSnapshot(c)
  BY <1>6, AtWorkNow DEF TakeSnapshot, Goto, corpus, ledger, others, locals,
     Calm, TypeOK, OthersFrame
<1>7. CASE Unmeasurable(c)
  BY <1>7, AtWorkNow DEF Unmeasurable, Goto, corpus, ledger, others, Calm,
     TypeOK, OthersFrame
<1>8. CASE WriteReceipt(c)
  BY <1>8, AtWorkNow DEF WriteReceipt, Goto, corpus, ledger, others, locals,
     Calm, TypeOK, OthersFrame
<1>9. CASE Begin(c)
  BY <1>9, AtWorkNow DEF Begin, Goto, corpus, ledger, others, locals, Calm,
     TypeOK, OthersFrame
<1>10. CASE WriteBlock(c)
  BY <1>10, AtWorkNow DEF WriteBlock, Goto, ledger, others, Calm, TypeOK,
     OthersFrame
<1>11. CASE OpFails(c)
  BY <1>11, AtWorkNow DEF OpFails, Goto, corpus, ledger, others, locals, Calm,
     TypeOK, OthersFrame
<1>12. CASE OpEscapes(c)
  BY <1>12, AtWorkNow DEF OpEscapes, Goto, corpus, ledger, others, locals,
     Calm, TypeOK, OthersFrame
<1>13. CASE Commit(c)
  BY <1>13, AtWorkNow DEF Commit, Goto, corpus, ledger, others, Calm, TypeOK,
     OthersFrame
<1>14. CASE PostCheck(c)
  BY <1>14, AtWorkNow DEF PostCheck, Goto, corpus, ledger, others, Calm,
     TypeOK, OthersFrame
<1>15. CASE Close(c)
  BY <1>15, AtWorkNow DEF Close, Goto, corpus, ledger, others, locals, Calm,
     TypeOK, OthersFrame
<1>16. CASE UndoOp(c)
  BY <1>16, AtWorkNow DEF UndoOp, Goto, corpus, ledger, others, Calm, TypeOK,
     OthersFrame
<1>17. CASE OpenRestore(c)
  BY <1>17, AtWorkNow DEF OpenRestore, Goto, corpus, ledger, others, Calm,
     TypeOK, OthersFrame
<1>18. CASE CopyBack(c)
  BY <1>18, AtWorkNow DEF CopyBack, ledger, others, Calm, TypeOK, OthersFrame
<1>19. CASE SweepOrphans(c)
  BY <1>19, AtWorkNow DEF SweepOrphans, Goto, ledger, others, locals, Calm,
     TypeOK, OthersFrame
<1>20. CASE CleanupOrphans(c)
  BY <1>20, AtWorkNow DEF CleanupOrphans, Goto, ledger, others, locals, Calm,
     TypeOK, OthersFrame
<1>21. CASE RecordRollback(c)
  BY <1>21, AtWorkNow DEF RecordRollback, Goto, corpus, ledger, others,
     locals, Calm, TypeOK, OthersFrame
<1>22. CASE ReadLines(c)
  BY <1>22, AtWorkNow DEF ReadLines, Goto, corpus, others, locals, Calm,
     TypeOK, OthersFrame
<1>23. CASE ReplaceLines(c)
  <2>1. /\ \A q \in Proposals \ {prop[c]} :
               \/ status'[q] = status[q]
               \/ status[q] = "staged" /\ status'[q] = "absent"
        /\ pc' = [pc EXCEPT ![c] = "unlock"] /\ prop' = prop /\ pc[c] # "idle"
    BY <1>23, LinesReplaced DEF CalmInv, IInv
  <2>2. receipt' = receipt
    BY <1>23 DEF ReplaceLines
  <2>3. QED
    BY <2>1, <2>2, AtWorkNow DEF TypeOK, OthersFrame
<1>24. CASE MarkFails(c)
  BY <1>24, AtWorkNow DEF MarkFails, Goto, corpus, ledger, others, locals,
     Calm, TypeOK, OthersFrame
<1>25. CASE Unlock(c)
  BY <1>25, AtWorkNow DEF Unlock, Forget, ReleaseIf, corpus, ledger, others,
     Goto, Calm, TypeOK, OthersFrame
<1>26. CASE Crash(c)
  BY <1>26, AtWorkNow DEF Crash, Forget, ReleaseIf, corpus, others, Goto,
     Calm, TypeOK, OthersFrame
<1>27. QED
  BY <1>1, <1>2, <1>3, <1>4, <1>5, <1>6, <1>7, <1>8, <1>9, <1>10, <1>11,
     <1>12, <1>13, <1>14, <1>15, <1>16, <1>17, <1>18, <1>19, <1>20, <1>21,
     <1>22, <1>23, <1>24, <1>25, <1>26
  DEF Own, Step, Applying, Restoring, Marking

\* A proposal that is not its own keeps its blocks.
LEMMA OthersBlocks ==
    ASSUME Calm, CalmInv, TypeOK', Homes', NEW c \in Appliers, Own(c),
           prop[c] \in Proposals, NEW q \in Proposals, q # prop[c]
    PROVE  Written(q) \cap Live' = Written(q) \cap Live
<1> SUFFICES ASSUME NEW b \in Written(q)
             PROVE  b \in Live' <=> b \in Live
  OBVIOUS
<1>1. b \in Blocks /\ HomeOf[b] \in Targets /\ b \notin Written(prop[c])
  BY WrittenAtHome, WrittenApart
<1>2. content'[HomeOf[b]] \ Written(prop[c]) = content[HomeOf[b]] \ Written(prop[c])
  BY <1>1, TargetsKept DEF KeepsTargets
<1>3. b \in Live <=> b \in content[HomeOf[b]]
  BY <1>1, LiveAtHome DEF CalmInv, IInv
<1>4. b \in Live' <=> b \in content'[HomeOf[b]]
  BY <1>1, LiveAtHomeNext
<1>5. QED
  BY <1>1, <1>2, <1>3, <1>4

\* A proposal whose applier leaves off is as its Status line says.
LEMMA OwnIsTruthful ==
    ASSUME Calm, CalmInv, TypeOK', Homes', NEW c \in Appliers, Own(c),
           NEW p \in Proposals, p = prop[c], p \notin UnderWay'
    PROVE  Truthful(p)'
<1>1. pc[c] # "idle"
  BY OthersKept DEF OthersFrame
<1>2. EndFrame(c)
  BY EndSteps
<1>3. CASE /\ pc[c] \in Early /\ UNCHANGED corpus /\ status' = status
           /\ receipt'[p] = receipt[p] \/ status[p] = "staged"
  <2>1. p \notin UnderWay
    <3> SUFFICES ASSUME NEW a \in Appliers, prop[a] = p, pc[a] \notin Early
                 PROVE  FALSE
      BY DEF UnderWay, Early
    <3>1. a # c
      BY <1>3
    <3>2. prop'[a] = p /\ pc'[a] \notin Early
      BY <3>1, OthersKept DEF OthersFrame
    <3>3. QED
      BY <3>2 DEF UnderWay, Early
  <2>2. Truthful(p)
    BY <2>1 DEF CalmInv, StatusTellsTheTruth, Truthful
  <2>3. QED
    BY <1>3, <2>2, LiveStays DEF Truthful
<1>4. CASE pc'[c] \notin Early /\ prop'[c] = p
  BY <1>4 DEF UnderWay, Early
<1>5. CASE CleanupOrphans(c) /\ status' = status
  <2>1. pc[c] = "orphans"
    BY <1>5 DEF CleanupOrphans
  <2>2. Written(p) \cap Live' = {}
    BY <1>5, <2>1, SweptClean DEF CalmInv, AtWork, HasUndone
  <2>3. status'[p] = "staged"
    BY <1>5, <2>1, AtWorkNow DEF OnCourse
  <2>4. QED
    BY <2>2, <2>3 DEF Truthful
<1>6. CASE pc[c] = "record" /\ UNCHANGED corpus /\ status' = status
  <2>1. Written(p) \cap Live' = {}
    BY <1>6, LiveStays DEF CalmInv, AtWork, HasUndone
  <2>2. status'[p] = "staged"
    BY <1>6, AtWorkNow DEF OnCourse
  <2>3. QED
    BY <2>1, <2>2 DEF Truthful
<1>7. CASE ReplaceLines(c)
  <2>1. /\ pc[c] = "replace"
        /\ \/ status'[p] = "applied" /\ cause[c] = "ok"
           \/ status'[p] \in {"rolled_back", "absent"} /\ cause[c] # "ok"
    BY <1>7, LinesReplaced DEF CalmInv, IInv
  <2>2. receipt' = receipt /\ Live' = Live
    BY <1>7, LiveStays DEF ReplaceLines
  <2>3. cause[c] = "ok" => Written(p) \subseteq Live /\ receipt[p] = "applied"
    BY <2>1 DEF CalmInv, AtWork, HasDone, OnCourse
  <2>4. cause[c] # "ok" => Written(p) \cap Live = {}
    BY <2>1 DEF CalmInv, AtWork, HasUndone
  <2>5. QED
    BY <2>1, <2>2, <2>3, <2>4 DEF Truthful
<1>8. QED
  BY <1>2, <1>3, <1>4, <1>5, <1>6, <1>7 DEF EndFrame

\* Every step leaves the Status lines truthful.
LEMMA TruthStep ==
    ASSUME Calm, CalmInv, TypeOK', Homes', [Next]_vars
    PROVE  StatusTellsTheTruth'
<1>1. CASE Outside
  BY <1>1, OutsideStep
<1>2. ASSUME NEW c \in Appliers, Own(c)
      PROVE  StatusTellsTheTruth'
  <2> SUFFICES ASSUME NEW p \in Proposals, p \notin UnderWay'
               PROVE  Truthful(p)'
    BY DEF StatusTellsTheTruth, Truthful
  <2>1. OthersFrame(c)
    BY <1>2, OthersKept
  <2>2. prop[c] \in Proposals
    BY <2>1, AtWorkNow DEF OthersFrame
  <2>3. CASE p = prop[c]
    BY <1>2, <2>2, <2>3, OwnIsTruthful
  <2>4. CASE p # prop[c]
    <3>1. p \notin UnderWay
      BY <2>1, <2>4 DEF UnderWay, OthersFrame
    <3>2. Truthful(p)
      BY <3>1 DEF CalmInv, StatusTellsTheTruth, Truthful
    <3>3. Written(p) \cap Live' = Written(p) \cap Live
      BY <1>2, <2>2, <2>4, OthersBlocks
    <3>4. /\ receipt'[p] = receipt[p]
          /\ \/ status'[p] = status[p]
             \/ status[p] = "staged" /\ status'[p] = "absent"
      BY <2>1, <2>4 DEF OthersFrame
    <3>5. QED
      BY <3>2, <3>3, <3>4 DEF Truthful
  <2>5. QED
    BY <2>3, <2>4
<1>3. QED
  BY <1>1, <1>2, WhoActs DEF CalmInv, IInv

-----------------------------------------------------------------------------
(* What comes of it.                                                       *)

\* At first nobody is at work and nothing has been written.
LEMMA FirstCalm ==
    ASSUME Calm, Init
    PROVE  CalmInv
<1>1. IInv /\ Homes /\ Once /\ OpWhole
  BY FirstInvariant, FirstHomes, FirstOnce, FirstOpWhole
  DEF Calm, Undisturbed, OneUpdater
<1>2. AtWork
  BY DEF Init, AtWork, OnCourse, IsListed, IsSaved, Reversible, HasDone, HasUndone
<1>3. NothingPending
  BY DEF Init, NothingPending
<1>4. StatusTellsTheTruth
  <2>1. Live = {}
    BY ProposalsAreValid DEF Init, Live
  <2>2. \A p \in Proposals : status[p] # "applied"
    BY DEF Init
  <2>3. QED
    BY <2>1, <2>2 DEF StatusTellsTheTruth
<1>5. QED
  BY <1>1, <1>2, <1>3, <1>4 DEF CalmInv

\* It stays so.
LEMMA CalmStep ==
    ASSUME Calm, CalmInv, [Next]_vars
    PROVE  CalmInv'
<1>1. IInv /\ Homes /\ Once /\ OpWhole /\ OneUpdater /\ Undisturbed
  BY DEF CalmInv, Calm, Undisturbed, OneUpdater
<1>2. IInv'
  BY <1>1, InvariantStep
<1>3. Homes'
  BY <1>1, HomesStep
<1>4. Once'
  BY <1>1, AloneStep, ChanceStep, MarksStep, SettledStep DEF IInv, Once
<1>5. OpWhole'
  BY <1>1, OpWholeStep DEF IInv, Once
<1>6. AtWork'
  BY <1>2, <1>3, AtWorkStep
<1>7. NothingPending'
  BY PendingStep
<1>8. StatusTellsTheTruth'
  BY <1>2, <1>3, TruthStep DEF IInv
<1>9. QED
  BY <1>2, <1>3, <1>4, <1>5, <1>6, <1>7, <1>8 DEF CalmInv

\* While nobody dies and nothing is refused, the Status line of a proposal
\* that nobody is at work on says whether its blocks are in the corpus.
THEOREM StatusIsTrue ==
    ASSUME Calm
    PROVE  Spec => []StatusTellsTheTruth
<1>1. Init => CalmInv
  BY Calm, FirstCalm
<1>2. CalmInv /\ [Next]_vars => CalmInv'
  BY Calm, CalmStep
<1>3. CalmInv => StatusTellsTheTruth
  BY DEF CalmInv
<1>4. QED
  BY <1>1, <1>2, <1>3, PTL DEF Spec

\* Then also all of its blocks are there or none, whichever op failed and
\* whichever check turned it down.
THEOREM AppliesAreWhole ==
    ASSUME Calm
    PROVE  Spec => []AllOrNothing
<1>1. StatusTellsTheTruth => AllOrNothing
  BY DEF StatusTellsTheTruth, AllOrNothing
<1>2. QED
  BY <1>1, StatusIsTrue, PTL

-----------------------------------------------------------------------------
(* The apply engine implements AtomicApply.                                *)

\* What a reader finds but for the proposals under way, and what that comes to.
Seen == Live \ UNION {Written(p) : p \in UnderWay}
Settlement == UNION {Written(p) : p \in {q \in Proposals : status[q] = "applied"}}

\* A proposal under way is staged.
LEMMA UnderWayIsStaged ==
    ASSUME CalmInv, NEW p \in UnderWay
    PROVE  p \in Proposals /\ status[p] = "staged"
<1>1. PICK a \in Appliers : prop[a] = p /\ pc[a] \notin Early
  BY DEF UnderWay, Early
<1>2. pc[a] # "idle" /\ p \in Proposals
  BY <1>1, ProposalsAreValid DEF UnderWay, CalmInv, AtWork, OnCourse
<1>3. QED
  BY <1>1, <1>2, AtWorkNow DEF OnCourse, Early

\* It is what the others wrote and what the applied proposals wrote.
LEMMA WhatIsSeen ==
    ASSUME Calm
    PROVE  CalmInv => Seen = (Live \cap Foreign) \cup Settlement
<1> SUFFICES ASSUME CalmInv
             PROVE  Seen = (Live \cap Foreign) \cup Settlement
  OBVIOUS
<1>1. Live \subseteq Blocks
  BY DEF Live, CalmInv, IInv, TypeOK
<1>2. ASSUME NEW p \in Proposals, status[p] = "applied"
      PROVE  p \notin UnderWay /\ Written(p) \subseteq Live
  BY <1>2, UnderWayIsStaged DEF CalmInv, StatusTellsTheTruth
<1>3. ASSUME NEW b \in Seen
      PROVE  b \in (Live \cap Foreign) \cup Settlement
  <2>1. CASE b \in Foreign
    BY <1>3, <2>1 DEF Seen
  <2>2. ASSUME NEW p \in Proposals, b \in Written(p)
        PROVE  b \in Settlement
    <3>1. p \notin UnderWay /\ b \in Live
      BY <1>3, <2>2 DEF Seen
    <3>2. status[p] = "applied"
      BY <2>2, <3>1 DEF CalmInv, StatusTellsTheTruth
    <3>3. QED
      BY <2>2, <3>2 DEF Settlement
  <2>3. QED
    BY <1>1, <1>3, <2>1, <2>2 DEF Seen, Foreign
<1>4. ASSUME NEW b \in Live \cap Foreign
      PROVE  b \in Seen
  BY <1>4, UnderWayIsStaged DEF Seen, Foreign
<1>5. ASSUME NEW b \in Settlement
      PROVE  b \in Seen
  <2>1. PICK p \in Proposals : status[p] = "applied" /\ b \in Written(p)
    BY DEF Settlement
  <2>2. b \in Live /\ p \notin UnderWay
    BY <1>2, <2>1
  <2>3. \A q \in UnderWay : b \notin Written(q)
    BY <2>1, <2>2, UnderWayIsStaged, WrittenApart
  <2>4. QED
    BY <2>2, <2>3 DEF Seen
<1>6. QED
  BY <1>3, <1>4, <1>5

\* Nobody stages a proposal while others are applied: no line is lost.
AllStaged ==
    /\ \A q \in Proposals : status[q] # "absent"
    /\ \A a \in Appliers : pc[a] = "replace" =>
         \A q \in Proposals : lines[a][q] # "absent"

\* A writer has the lock of its block's file and has read all of it.
HaveRead == \A w \in Writers : writing[w] # None =>
    /\ fileLock[HomeOf[writing[w]]] = w
    /\ content[HomeOf[writing[w]]] \subseteq text[w]

\* Every step keeps the lines that are there.
LEMMA AllStagedStep ==
    ASSUME TypeOK, Equipped, AllStaged, [Next]_vars
    PROVE  AllStaged'
<1>1. ASSUME NEW a \in Appliers, TakeWorkspace(a) PROVE AllStaged'
  BY <1>1 DEF TakeWorkspace, Goto, corpus, ledger, others, locals, TypeOK,
     AllStaged
<1>2. ASSUME NEW a \in Appliers, WorkspaceTimeout(a) PROVE AllStaged'
  BY <1>2 DEF WorkspaceTimeout, Forget, corpus, ledger, others, Goto, TypeOK,
     AllStaged
<1>3. ASSUME NEW a \in Appliers, Recheck(a) PROVE AllStaged'
  BY <1>3 DEF Recheck, Goto, corpus, ledger, others, locals, TypeOK, AllStaged
<1>4. ASSUME NEW a \in Appliers, Replay(a) PROVE AllStaged'
  BY <1>4 DEF Replay, Goto, corpus, ledger, others, locals, TypeOK, AllStaged
<1>5. ASSUME NEW a \in Appliers, ListFiles(a) PROVE AllStaged'
  BY <1>5 DEF ListFiles, Goto, corpus, ledger, others, TypeOK, AllStaged
<1>6. ASSUME NEW a \in Appliers, TakeSnapshot(a) PROVE AllStaged'
  BY <1>6 DEF TakeSnapshot, Goto, corpus, ledger, others, locals, TypeOK,
     AllStaged
<1>7. ASSUME NEW a \in Appliers, Unmeasurable(a) PROVE AllStaged'
  BY <1>7 DEF Unmeasurable, Goto, corpus, ledger, others, TypeOK, AllStaged
<1>8. ASSUME NEW a \in Appliers, WriteReceipt(a) PROVE AllStaged'
  BY <1>8 DEF WriteReceipt, Goto, corpus, ledger, others, locals, TypeOK,
     AllStaged
<1>9. ASSUME NEW a \in Appliers, Begin(a) PROVE AllStaged'
  BY <1>9 DEF Begin, Goto, corpus, ledger, others, locals, TypeOK, AllStaged
<1>10. ASSUME NEW a \in Appliers, WriteBlock(a) PROVE AllStaged'
  BY <1>10 DEF WriteBlock, Goto, ledger, others, TypeOK, AllStaged
<1>11. ASSUME NEW a \in Appliers, OpFails(a) PROVE AllStaged'
  BY <1>11 DEF OpFails, Goto, corpus, ledger, others, locals, TypeOK,
     AllStaged
<1>12. ASSUME NEW a \in Appliers, OpEscapes(a) PROVE AllStaged'
  BY <1>12 DEF OpEscapes, Goto, corpus, ledger, others, locals, TypeOK,
     AllStaged
<1>13. ASSUME NEW a \in Appliers, Commit(a) PROVE AllStaged'
  BY <1>13 DEF Commit, Goto, corpus, ledger, others, TypeOK, AllStaged
<1>14. ASSUME NEW a \in Appliers, PostCheck(a) PROVE AllStaged'
  BY <1>14 DEF PostCheck, Goto, corpus, ledger, others, TypeOK, AllStaged
<1>15. ASSUME NEW a \in Appliers, Close(a) PROVE AllStaged'
  BY <1>15 DEF Close, Goto, corpus, ledger, others, locals, TypeOK, AllStaged
<1>16. ASSUME NEW a \in Appliers, UndoOp(a) PROVE AllStaged'
  BY <1>16 DEF UndoOp, Goto, corpus, ledger, others, TypeOK, AllStaged
<1>17. ASSUME NEW a \in Appliers, OpenRestore(a) PROVE AllStaged'
  BY <1>17 DEF OpenRestore, Goto, corpus, ledger, others, TypeOK, AllStaged
<1>18. ASSUME NEW a \in Appliers, CopyBack(a) PROVE AllStaged'
  BY <1>18 DEF CopyBack, ledger, others, TypeOK, AllStaged
<1>19. ASSUME NEW a \in Appliers, SweepOrphans(a) PROVE AllStaged'
  BY <1>19 DEF SweepOrphans, Goto, ledger, others, locals, TypeOK, AllStaged
<1>20. ASSUME NEW a \in Appliers, CleanupOrphans(a) PROVE AllStaged'
  BY <1>20 DEF CleanupOrphans, Goto, ledger, others, locals, TypeOK, AllStaged
<1>21. ASSUME NEW a \in Appliers, RecordRollback(a) PROVE AllStaged'
  BY <1>21 DEF RecordRollback, Goto, corpus, ledger, others, locals, TypeOK,
     AllStaged
<1>22. ASSUME NEW a \in Appliers, ReadLines(a) PROVE AllStaged'
  BY <1>22 DEF ReadLines, Goto, TypeOK, AllStaged
<1>23. ASSUME NEW a \in Appliers, ReplaceLines(a) PROVE AllStaged'
  <2>1. /\ pc[a] = "replace" /\ prop[a] \in Proposals
        /\ lines' = [lines EXCEPT ![a] = NoLines]
        /\ pc' = [pc EXCEPT ![a] = "unlock"]
    BY <1>23 DEF ReplaceLines, Goto, Equipped
  <2>2. \A q \in Proposals : lines[a][q] # "absent" /\ lines[a] \in [Proposals -> Statuses]
    BY <2>1 DEF AllStaged, TypeOK
  <2>3. \A q \in Proposals : status'[q] # "absent"
    BY <1>23, <2>1, <2>2 DEF ReplaceLines
  <2>4. QED
    BY <2>1, <2>3 DEF AllStaged, TypeOK
<1>24. ASSUME NEW a \in Appliers, MarkFails(a) PROVE AllStaged'
  BY <1>24 DEF MarkFails, Goto, corpus, ledger, others, locals, TypeOK,
     AllStaged
<1>25. ASSUME NEW a \in Appliers, Unlock(a) PROVE AllStaged'
  BY <1>25 DEF Unlock, Forget, ReleaseIf, corpus, ledger, others, Goto,
     TypeOK, AllStaged
<1>26. ASSUME NEW a \in Appliers, Crash(a) PROVE AllStaged'
  BY <1>26 DEF Crash, Forget, ReleaseIf, corpus, others, Goto, TypeOK,
     AllStaged
<1>27. ASSUME NEW a \in Appliers, NEW p \in Proposals, Submit(a, p)
      PROVE  AllStaged'
  BY <1>27 DEF Submit, Goto, corpus, ledger, others, TypeOK, AllStaged
<1>28. ASSUME NEW a \in Appliers, NEW p \in Proposals, RollBack(a, p)
      PROVE  AllStaged'
  BY <1>28 DEF RollBack, Goto, corpus, ledger, others, TypeOK, AllStaged
<1>29. ASSUME NEW p \in Proposals, Stage(p) PROVE AllStaged'
  BY <1>29 DEF Stage, corpus, others, locals, TypeOK, AllStaged
<1>30. ASSUME NEW w \in Writers, NEW b \in Foreign, ReadFile(w, b)
      PROVE  AllStaged'
  BY <1>30 DEF ReadFile, corpus, ledger, locals, TypeOK, AllStaged
<1>31. ASSUME NEW w \in Writers, ReplaceFile(w) PROVE AllStaged'
  BY <1>31 DEF ReplaceFile, ledger, locals, TypeOK, AllStaged
<1>32. CASE ReplayCommand
  BY <1>32 DEF ReplayCommand, ledger, others, locals, TypeOK, AllStaged
<1>33. CASE UNCHANGED vars
  BY <1>33 DEF vars, TypeOK, AllStaged
<1>34. QED
  BY <1>1, <1>2, <1>3, <1>4, <1>5, <1>6, <1>7, <1>8, <1>9, <1>10, <1>11,
     <1>12, <1>13, <1>14, <1>15, <1>16, <1>17, <1>18, <1>19, <1>20, <1>21,
     <1>22, <1>23, <1>24, <1>25, <1>26, <1>27, <1>28, <1>29, <1>30, <1>31,
     <1>32, <1>33
  DEF Next, Step, Applying, Restoring, Marking

\* A file that is no target gains blocks only from the writer that has its
\* lock, and loses none to it.
LEMMA ElsewhereShrinks ==
    ASSUME Calm, CalmInv, HaveRead, [Next]_vars, NEW f \in Files, f \notin Targets
    PROVE  \/ content'[f] \subseteq content[f]
           \/ \E w \in Writers : ReplaceFile(w) /\ HomeOf[writing[w]] = f
<1>1. TypeOK /\ IInv
  BY DEF CalmInv, IInv
<1>2. CorpusFrame
  BY <1>1, FramesStep DEF Frames
<1>3. CASE UNCHANGED corpus
  BY <1>3 DEF corpus
<1>4. CASE journal # <<>> /\ Undoes(journal[1])
  <2>1. PICK c \in Appliers : pc[c] \in {"op", "commit", "undo"}
    BY <1>4 DEF CalmInv, NothingPending
  <2>2. prop[c] \in Proposals /\ op[c] \in DOMAIN OpsOf[prop[c]]
    BY <2>1, AtWorkNow DEF Equipped
  <2>3. journal[1].file = Op(c).file
    BY <2>1 DEF CalmInv, AtWork, Reversible
  <2>4. Op(c).file \in Targets
    BY <2>2 DEF Targets, Touched, OpFiles, Op
  <2>5. QED
    BY <1>1, <1>4, <2>3, <2>4 DEF Undoes, PutBack, TypeOK
<1>5. ASSUME NEW c \in Appliers, WriteBlock(c) PROVE content'[f] \subseteq content[f]
  <2>1. PICK b \in Blocks : content' = [content EXCEPT ![Op(c).file] = @ \cup {b}]
    BY <1>5, WriteInPlace, WrittenAtHome
  <2>2. Op(c).file \in Targets
    BY <1>5, WriteInPlace DEF Targets
  <2>3. QED
    BY <1>1, <2>1, <2>2 DEF TypeOK
<1>6. ASSUME NEW c \in Appliers, CopyBack(c) PROVE content'[f] \subseteq content[f]
  <2>1. PICK g \in Targets : content' = [content EXCEPT ![g] = content[g] \ Written(prop[c])]
    BY <1>6, CopyPutsBack DEF Targets
  <2>2. QED
    BY <1>1, <2>1 DEF TypeOK
<1>7. ASSUME NEW c \in Appliers, SweepOrphans(c) \/ CleanupOrphans(c)
      PROVE  content'[f] \subseteq content[f]
  BY <1>1, <1>7, SweepErases DEF SweepOrphans, CleanupOrphans
<1>8. ASSUME NEW w \in Writers, ReplaceFile(w), HomeOf[writing[w]] # f
      PROVE  content'[f] \subseteq content[f]
  BY <1>1, <1>8 DEF ReplaceFile, PutBack, TypeOK
<1>9. QED
  BY <1>2, <1>3, <1>4, <1>5, <1>6, <1>7, <1>8 DEF CorpusFrame

\* What a writer has read is still all there is when it replaces the file.
LEMMA HaveReadStep ==
    ASSUME Calm, CalmInv, IInv', HaveRead, [Next]_vars
    PROVE  HaveRead'
<1>1. TypeOK /\ TypeOK' /\ WriterFrame
  BY FramesStep DEF CalmInv, IInv, Frames
<1> SUFFICES ASSUME NEW w \in Writers, writing'[w] # None
             PROVE  /\ fileLock'[HomeOf[writing'[w]]] = w
                    /\ content'[HomeOf[writing'[w]]] \subseteq text'[w]
  BY DEF HaveRead
<1> DEFINE f == HomeOf[writing'[w]]
<1>2. CASE UNCHANGED others
  <2>1. /\ writing' = writing /\ text' = text /\ fileLock' = fileLock
    BY <1>2 DEF others
  <2>2. fileLock[f] = w /\ content[f] \subseteq text[w]
    BY <2>1 DEF HaveRead
  <2>3. \A v \in Writers : ~ReplaceFile(v)
    BY <1>1, <2>1 DEF ReplaceFile, TypeOK
  <2>4. f \in Files /\ f \notin Targets
    <3>1. writing[w] \in Foreign
      BY <2>1 DEF CalmInv, OpWhole, WritersAreForeign
    <3>2. QED
      BY <2>1, <3>1, HomesAreFiles DEF Foreign, Calm, Undisturbed, WritersKeepOut, Targets
  <2>5. content'[f] \subseteq content[f]
    BY <2>3, <2>4, ElsewhereShrinks
  <2>6. QED
    BY <2>1, <2>2, <2>5
<1>3. ASSUME NEW v \in Writers, NEW b \in Foreign, ReadFile(v, b)
      PROVE  fileLock'[f] = w /\ content'[f] \subseteq text'[w]
  <2>1. b \in Blocks /\ HomeOf[b] \in Files
    BY HomesAreFiles DEF Foreign
  <2>2. CASE v = w
    BY <1>1, <1>3, <2>1, <2>2 DEF ReadFile, corpus, TypeOK
  <2>3. CASE v # w
    <3>1. writing'[w] = writing[w] /\ text'[w] = text[w]
      BY <1>1, <1>3, <2>3 DEF ReadFile, TypeOK
    <3>2. fileLock[f] = w /\ content[f] \subseteq text[w]
      BY <3>1 DEF HaveRead
    <3>3. HomeOf[b] # f /\ content' = content
      BY <1>3, <3>2, ProposalsAreValid DEF ReadFile, corpus
    <3>4. QED
      BY <1>1, <1>3, <2>1, <3>1, <3>2, <3>3 DEF ReadFile, TypeOK
  <2>4. QED
    BY <2>2, <2>3
<1>4. ASSUME NEW v \in Writers, ReplaceFile(v)
      PROVE  fileLock'[f] = w /\ content'[f] \subseteq text'[w]
  <2>1. v # w
    BY <1>1, <1>4 DEF ReplaceFile, TypeOK
  <2>2. writing'[w] = writing[w] /\ text'[w] = text[w]
    BY <1>1, <1>4, <2>1 DEF ReplaceFile, TypeOK
  <2>3. fileLock[f] = w /\ content[f] \subseteq text[w]
    BY <2>2 DEF HaveRead
  <2>4. f # HomeOf[writing[v]] /\ f \in Files
    BY <1>1, <1>4, <2>1, <2>2, <2>3, HomesAreFiles DEF ReplaceFile, HaveRead, TypeOK
  <2>5. fileLock'[f] = fileLock[f] /\ content'[f] = content[f]
    BY <1>1, <1>4, <2>4 DEF ReplaceFile, PutBack, TypeOK
  <2>6. QED
    BY <2>2, <2>3, <2>5
<1>5. QED
  BY <1>1, <1>2, <1>3, <1>4 DEF WriterFrame

\* The other writers' blocks only become fewer, but by a writer that replaces
\* a file, and then they only become more.
LEMMA ForeignBlocks ==
    ASSUME Calm, CalmInv, IInv', Homes', HaveRead, [Next]_vars
    PROVE  \/ Live' \cap Foreign \subseteq Live \cap Foreign
           \/ /\ \E w \in Writers : ReplaceFile(w)
              /\ Live \cap Foreign \subseteq Live' \cap Foreign
<1>1. TypeOK /\ TypeOK' /\ Homes
  BY DEF CalmInv, IInv
<1>2. \A b \in Foreign :
        /\ b \in Live <=> b \in content[HomeOf[b]]
        /\ b \in Live' <=> b \in content'[HomeOf[b]]
        /\ HomeOf[b] \in Files
  BY <1>1, LiveAtHome, LiveAtHomeNext, HomesAreFiles DEF Foreign
<1>3. CASE \E w \in Writers : ReplaceFile(w)
  <2>1. PICK w \in Writers : ReplaceFile(w)
    BY <1>3
  <2>2. PICK b \in Blocks :
          /\ writing[w] = b /\ writing[w] # None /\ HomeOf[b] \in Files
          /\ content' = [content EXCEPT ![HomeOf[b]] = text[w] \cup {b}]
    BY <2>1, ReplacementGoesHome DEF CalmInv
  <2>3. content[HomeOf[b]] \subseteq text[w]
    BY <2>2 DEF HaveRead
  <2>4. \A f \in Files : content[f] \subseteq content'[f]
    BY <1>1, <2>2, <2>3 DEF TypeOK
  <2>5. QED
    BY <1>2, <1>3, <2>4
<1>4. CASE ~\E w \in Writers : ReplaceFile(w)
  <2>1. \A b \in Foreign : HomeOf[b] \notin Targets
    BY DEF Calm, Undisturbed, WritersKeepOut, Targets
  <2>2. \A b \in Foreign : content'[HomeOf[b]] \subseteq content[HomeOf[b]]
    BY <1>2, <1>4, <2>1, ElsewhereShrinks
  <2>3. QED
    BY <1>2, <2>2
<1>5. QED
  BY <1>3, <1>4

\* A Status line is changed by its replacement only.
LEMMA WhoSettles ==
    ASSUME NEW c \in Appliers, Own(c)
    PROVE  ReplaceLines(c) \/ status' = status
<1>1. CASE TakeWorkspace(c)
  BY <1>1 DEF TakeWorkspace, Goto, corpus, ledger, others, locals
<1>2. CASE WorkspaceTimeout(c)
  BY <1>2 DEF WorkspaceTimeout, Forget, corpus, ledger, others, Goto
<1>3. CASE Recheck(c)
  BY <1>3 DEF Recheck, Goto, corpus, ledger, others, locals
<1>4. CASE Replay(c)
  BY <1>4 DEF Replay, Goto, corpus, ledger, others, locals
<1>5. CASE ListFiles(c)
  BY <1>5 DEF ListFiles, Goto, corpus, ledger, others
<1>6. CASE TakeSnapshot(c)
  BY <1>6 DEF TakeSnapshot, Goto, corpus, ledger, others, locals
<1>7. CASE Unmeasurable(c)
  BY <1>7 DEF Unmeasurable, Goto, corpus, ledger, others
<1>8. CASE WriteReceipt(c)
  BY <1>8 DEF WriteReceipt, Goto, corpus, ledger, others, locals
<1>9. CASE Begin(c)
  BY <1>9 DEF Begin, Goto, corpus, ledger, others, locals
<1>10. CASE WriteBlock(c)
  BY <1>10 DEF WriteBlock, Goto, ledger, others
<1>11. CASE OpFails(c)
  BY <1>11 DEF OpFails, Goto, corpus, ledger, others, locals
<1>12. CASE OpEscapes(c)
  BY <1>12 DEF OpEscapes, Goto, corpus, ledger, others, locals
<1>13. CASE Commit(c)
  BY <1>13 DEF Commit, Goto, corpus, ledger, others
<1>14. CASE PostCheck(c)
  BY <1>14 DEF PostCheck, Goto, corpus, ledger, others
<1>15. CASE Close(c)
  BY <1>15 DEF Close, Goto, corpus, ledger, others, locals
<1>16. CASE UndoOp(c)
  BY <1>16 DEF UndoOp, Goto, corpus, ledger, others
<1>17. CASE OpenRestore(c)
  BY <1>17 DEF OpenRestore, Goto, corpus, ledger, others
<1>18. CASE CopyBack(c)
  BY <1>18 DEF CopyBack, ledger, others
<1>19. CASE SweepOrphans(c)
  BY <1>19 DEF SweepOrphans, Goto, ledger, others, locals
<1>20. CASE CleanupOrphans(c)
  BY <1>20 DEF CleanupOrphans, Goto, ledger, others, locals
<1>21. CASE RecordRollback(c)
  BY <1>21 DEF RecordRollback, Goto, corpus, ledger, others, locals
<1>22. CASE ReadLines(c)
  BY <1>22 DEF ReadLines, Goto, corpus, others, locals
<1>23. CASE ReplaceLines(c)
  BY <1>23 DEF ReplaceLines, Goto, corpus, others, locals
<1>24. CASE MarkFails(c)
  BY <1>24 DEF MarkFails, Goto, corpus, ledger, others, locals
<1>25. CASE Unlock(c)
  BY <1>25 DEF Unlock, Forget, ReleaseIf, corpus, ledger, others, Goto
<1>26. CASE Crash(c)
  BY <1>26 DEF Crash, Forget, ReleaseIf, corpus, others, Goto
<1>27. QED
  BY <1>1, <1>2, <1>3, <1>4, <1>5, <1>6, <1>7, <1>8, <1>9, <1>10, <1>11,
     <1>12, <1>13, <1>14, <1>15, <1>16, <1>17, <1>18, <1>19, <1>20, <1>21,
     <1>22, <1>23, <1>24, <1>25, <1>26
  DEF Own, Step, Applying, Restoring, Marking

\* Replacing the Status lines settles one proposal, and no line is lost.
LEMMA OneIsSettled ==
    ASSUME Calm, CalmInv, TypeOK', AllStaged, AllStaged', NEW c \in Appliers,
           ReplaceLines(c)
    PROVE  \E p \in Proposals :
             /\ status[p] = "staged"
             /\ \/ status' = [status EXCEPT ![p] = "applied"]
                \/ status' = [status EXCEPT ![p] = "rolled_back"]
<1>1. /\ prop[c] \in Proposals /\ status[prop[c]] = "staged"
      /\ status'[prop[c]] \in {"applied", "rolled_back"}
      /\ \A q \in Proposals \ {prop[c]} : status'[q] = status[q]
  <2>1. /\ pc[c] = "replace" /\ prop[c] \in Proposals
        /\ \A q \in Proposals \ {prop[c]} :
             status'[q] = status[q] \/ status'[q] = "absent"
        /\ status'[prop[c]] \in {"applied", "rolled_back", "absent"}
    BY LinesReplaced DEF CalmInv, IInv
  <2>2. QED
    BY <2>1, AtWorkNow DEF AllStaged, OnCourse
<1>2. /\ status \in [Proposals -> Statuses] /\ status' \in [Proposals -> Statuses]
  BY DEF CalmInv, IInv, TypeOK
<1>3. \/ status' = [status EXCEPT ![prop[c]] = "applied"]
      \/ status' = [status EXCEPT ![prop[c]] = "rolled_back"]
  <2>1. CASE status'[prop[c]] = "applied"
    BY <1>1, <1>2, <2>1
  <2>2. CASE status'[prop[c]] = "rolled_back"
    BY <1>1, <1>2, <2>2
  <2>3. QED
    BY <1>1, <2>1, <2>2
<1>4. QED
  BY <1>1, <1>3

\* Every step is one of AtomicApply, or nothing to a reader: other writers'
\* blocks come and go, and a proposal's come with its Status line.
LEMMA StepsAreAtomic ==
    ASSUME Calm, CalmInv, CalmInv', AllStaged, AllStaged', HaveRead, [Next]_vars
    PROVE  [Atomic!Next]_Atomic!vars
<1>1. Seen = (Live \cap Foreign) \cup Settlement
  BY WhatIsSeen
<1>2. Seen' = (Live' \cap Foreign) \cup Settlement'
  <2>1. (CalmInv => Seen = (Live \cap Foreign) \cup Settlement)'
    BY Calm, WhatIsSeen, PTL
  <2>2. QED
    BY <2>1
<1>3. /\ Settlement \cap Foreign = {}
      /\ status \in [Proposals -> Statuses]
  BY DEF Settlement, Foreign, CalmInv, IInv, TypeOK
<1>4. CASE status' = status
  <2>1. Settlement' = Settlement
    BY <1>4 DEF Settlement
  <2>2. \/ Live' \cap Foreign \subseteq Live \cap Foreign
        \/ Live \cap Foreign \subseteq Live' \cap Foreign
    BY ForeignBlocks DEF CalmInv
  <2>3. CASE Live' \cap Foreign \subseteq Live \cap Foreign
    <3> DEFINE lost == (Live \cap Foreign) \ Live'
    <3>1. lost \in SUBSET Foreign
      OBVIOUS
    <3>2. Seen' = Seen \ lost
      BY <1>1, <1>2, <1>3, <2>1, <2>3
    <3>3. Atomic!Withdraw(lost)
      BY <1>4, <3>2 DEF Seen, Atomic!Withdraw
    <3>4. QED
      BY <3>1, <3>3 DEF Atomic!Next
  <2>4. CASE Live \cap Foreign \subseteq Live' \cap Foreign
    <3> DEFINE more == Live' \cap Foreign
    <3>1. more \in SUBSET Foreign
      OBVIOUS
    <3>2. Seen' = Seen \cup more
      BY <1>1, <1>2, <2>1, <2>4
    <3>3. Atomic!Write(more)
      BY <1>4, <3>2 DEF Seen, Atomic!Write
    <3>4. QED
      BY <3>1, <3>3 DEF Atomic!Next
  <2>5. QED
    BY <2>2, <2>3, <2>4
<1>5. ASSUME NEW c \in Appliers, ReplaceLines(c)
      PROVE  Atomic!Next
  <2>1. Live' = Live
    BY <1>5, LiveStays DEF ReplaceLines
  <2>2. PICK p \in Proposals :
          /\ status[p] = "staged"
          /\ \/ status' = [status EXCEPT ![p] = "applied"]
             \/ status' = [status EXCEPT ![p] = "rolled_back"]
    BY <1>5, OneIsSettled DEF CalmInv, IInv
  <2>3. CASE status' = [status EXCEPT ![p] = "applied"]
    <3>1. Settlement' = Settlement \cup Written(p)
      BY <1>3, <2>2, <2>3 DEF Settlement
    <3>2. Seen' = Seen \cup Written(p)
      BY <1>1, <1>2, <2>1, <3>1
    <3>3. Atomic!Apply(p)
      BY <2>2, <2>3, <3>2 DEF Seen, Atomic!Apply
    <3>4. QED
      BY <3>3 DEF Atomic!Next
  <2>4. CASE status' = [status EXCEPT ![p] = "rolled_back"]
    <3>1. Settlement' = Settlement
      BY <1>3, <2>2, <2>4 DEF Settlement
    <3>2. Seen' = Seen
      BY <1>1, <1>2, <2>1, <3>1
    <3>3. Atomic!Reject(p)
      BY <2>2, <2>4, <3>2 DEF Seen, Atomic!Reject
    <3>4. QED
      BY <3>3 DEF Atomic!Next
  <2>5. QED
    BY <2>2, <2>3, <2>4
<1>6. CASE Outside
  <2>1. \A p \in Proposals : ~Stage(p)
    BY DEF Stage, AllStaged
  <2>2. QED
    BY <1>4, <1>6, <2>1 DEF Outside
<1>7. QED
  BY <1>4, <1>5, <1>6, WhoActs, WhoSettles DEF CalmInv, IInv

\* While nobody dies and nothing is refused, an apply, however many writes,
\* checks and copies it takes and whatever other writers do in the meantime, is
\* one step of AtomicApply: the blocks come with the Status line or not at all.
THEOREM AppliesInOneStep ==
    ASSUME Calm, FirstStaged = Proposals
    PROVE  Spec => AppliesAtomically
<1> DEFINE Inv == CalmInv /\ AllStaged /\ HaveRead
<1>1. Init => Inv
  <2> SUFFICES ASSUME Init PROVE Inv
    OBVIOUS
  <2>1. CalmInv
    BY Calm, FirstCalm
  <2>2. AllStaged /\ HaveRead
    BY FirstStaged = Proposals DEF Init, AllStaged, HaveRead
  <2>3. QED
    BY <2>1, <2>2
<1>2. Inv /\ [Next]_vars => Inv'
  <2> SUFFICES ASSUME Inv, [Next]_vars PROVE Inv'
    OBVIOUS
  <2>1. CalmInv'
    BY Calm, CalmStep
  <2>2. AllStaged'
    BY AllStagedStep DEF CalmInv, IInv
  <2>3. HaveRead'
    BY Calm, <2>1, HaveReadStep DEF CalmInv
  <2>4. QED
    BY <2>1, <2>2, <2>3
<1>3. Init => Atomic!Init
  <2> SUFFICES ASSUME Init PROVE Atomic!Init
    OBVIOUS
  <2>1. Live = {}
    BY ProposalsAreValid DEF Init, Live
  <2>2. status \in [Proposals -> {"absent", "staged"}]
    BY DEF Init
  <2>3. QED
    BY <2>1, <2>2 DEF Atomic!Init
<1>4. Inv /\ Inv' /\ [Next]_vars => [Atomic!Next]_Atomic!vars
  BY Calm, StepsAreAtomic
<1>5. QED
  BY <1>1, <1>2, <1>3, <1>4, PTL DEF Spec, AppliesAtomically, Atomic!Spec
=============================================================================
