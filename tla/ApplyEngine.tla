----------------------------- MODULE ApplyEngine -----------------------------
(***************************************************************************)
(* The apply engine of mind-mem (src/mind_mem/apply_engine.py) with its    *)
(* write-ahead journal (backup_restore.WAL), the snapshots of the markdown *)
(* block store (block_store.py) and the file the proposals are staged in.  *)
(* An applier checks a proposal, takes the workspace lock, checks again,   *)
(* undoes what a dead apply left in the journal, snapshots the files the   *)
(* proposal touches, runs the ops each under a journal entry, checks the   *)
(* corpus, and marks the proposal; any failure it catches restores the     *)
(* snapshot.  Other writers, stagers and an operator act at the same time. *)
(*                                                                         *)
(* A file is the set of the blocks in it, a block being one written        *)
(* version: every op comes down to writes of such blocks, one after the    *)
(* other, and no two writes share an id.  The workspace lock is one of     *)
(* FileLock, here one atomic step.                                         *)
(***************************************************************************)
EXTENDS Sequences, Naturals, FiniteSets, SequencesExt

CONSTANTS Appliers,      \* processes that apply or roll back proposals
          Writers,       \* processes that write blocks of their own
          Proposals,
          Files,         \* the corpus files
          Blocks,
          RootOf,        \* the top-level directory of each file
          HomeOf,        \* the file BlockStore.write_block writes each block to
          OpsOf,         \* each proposal's Ops: a sequence of [file, writes]
          FirstFiles,    \* the files of a new workspace
          FirstStaged,   \* the proposals staged before the behaviour begins
          None

CONSTANTS Crashes,       \* may an applier die?
          Escapes,       \* may an op raise what execute_op does not catch?
          Drift,         \* may the governance gate refuse an admission?
          MarkMayFail,   \* may the Status update time out or fail?
          Operator       \* does anybody run rollback and wal-replay?

Statuses == {"absent", "staged", "applied", "rolled_back"}
Receipts == {"none", "in_progress", "applied", "rolled_back"}

OpFiles(p)  == {OpsOf[p][i].file : i \in DOMAIN OpsOf[p]}
OpBlocks(p, i) == ToSet(OpsOf[p][i].writes)
Written(p)  == UNION {OpBlocks(p, i) : i \in DOMAIN OpsOf[p]}
Foreign     == Blocks \ UNION {Written(p) : p \in Proposals}

\* What validate_proposal makes sure of: ops there are, and each names a file.
ASSUME ProposalsAreValid ==
    /\ HomeOf \in [Blocks -> Files]
    /\ RootOf \in [Files -> {RootOf[f] : f \in Files}]
    /\ OpsOf \in [Proposals -> Seq([file : Files, writes : Seq(Blocks)])]
    /\ \A p \in Proposals :
         /\ OpsOf[p] # <<>>
         /\ \A i \in DOMAIN OpsOf[p] : OpsOf[p][i].writes # <<>>
    /\ FirstFiles \subseteq Files /\ FirstStaged \subseteq Proposals
    /\ None \notin Appliers \cup Writers \cup Proposals
    /\ {Crashes, Escapes, Drift, MarkMayFail, Operator} \subseteq BOOLEAN

VARIABLES present,   \* the corpus files that exist
          content,   \* the blocks in each file
          journal,   \* the pending entries of .mind-mem-wal, oldest first
          snapshot,  \* the snapshot of each proposal's last apply, or None
          receipt,   \* the last Result line of the receipt beside it
          status,    \* the Status lines of the proposal file
          lock,      \* who holds the workspace lock
          marker,    \* who holds the lock of _mark_proposal_status
          fileLock   \* the writer that holds each corpus file's lock

VARIABLES pc,        \* where each applier is
          prop,      \* the proposal it works on
          listing,   \* its pre_apply_files
          op,        \* the op it executes
          nth,       \* the next write of that op
          todo,      \* the files a restore has still to copy back
          cause,     \* why it restores or rolls back, or "ok"
          lines,     \* the Status lines it read and will write back
          writing,   \* the block each writer holds a file lock for
          text,      \* the blocks a writer read and will write back
          wins       \* history: how often an apply of each proposal succeeded

corpus  == <<present, content>>
ledger  == <<status, marker, lines>>
others  == <<fileLock, writing, text>>
locals  == <<prop, listing, op, nth, todo, cause>>
vars == <<present, content, journal, snapshot, receipt, status, lock, marker,
          fileLock, pc, prop, listing, op, nth, todo, cause, lines, writing,
          text, wins>>

PCs == {"idle", "wait", "recheck", "replay", "list", "snapshot", "precheck",
        "begin", "op", "commit", "undo", "postcheck", "close", "restore",
        "copy", "orphans", "record", "mark", "replace", "unlock"}

Snapshots == [files : SUBSET Files, saved : [Files -> SUBSET Blocks],
              inventory : SUBSET Files]
Entries   == [file : Files, existed : BOOLEAN, backup : SUBSET Blocks]

\* A proposal without a snapshot can be told from one with a snapshot.
ASSUME NoneIsNoSnapshot == None \notin Snapshots

\* Two successes are one too many: the history counts no further.
MaxWins == 2

TypeOK ==
    /\ present \subseteq Files
    /\ content \in [Files -> SUBSET Blocks]
    /\ journal \in Seq(Entries)
    /\ snapshot \in [Proposals -> Snapshots \cup {None}]
    /\ receipt \in [Proposals -> Receipts]
    /\ status \in [Proposals -> Statuses]
    /\ lock \in Appliers \cup {None} /\ marker \in Appliers \cup {None}
    /\ fileLock \in [Files -> Writers \cup {None}]
    /\ pc \in [Appliers -> PCs]
    /\ prop \in [Appliers -> Proposals \cup {None}]
    /\ listing \in [Appliers -> SUBSET Files]
    /\ op \in [Appliers -> Nat] /\ nth \in [Appliers -> Nat]
    /\ todo \in [Appliers -> SUBSET Files]
    /\ cause \in [Appliers -> {"ok", "unmeasurable", "failed", "regressed", "rollback"}]
    /\ lines \in [Appliers -> [Proposals -> Statuses]]
    /\ writing \in [Writers -> Blocks \cup {None}]
    /\ text \in [Writers -> SUBSET Blocks]
    /\ wins \in [Proposals -> 0..MaxWins]

NoLines == [p \in Proposals |-> "absent"]

Init ==
    /\ present = FirstFiles
    /\ content = [f \in Files |-> {}]
    /\ journal = <<>>
    /\ snapshot = [p \in Proposals |-> None]
    /\ receipt = [p \in Proposals |-> "none"]
    /\ status = [p \in Proposals |-> IF p \in FirstStaged THEN "staged" ELSE "absent"]
    /\ lock = None /\ marker = None
    /\ fileLock = [f \in Files |-> None]
    /\ pc = [a \in Appliers |-> "idle"]
    /\ prop = [a \in Appliers |-> None]
    /\ listing = [a \in Appliers |-> {}]
    /\ op = [a \in Appliers |-> 1] /\ nth = [a \in Appliers |-> 1]
    /\ todo = [a \in Appliers |-> {}]
    /\ cause = [a \in Appliers |-> "ok"]
    /\ lines = [a \in Appliers |-> NoLines]
    /\ writing = [w \in Writers |-> None]
    /\ text = [w \in Writers |-> {}]
    /\ wins = [p \in Proposals |-> 0]

-----------------------------------------------------------------------------
(* Steps of an applier.                                                    *)

Goto(a, there) == pc' = [pc EXCEPT ![a] = there]

Op(a) == OpsOf[prop[a]][op[a]]

\* What an applier that is done forgets.
Forget(a) ==
    /\ Goto(a, "idle")
    /\ prop' = [prop EXCEPT ![a] = None]
    /\ listing' = [listing EXCEPT ![a] = {}]
    /\ op' = [op EXCEPT ![a] = 1] /\ nth' = [nth EXCEPT ![a] = 1]
    /\ todo' = [todo EXCEPT ![a] = {}]
    /\ cause' = [cause EXCEPT ![a] = "ok"]

\* A file as it was, or gone again if it was not there.
PutBack(file, existed, blocks) ==
    /\ content' = [content EXCEPT ![file] = blocks]
    /\ present' = IF existed THEN present \cup {file} ELSE present \ {file}

Erase(files) ==
    /\ present' = present \ files
    /\ content' = [f \in Files |-> IF f \in files THEN {} ELSE content[f]]

\* Every check before the lock is passed; one that is not returns at once,
\* having changed nothing.
Submit(a, p) ==
    /\ pc[a] = "idle"
    /\ status[p] = "staged"
    /\ Goto(a, "wait")
    /\ prop' = [prop EXCEPT ![a] = p]
    /\ UNCHANGED <<corpus, journal, snapshot, receipt, ledger, lock, others,
                   listing, op, nth, todo, cause, wins>>

TakeWorkspace(a) ==
    /\ pc[a] = "wait" /\ lock = None
    /\ lock' = a
    /\ Goto(a, "recheck")
    /\ UNCHANGED <<corpus, journal, snapshot, receipt, ledger, others, locals, wins>>

WorkspaceTimeout(a) ==
    /\ pc[a] = "wait" /\ lock # None
    /\ Forget(a)
    /\ UNCHANGED <<corpus, journal, snapshot, receipt, ledger, lock, others, wins>>

\* Seeded fault: the status is not read again under the lock.
RecheckNothing(a) ==
    /\ pc[a] = "recheck"
    /\ Goto(a, "replay")
    /\ UNCHANGED <<corpus, journal, snapshot, receipt, ledger, lock, others, locals, wins>>

\* The status is read again under the lock; the other checks are not repeated.
Recheck(a) ==
    /\ pc[a] = "recheck"
    /\ Goto(a, IF status[prop[a]] = "staged" THEN "replay" ELSE "unlock")
    /\ UNCHANGED <<corpus, journal, snapshot, receipt, ledger, lock, others, locals, wins>>

\* Seeded faults: a dead apply's entries are left for later, or dropped
\* without putting their files back.
ReplayNothing(a) ==
    /\ pc[a] = "replay"
    /\ Goto(a, "list")
    /\ UNCHANGED <<corpus, journal, snapshot, receipt, ledger, lock, others, locals, wins>>

ReplayDrops(a) ==
    /\ pc[a] = "replay"
    /\ IF journal = <<>> THEN Goto(a, "list") /\ UNCHANGED journal
                         ELSE journal' = Tail(journal) /\ UNCHANGED pc
    /\ UNCHANGED <<corpus, snapshot, receipt, ledger, lock, others, locals, wins>>

Replay(a) ==
    /\ pc[a] = "replay"
    /\ IF journal = <<>>
         THEN Goto(a, "list") /\ UNCHANGED <<corpus, journal>>
         ELSE LET e == Head(journal) IN
              /\ PutBack(e.file, e.existed, e.backup)
              /\ journal' = Tail(journal)
              /\ UNCHANGED pc
    /\ UNCHANGED <<snapshot, receipt, ledger, lock, others, locals, wins>>

ListFiles(a) ==
    /\ pc[a] = "list"
    /\ listing' = [listing EXCEPT ![a] = present]
    /\ Goto(a, "snapshot")
    /\ UNCHANGED <<corpus, journal, snapshot, receipt, ledger, lock, others,
                   prop, op, nth, todo, cause, wins>>

\* FilesTouched, which holds at least the files of the ops.
Touched(p) == OpFiles(p)

InRootsOf(files) == {f \in Files : \E g \in files : RootOf[g] = RootOf[f]}

\* The copies of the touched files, and the inventory of their directories.
TakeSnapshot(a) ==
    /\ pc[a] = "snapshot"
    /\ LET p == prop[a] IN
       /\ snapshot' = [snapshot EXCEPT ![p] =
             [files     |-> Touched(p) \cap present,
              saved     |-> [f \in Files |-> IF f \in Touched(p) THEN content[f] ELSE {}],
              inventory |-> InRootsOf(Touched(p)) \cap present]]
       /\ receipt' = [receipt EXCEPT ![p] = "none"]
    /\ Goto(a, "precheck")
    /\ UNCHANGED <<corpus, journal, ledger, lock, others, locals, wins>>

\* No verdict: nothing has been written yet, and the snapshot is restored.
Unmeasurable(a) ==
    /\ pc[a] = "precheck"
    /\ cause' = [cause EXCEPT ![a] = "unmeasurable"]
    /\ Goto(a, "restore")
    /\ UNCHANGED <<corpus, journal, snapshot, receipt, ledger, lock, others,
                   prop, listing, op, nth, todo, wins>>

\* The receipt is on disk before the governance gate is asked; the gate may
\* raise GovernanceBypassError.
WriteReceipt(a) ==
    /\ pc[a] = "precheck"
    /\ receipt' = [receipt EXCEPT ![prop[a]] = "in_progress"]
    /\ \/ Goto(a, "begin")
       \/ Drift /\ Goto(a, "unlock")
    /\ UNCHANGED <<corpus, journal, snapshot, ledger, lock, others, locals, wins>>

\* WAL.begin.  A crash within it leaves no entry, or one replay cannot read.
Begin(a) ==
    /\ pc[a] = "begin"
    /\ journal' = Append(journal, [file    |-> Op(a).file,
                                   existed |-> Op(a).file \in present,
                                   backup  |-> content[Op(a).file]])
    /\ Goto(a, "op")
    /\ UNCHANGED <<corpus, snapshot, receipt, ledger, lock, others, locals, wins>>

\* One BlockStore.write_block: read, replace one block, rename, all under the
\* lock of the block's own file.  An op on a file that is missing fails.
WriteBlock(a) ==
    /\ pc[a] = "op"
    /\ nth[a] > 1 \/ Op(a).file \in present
    /\ LET b == Op(a).writes[nth[a]] IN
       /\ fileLock[HomeOf[b]] = None
       /\ content' = [content EXCEPT ![HomeOf[b]] = @ \cup {b}]
       /\ present' = present \cup {HomeOf[b]}
    /\ IF nth[a] < Len(Op(a).writes)
         THEN nth' = [nth EXCEPT ![a] = @ + 1] /\ UNCHANGED pc
         ELSE nth' = [nth EXCEPT ![a] = 1] /\ Goto(a, "commit")
    /\ UNCHANGED <<journal, snapshot, receipt, ledger, lock, others,
                   prop, listing, op, todo, cause, wins>>

\* execute_op returns False: a check of its own, or one of the exceptions it
\* catches, before or between its writes.
OpFails(a) ==
    /\ pc[a] = "op"
    /\ Goto(a, "undo")
    /\ UNCHANGED <<corpus, journal, snapshot, receipt, ledger, lock, others, locals, wins>>

\* Seeded fault: the workspace lock is not released by a finally.
OpEscapesLocked(a) ==
    /\ pc[a] = "op" /\ Escapes
    /\ Forget(a)
    /\ UNCHANGED <<corpus, journal, snapshot, receipt, ledger, lock, others, wins>>

\* LockTimeout and GovernanceBypassError are none of those it catches: they
\* leave the apply, and only the workspace lock's finally runs.
OpEscapes(a) ==
    /\ pc[a] = "op" /\ Escapes
    /\ Goto(a, "unlock")
    /\ UNCHANGED <<corpus, journal, snapshot, receipt, ledger, lock, others, locals, wins>>

\* WAL.commit.  Rewriting the entry as committed, or tearing it, ends it.
Commit(a) ==
    /\ pc[a] = "commit"
    /\ journal' = IF journal = <<>> THEN <<>> ELSE Front(journal)
    /\ IF op[a] < Len(OpsOf[prop[a]])
         THEN op' = [op EXCEPT ![a] = @ + 1] /\ Goto(a, "begin")
         ELSE UNCHANGED op /\ Goto(a, "postcheck")
    /\ UNCHANGED <<corpus, snapshot, receipt, ledger, lock, others,
                   prop, listing, nth, todo, cause, wins>>

\* Seeded fault: an op that fails is undone, those before it are not.
UndoOpAlone(a) ==
    /\ pc[a] = "undo"
    /\ PutBack(Last(journal).file, Last(journal).existed, Last(journal).backup)
    /\ journal' = Front(journal)
    /\ Goto(a, "unlock")
    /\ UNCHANGED <<snapshot, receipt, ledger, lock, others, locals, wins>>

\* WAL.rollback of the op that failed.
UndoOp(a) ==
    /\ pc[a] = "undo"
    /\ IF journal = <<>>
         THEN UNCHANGED <<corpus, journal>>
         ELSE LET e == Last(journal) IN
              /\ PutBack(e.file, e.existed, e.backup)
              /\ journal' = Front(journal)
    /\ cause' = [cause EXCEPT ![a] = "failed"]
    /\ Goto(a, "restore")
    /\ UNCHANGED <<snapshot, receipt, ledger, lock, others,
                   prop, listing, op, nth, todo, wins>>

PostCheck(a) ==
    /\ pc[a] = "postcheck"
    /\ \/ Goto(a, "close") /\ UNCHANGED cause
       \/ Goto(a, "restore") /\ cause' = [cause EXCEPT ![a] = "regressed"]
    /\ UNCHANGED <<corpus, journal, snapshot, receipt, ledger, lock, others,
                   prop, listing, op, nth, todo, wins>>

\* Leaving the admission scope records its close, which the gate may refuse;
\* then the receipt is completed.
Close(a) ==
    /\ pc[a] = "close"
    /\ \/ /\ receipt' = [receipt EXCEPT ![prop[a]] = "applied"]
          /\ Goto(a, "mark")
       \/ /\ Drift
          /\ UNCHANGED receipt
          /\ Goto(a, "unlock")
    /\ UNCHANGED <<corpus, journal, snapshot, ledger, lock, others, locals, wins>>

-----------------------------------------------------------------------------
(* Restoring a snapshot.                                                   *)

\* rollback takes no lock: it may begin while an apply is under way.
RollBack(a, p) ==
    /\ Operator
    /\ pc[a] = "idle" /\ snapshot[p] # None
    /\ prop' = [prop EXCEPT ![a] = p]
    /\ cause' = [cause EXCEPT ![a] = "rollback"]
    /\ Goto(a, "restore")
    /\ UNCHANGED <<corpus, journal, snapshot, receipt, ledger, lock, others,
                   listing, op, nth, todo, wins>>

\* Seeded fault: only the file of the last op is put back.
OpenRestoreOfOp(a) ==
    /\ pc[a] = "restore"
    /\ todo' = [todo EXCEPT ![a] = {Op(a).file}]
    /\ Goto(a, "copy")
    /\ UNCHANGED <<corpus, journal, snapshot, receipt, ledger, lock, others,
                   prop, listing, op, nth, cause, wins>>

\* The restore has to be admitted; a gate that refuses it raises.
OpenRestore(a) ==
    /\ pc[a] = "restore"
    /\ \/ /\ todo' = [todo EXCEPT ![a] = snapshot[prop[a]].files]
          /\ Goto(a, "copy")
       \/ /\ Drift
          /\ UNCHANGED todo
          /\ Goto(a, "unlock")
    /\ UNCHANGED <<corpus, journal, snapshot, receipt, ledger, lock, others,
                   prop, listing, op, nth, cause, wins>>

\* shutil.copy2 onto the live file, without that file's lock.
CopyBack(a) ==
    /\ pc[a] = "copy"
    /\ \E f \in todo[a] :
         /\ PutBack(f, TRUE, snapshot[prop[a]].saved[f])
         /\ todo' = [todo EXCEPT ![a] = @ \ {f}]
    /\ UNCHANGED <<journal, snapshot, receipt, ledger, lock, others, pc,
                   prop, listing, op, nth, cause, wins>>

\* Seeded fault: what the manifest does not name goes, inventory or not.
SweepOrphansOfManifest(a) ==
    /\ pc[a] = "copy" /\ todo[a] = {}
    /\ Erase(InRootsOf(Touched(prop[a])) \ snapshot[prop[a]].files)
    /\ Goto(a, IF cause[a] = "rollback" THEN "record" ELSE "orphans")
    /\ UNCHANGED <<journal, snapshot, receipt, ledger, lock, others, locals, wins>>

\* The files of the touched directories that the inventory does not name go.
SweepOrphans(a) ==
    /\ pc[a] = "copy" /\ todo[a] = {}
    /\ Erase(InRootsOf(Touched(prop[a])) \ snapshot[prop[a]].inventory)
    /\ Goto(a, IF cause[a] = "rollback" THEN "record" ELSE "orphans")
    /\ UNCHANGED <<journal, snapshot, receipt, ledger, lock, others, locals, wins>>

\* An apply also removes what was not there when it listed the workspace.
CleanupOrphans(a) ==
    /\ pc[a] = "orphans"
    /\ Erase(Files \ listing[a])
    /\ Goto(a, IF cause[a] = "unmeasurable" THEN "unlock" ELSE "record")
    /\ UNCHANGED <<journal, snapshot, receipt, ledger, lock, others, locals, wins>>

\* "Result: rolled_back" in the receipt.  An op failure leaves the proposal
\* staged; a rollback without a receipt updates nothing.
RecordRollback(a) ==
    /\ pc[a] = "record"
    /\ LET p == prop[a] IN
       IF cause[a] = "rollback" /\ receipt[p] = "none"
         THEN UNCHANGED receipt /\ Goto(a, "unlock")
         ELSE /\ receipt' = [receipt EXCEPT ![p] = "rolled_back"]
              /\ Goto(a, IF cause[a] = "failed" THEN "unlock" ELSE "mark")
    /\ UNCHANGED <<corpus, journal, snapshot, ledger, lock, others, locals, wins>>

-----------------------------------------------------------------------------
(* The Status line.                                                        *)

Succeeded(a) ==
    wins' = IF cause[a] # "ok" THEN wins
            ELSE [wins EXCEPT ![prop[a]] = IF @ < MaxWins THEN @ + 1 ELSE @]

\* _mark_proposal_status reads the whole proposal file under a lock that the
\* stagers do not take ...
ReadLines(a) ==
    /\ pc[a] = "mark" /\ marker = None
    /\ marker' = a
    /\ lines' = [lines EXCEPT ![a] = status]
    /\ Goto(a, "replace")
    /\ UNCHANGED <<corpus, journal, snapshot, receipt, status, lock, others,
                   locals, wins>>

\* Seeded faults: whatever the outcome, the status written is the same one;
\* a failed proposal gets a status nobody knows.
ReplaceLinesApplied(a) ==
    /\ pc[a] = "replace"
    /\ status' = [lines[a] EXCEPT ![prop[a]] = IF @ = "absent" THEN @ ELSE "applied"]
    /\ marker' = None
    /\ lines' = [lines EXCEPT ![a] = NoLines]
    /\ Goto(a, "unlock")
    /\ Succeeded(a)
    /\ UNCHANGED <<corpus, journal, snapshot, receipt, lock, others, locals>>

ReplaceLinesFailed(a) ==
    /\ pc[a] = "replace"
    /\ status' = [lines[a] EXCEPT ![prop[a]] =
          IF @ = "absent" THEN @
          ELSE IF cause[a] = "ok" THEN "applied" ELSE "failed"]
    /\ marker' = None
    /\ lines' = [lines EXCEPT ![a] = NoLines]
    /\ Goto(a, "unlock")
    /\ Succeeded(a)
    /\ UNCHANGED <<corpus, journal, snapshot, receipt, lock, others, locals>>

\* ... and replaces it.
ReplaceLines(a) ==
    /\ pc[a] = "replace"
    /\ status' = [lines[a] EXCEPT ![prop[a]] =
          IF @ = "absent" THEN @
          ELSE IF cause[a] = "ok" THEN "applied" ELSE "rolled_back"]
    /\ marker' = None
    /\ lines' = [lines EXCEPT ![a] = NoLines]
    /\ Goto(a, "unlock")
    /\ Succeeded(a)
    /\ UNCHANGED <<corpus, journal, snapshot, receipt, lock, others, locals>>

\* LockTimeout or OSError: it returns False, which the apply does not look at.
MarkFails(a) ==
    /\ MarkMayFail
    /\ pc[a] = "mark"
    /\ Goto(a, "unlock")
    /\ Succeeded(a)
    /\ UNCHANGED <<corpus, journal, snapshot, receipt, ledger, lock, others, locals>>

ReleaseIf(a) == IF lock = a THEN None ELSE lock

Unlock(a) ==
    /\ pc[a] = "unlock"
    /\ lock' = ReleaseIf(a)
    /\ Forget(a)
    /\ UNCHANGED <<corpus, journal, snapshot, receipt, ledger, others, wins>>

\* A process that dies leaves the disk as it is, and locks others will break.
Crash(a) ==
    /\ Crashes
    /\ pc[a] # "idle"
    /\ lock' = ReleaseIf(a)
    /\ marker' = IF marker = a THEN None ELSE marker
    /\ lines' = [lines EXCEPT ![a] = NoLines]
    /\ Forget(a)
    /\ UNCHANGED <<corpus, journal, snapshot, receipt, status, others, wins>>

-----------------------------------------------------------------------------
(* Everybody else.                                                         *)

\* A stager appends a proposal to the file, under the file's own lock.
Stage(p) ==
    /\ status[p] = "absent"
    /\ status' = [status EXCEPT ![p] = "staged"]
    /\ UNCHANGED <<corpus, journal, snapshot, receipt, marker, lines, lock,
                   others, pc, locals, wins>>

\* Another write_block: it reads its file under the file's lock ...
ReadFile(w, b) ==
    /\ writing[w] = None
    /\ fileLock[HomeOf[b]] = None
    /\ fileLock' = [fileLock EXCEPT ![HomeOf[b]] = w]
    /\ writing' = [writing EXCEPT ![w] = b]
    /\ text' = [text EXCEPT ![w] = content[HomeOf[b]]]
    /\ UNCHANGED <<corpus, journal, snapshot, receipt, ledger, lock, pc,
                   locals, wins>>

\* ... and replaces it.
ReplaceFile(w) ==
    /\ writing[w] # None
    /\ LET b == writing[w] IN
       /\ PutBack(HomeOf[b], TRUE, text[w] \cup {b})
       /\ fileLock' = [fileLock EXCEPT ![HomeOf[b]] = None]
    /\ writing' = [writing EXCEPT ![w] = None]
    /\ text' = [text EXCEPT ![w] = {}]
    /\ UNCHANGED <<journal, snapshot, receipt, ledger, lock, pc, locals, wins>>

\* The wal-replay command takes no lock either.
ReplayCommand ==
    /\ Operator
    /\ journal # <<>>
    /\ LET e == Head(journal) IN PutBack(e.file, e.existed, e.backup)
    /\ journal' = Tail(journal)
    /\ UNCHANGED <<snapshot, receipt, ledger, lock, others, pc, locals, wins>>

-----------------------------------------------------------------------------
Applying(a) ==
    \/ TakeWorkspace(a) \/ WorkspaceTimeout(a) \/ Recheck(a) \/ Replay(a)
    \/ ListFiles(a) \/ TakeSnapshot(a) \/ Unmeasurable(a) \/ WriteReceipt(a)
    \/ Begin(a) \/ WriteBlock(a) \/ OpFails(a) \/ OpEscapes(a) \/ Commit(a)
    \/ PostCheck(a) \/ Close(a)

Restoring(a) ==
    \/ UndoOp(a) \/ OpenRestore(a) \/ CopyBack(a) \/ SweepOrphans(a)
    \/ CleanupOrphans(a) \/ RecordRollback(a)

Marking(a) == ReadLines(a) \/ ReplaceLines(a) \/ MarkFails(a)

\* A step an applier takes by itself once it has begun.
Step(a) == Applying(a) \/ Restoring(a) \/ Marking(a) \/ Unlock(a)

Next ==
    \/ \E a \in Appliers : Step(a) \/ Crash(a)
    \/ \E a \in Appliers, p \in Proposals : Submit(a, p) \/ RollBack(a, p)
    \/ \E p \in Proposals : Stage(p)
    \/ \E w \in Writers : ReplaceFile(w)
    \/ \E w \in Writers, b \in Foreign : ReadFile(w, b)
    \/ ReplayCommand

Spec == Init /\ [][Next]_vars

\* A process that has begun an apply or a write goes on with it.
Fairness ==
    /\ \A a \in Appliers : WF_vars(Step(a))
    /\ \A w \in Writers : WF_vars(ReplaceFile(w))

FairSpec == Spec /\ Fairness

-----------------------------------------------------------------------------
(* Properties.                                                             *)

Live == UNION {content[f] : f \in present}

\* The proposals whose ops have begun and not yet been settled.
UnderWay ==
    {p \in Proposals : \E a \in Appliers :
        /\ prop[a] = p
        /\ pc[a] \notin {"wait", "recheck", "replay", "list", "snapshot",
                         "precheck", "unlock"}}

\* Once nobody is at work on a proposal and the journal holds nothing to undo,
\* the corpus has all of the blocks it writes or none of them (SPEC.md,
\* Atomicity Rules, 1), whichever op failed and whatever check turned it down.
AllOrNothing ==
    journal = <<>> =>
        \A p \in Proposals \ UnderWay :
            Written(p) \subseteq Live \/ Written(p) \cap Live = {}

\* The Status line of a proposal nobody is at work on says whether its blocks
\* are in the corpus, and an applied one's receipt says the same.
StatusTellsTheTruth ==
    \A p \in Proposals \ UnderWay :
        IF status[p] = "applied"
          THEN Written(p) \subseteq Live /\ receipt[p] = "applied"
          ELSE Written(p) \cap Live = {}

\* However many processes try it at once, a proposal is applied once: the
\* second one finds it no longer staged when it has the workspace lock.
AppliedOnce == \A p \in Proposals : wins[p] < MaxWins

\* At most one op is pending in the journal, whoever died or gave up in the
\* middle of one: nobody begins an op before the last pending one is undone.
OnePending == Len(journal) <= 1

\* Why: from the second look at the proposal to the close of its scope the
\* applier has the workspace lock, and it gets as far as the first op only
\* when the journal is empty, which it is again before the next one.
Exclusive == \A a \in Appliers :
    pc[a] \in {"recheck", "replay", "list", "snapshot", "precheck", "begin",
               "op", "commit", "undo", "postcheck", "close"} => lock = a
CleanStart == \A a \in Appliers :
    pc[a] \in {"list", "snapshot", "precheck", "begin"} => journal = <<>>

\* What an applier at work has in hand: a proposal, one of its ops, one of
\* that op's writes, and a snapshot as soon as it may have to go back to it.
Equipped == \A a \in Appliers :
    /\ pc[a] = "idle" => op[a] = 1
    /\ pc[a] \in {"idle", "wait", "recheck", "replay", "list", "snapshot",
                  "precheck", "begin", "commit"} => nth[a] = 1
    /\ pc[a] # "idle" => /\ prop[a] \in Proposals
                         /\ op[a] \in DOMAIN OpsOf[prop[a]]
    /\ pc[a] = "op" => nth[a] \in DOMAIN Op(a).writes
    /\ pc[a] \notin {"idle", "wait", "recheck", "replay", "list", "snapshot"} =>
         snapshot[prop[a]] \in Snapshots \/ pc[a] = "unlock"

IInv == TypeOK /\ Equipped /\ Exclusive /\ CleanStart /\ OnePending

\* What the journal is for: whenever no op is pending in it - during an apply,
\* in the middle of a restore, after a crash or an exception between two
\* writes - each op has taken effect as a whole or not at all.
OpIsAtomic ==
    journal = <<>> =>
        \A p \in Proposals : \A i \in DOMAIN OpsOf[p] :
            OpBlocks(p, i) \subseteq Live \/ OpBlocks(p, i) \cap Live = {}

\* No apply, failed or not, and no replay of the journal takes away a block
\* another writer wrote to a file that was there and that no op touches.
Bystanders == {b \in Foreign : /\ HomeOf[b] \in FirstFiles
                               /\ \A p \in Proposals : HomeOf[b] \notin Touched(p)}
BystandersStay == [][\A b \in Bystanders : b \in Live => b \in Live']_vars

\* Whoever takes the workspace lock gives it back: no check, failure or
\* escaping exception leaves the workspace locked.
WorkspaceIsReleased == \A a \in Appliers : lock = a ~> lock # a

\* Seen from outside, a proposal is applied in one step, when its Status line
\* is replaced, or never.
Atomic == INSTANCE AtomicApply WITH
    corpus <- Live \ UNION {Written(p) : p \in UnderWay},
    Writes <- [p \in Proposals |-> Written(p)]
AppliesAtomically == Atomic!Spec
=============================================================================
