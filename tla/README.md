# mind-mem in TLA+

mind-mem is a governed memory for agents. Markdown files hold the blocks; every
change to them is staged as a *proposal*, approved, and applied by the apply
engine under a workspace lock, a journal, a snapshot and an admission by the
governance gate; what the gate admits is recorded in two ledgers; events from
outside come in through a write-ahead log; and a recall serves blocks from an
index, a cache or both, and records what it served. This directory models the
parts that decide whether all this can be trusted: who may write when, what is
left after something fails, and whether an answer is of the corpus it claims to
be of.

All paths are relative to the repository root; the code is in `src/mind_mem/`.

| module | what it is |
|---|---|
| `FileLock` | `mind_filelock.py`: the lockfile every writer serialises on, one action per system call |
| `FileLockProofs` | mutual exclusion, claim keeping, who meets a creator, whom a lockfile names and what a leaver keeps, proved for any threads and processes |
| `MCFileLock` | instances of `FileLock` for TLC |
| `AtomicApply` | the abstract promise of an apply: a proposal enters the corpus in one step or not at all |
| `ApplyEngine` | `apply_engine.py` with the journal, the snapshots and the proposal file: one action per visible step |
| `ApplyEngineProofs` | the inductive invariant of the journal and the workspace lock, proved for any proposals |
| `ApplyOutcomeProofs` | a proposal is applied once, other writers keep their blocks, no op takes effect in part |
| `ApplyAtomicProofs` | the refinement of `AtomicApply` and what it rests on |
| `MCApplyEngine` | instances of `ApplyEngine` for TLC |
| `AdmissionLog` | the abstract promise of the ledgers: evidence is only added, and an admission enters the chain once, after its evidence |
| `Ledgers` | the evidence chain, the hash chain with its seal, the write scopes of the gate over both, and the re-anchoring of a damaged store |
| `LedgersProofs` | nothing acknowledged is lost, nobody appends behind damage, the seal, the freezes and the shortfall are explained, and the refinement of `AdmissionLog`; for any processes |
| `MCLedgers` | instances of `Ledgers` for TLC |
| `Ingest` | `ingestion_pipeline.py` and `ingest-serve`: the write-ahead log, its checkpoint, the queue and the drain |
| `IngestProofs` | no gap and no loss, for any handlers, events and capacities |
| `MCIngest` | instances of `Ingest` for TLC |
| `Recall` | serving a recall: anchor, caches, attestation, served ledger, beside governed writes |
| `RecallProofs` | fresh answers and a linked, truthful served ledger, for any readers and writes |
| `MCRecall` | instances of `Recall` for TLC |
| `Index` | `sqlite_index.py` and `admissibility.py`: passes over the corpus, and what of the hits may be served |
| `IndexProofs` | one table per block, agreement with the corpus, and what a recall serves and finds; for any files, builds and recalls |
| `MCIndex` | instances of `Index` for TLC |

Run `tlc -config FileLockSafety.cfg MCFileLock`, and so on for each
configuration; `tlapm FileLockProofs.tla`, and so on for each `...Proofs`
module. The modules share no variables: each section below says what it takes
from the others as one step.

## 1. Inventory

### Core

**File lock** (`mind_filelock.py`). *State*: the lockfile at `lock_path` (its
identity, the pid written in it, its mtime), the OS lock on it (flock or
msvcrt), one thread lock per process and path, the descriptor and identity the
holder remembers. *Operations*: acquire (create with O_EXCL, write, lock;
judge what is there; adopt a corpse in place), release (sentinel on Windows,
unlock, close, identity-checked unlink), recovery of a corpse inside
acquire. *Used by* every writer below. *Hard*: every pair of system calls is an
interleaving; crashes between any two; the unlink that hits somebody else's
file; platforms that refuse an unlink or have no advisory locks; pids and
inodes that come back. *Correct when*: one holder, whose claim nobody disturbs;
nobody is wedged by a dead or failed acquirer.

**Apply engine** (`apply_engine.py`). *State*: the proposal file's Status
lines, the snapshot directory and receipt of each apply, the intel state.
*Operations*: `apply_proposal`, `rollback`, `restore_snapshot`,
`_mark_proposal_status`, `execute_op` and its op handlers. *Calls* the file
lock, the journal, the block store and the gate. *Hard*: two appliers of one
proposal; a failure of any step after others took effect; exceptions that no
handler catches; a crash anywhere; writers that hold other locks. *Correct
when*: a proposal is applied whole or not at all, at most once, and its Status
line and receipt say which.

**Write-ahead journal** (`backup_restore.WAL`). *State*: `.mind-mem-wal`, one
pending entry with a backup of one file per op. *Operations*: begin, commit,
rollback, replay, and the `wal-replay` command. *Hard*: entries that outlive
their process; replay order; replay while another apply runs. *Correct when*:
an op that was begun and not committed is undone exactly once, before anything
else builds on it.

**Markdown block store** (`block_store.py`, `corpus_registry.py`). *State*: the
corpus files, snapshots (copies, manifest, inventory). *Operations*: write and
delete a block (read, replace, rename under the file's lock), snapshot,
restore, sweep of orphans. *Hard*: a restore copies whole files without their
locks. *Correct when*: what a restore puts back or removes is what the apply
did and nothing else.

**Proposal staging** (`importers/quarantine.py`, `lint_autofix.py`,
`conflict_resolver.py`). *State*: the proposal file. *Operation*: append under
`FileLock(proposal_path)`. *Hard*: the status update that rewrites the same
file at the same time. *Correct when*: what was staged stays.

**Governance gate** (`governance_gate.py`, `spec_binding.py`). *State*: the
binding of the configuration, the open admission scopes, the two ledgers.
*Operations*: admit (block, batch, proposal, edge, artifact, delete), the write
and delete scopes and their close records. *Calls* evidence first, then the hash
chain. *Hard*: a crash or refusal between the two ledgers; a scope that is
never closed; drift found only at the close. *Correct when*: every mutation is
covered by a receipt of its tier, and both ledgers tell the same story.

**Evidence chain and hash chain** (`evidence_objects.py`, `hash_chain_v2.py`,
`cross_ledger.py`, `ledger_anchor.py`). *State*: the JSONL store and its
in-memory mirror per process; the SQLite chain and its head seal. *Operations*:
refresh, link, append, verify, freeze; append and seal. *Hard*: two processes
appending; a torn append; a seal older than the chain. *Correct when*: every
record links to the one before it, and a chain that did not load is not
extended.

**Admission tiers** (`admission.py`, `admissibility.py`,
`provenance_class.py`). *State*: the receipt in a context variable, its
landings and removals. *Operations*: require an admission, a write within a
tier, a restore admission. *Correct when*: no block is written outside an open
receipt or above its tier.

**Evidence recovery** (`evidence_recovery.py`, `audit_chain.py`,
`append_only.py`). *State*: the archive, the new chain, the anchor.
*Operations*: survey, archive, re-anchor, swap. *Hard*: a crash between
the archive and the swap, a writer in between. *Correct when*: not a byte of
history is lost and only one chain continues.

**Recall cache and attested serving** (`mcp/tools/recall.py`,
`recall_cache.py`, `recall_attestation.py`). *State*: an LRU per process, a
Redis they may share; the anchor, answer and attestation of each recall.
*Operations*: read the head, look up, compute, store, attest. *Hard*: writes that
open, land and close between any two of these; an index that is behind and
catches up without moving the head. *Correct when*: an answer under an anchor has
every closed write that anchor stands for and the index had by then.

**Served ledger** (`served_ledger.py`). *State*: the rows and the head sidecar.
*Operations*: choose the link, append the row, seal it. *Hard*: a writer that
dies in between, or loses part of the row or its newline; telling that from a row
that was removed. *Correct when*: rows are linked, and a row number that was published names that very recall.

**Ingest door** (`ingestion_pipeline.py`, `ingest-serve` of `mm_cli.py`).
*State*: the write-ahead log, its checkpoint, the bounded queue. *Operations*:
post (log, then offer), drain, catch-up, stop. *Hard*: kills between the log, the
blocks and the checkpoint; handlers that still append while the command stops; a
torn line. *Correct when*: what was logged becomes a block, in order.

**Recall index** (`sqlite_index.py`, `corpus_registry.py`). *State*: `blocks`,
the two search tables, `index_meta`, `file_state`, `release_set_hash`; the one
write connection of each process. *Operations*: build (incremental or full, one
commit per file), query, is_stale. *Hard*: files change between any two looks;
two processes build; a build dies or raises half-way. *Correct when*: a block is
in one table, the right one; what is recorded as current is.

**Admissibility** (`admissibility.py`, `_withhold_inadmissible`). *State*: the
released ids, read from `decisions/DECISIONS.md`. *Operations*: refresh the
statuses of the hits, filter them. *Hard*: the index, the corpus and the releases
are read at three moments. *Correct when*: nothing withheld is served and nothing
released is missed, however old the index.

### Around the core

| component | why it matters here, or does not |
|---|---|
| intel scan, contradiction and drift detection | text analysis; stages proposals and rewrites the intel state |
| review queue | read-only listing; its verdicts come down to apply and reject |
| consensus vote, governance replication | a pure vote and an in-process log; candidates for a later module |
| memory tiers and maturity | promotion rules over scores in SQLite; a candidate for a later module |
| connection manager | SQLite connections per thread; only its write connection matters to `Index` |
| v4 circuit breaker, backpressure, federation | optional services beside the core; candidates for a later module |
| scoring, fusion and the vector index | numeric, and read-only on the corpus |
| capture, inbox, streaming, messaging, namespaces | producers of blocks; in the model they are writers |
| Postgres and encrypted stores | their atomicity is the database's |
| watcher, daemon, cron, dream cycle | schedulers of the components above |
| MCP server, HTTP, command line | parsing and formatting |

`PROJECT.json` lists every component with its status, and the hazards of the
code at the line where each one bites, with the property that would catch it or
the reason there is none yet.

### How they interact

A stager appends a proposal. An applier validates it, takes the workspace lock
(a file lock), replays the journal, asks the block store for a snapshot, asks
the gate for an admission, runs each op under a journal entry as block writes,
checks the corpus, closes the admission scope and marks the proposal. A failure
that is caught restores the snapshot. Writers outside the engine write blocks
under the lock of the file they write and know nothing of the workspace lock.

Every governed write runs in a scope of the gate: its admission is recorded in
the evidence store and then in the hash chain, its body writes, its close is
recorded in both. The ingest drain writes its blocks in such scopes. A recall
takes the head of the hash chain as the anchor its cache key and its attestation
bind; it asks the index, whose passes read the corpus files without a lock, and
filters the hits by the live statuses and the releases.

## 2. `FileLock`

One lock path, any number of threads in any number of processes.

| variable | in the code |
|---|---|
| `threadLock[p]` | `_thread_locks[lock_path]` of process `p` |
| `path` | the inode `lock_path` names |
| `text[i]`, `aged` | what the file says; whether its mtime is older than `_UNREADABLE_LOCK_GRACE_SECONDS` |
| `osLock[i]` | whose descriptor has flock/msvcrt on it |
| `fd[t]` | the descriptor `t` has open |
| `identity[t]`, `old` | the `(st_dev, st_ino)` `t` judged or is about to unlink, and whether it found it aged |
| `after[t]` | what follows the unlink that is being made |
| `dead`, `crashed` | processes that died, and that some did |

`Enter` takes the thread lock. `Create`/`CreateExists` is the O_EXCL open;
`WriteClaim`, `TakeOsLock` and their failures the rest of a creation, with
`Discard` as `_discard_lock_file`. `Stat`, `Open`, `Read` are
`_stale_identity`; `BreakOpen`, `BreakLock`, `Confirm`, `Truncate`, `Adopt` are
`_break_stale` and the adoption in place; `BreakByUnlink` and `CorpseIsGone`
the path for file systems without advisory locks. `MarkReleased`, `Unlock`,
`UnlinkStat`, `Unlink` are release; a hard error in `MarkReleased` is swallowed and
leaves the pid there, or nothing. `Crash`, `Restart` and `Age` are the world.

*Platforms* are a constant set; a behaviour picks one. `posix` unlinks open
files and gives fresh identities; `posix_reuse` hands a freed inode number out
at once; `windows` and `ntfs` refuse to unlink an open file, and `ntfs` reuses
identities; `nolock` has no advisory locks.

*Assumption*: the five-minute grace does not pass while its creator is between
the create and the write, or is undoing a claim (`MidHandshake`). The code
relies on it; without it an empty file of a slow creator may be adopted. It is
listed as a hazard without a property.

### Properties

- `ExclusionUnlessCrashed`, `HolderKeepsClaim`: one thread in the section, and
  its claim is still what `lock_path` names. They hold where an open file cannot
  be unlinked, with crashes, hard errors and reused identities; and on the other
  platforms that give fresh identities until the first process dies (`Sound`).
- `MutualExclusion` without that condition is what the comments promise. It
  fails on POSIX once somebody has died (finding 1).
- `CreatorMeetsNobody`: a creator is never refused the OS lock of the file it
  just made, on `posix`. The comment says so of POSIX altogether; with reused
  inode numbers it is not so (section 8).
- `NamedOwnerClaims`: a lockfile that names a live process belongs to somebody.
  Holds without hard errors, fails on Windows when a failed acquire cannot
  unlink its file (section 8).
- `LeaversHoldNothing`: who acquires, holds or releases has the thread lock of its
  process to itself, and who is through, also by a timeout or an error, has handed
  back that lock, the OS lock and the descriptor.
- `LockIsPassedOn` (liveness): while somebody waits, somebody gets in.

### Runs

| run | instance | shows |
|---|---|---|
| `filelock_safety` | three processes of one thread, three identities, `posix`, `ntfs`, `nolock`; one may die and have its pid reused; hard errors; timeouts | `TypeOK`, `ExclusionUnlessCrashed`, `HolderKeepsClaim`, `CreatorMeetsNobody`, `LeaversHoldNothing` |
| `filelock_live` | three processes, two identities, `posix`, `windows`, `nolock`; one may die; nobody times out | `NamedOwnerClaims`, `LockIsPassedOn` |
| `filelock_adopt_race` | as `filelock_safety` on `posix`, no errors | violates `MutualExclusion` |

Three threads are what the known races need: one whose file goes away, one that
judged it, one that creates or adopts the next. Three identities let the old
file, the one at the path and the next one exist at once; with fewer, the safety
run could not tell an old identity from a new one. Threads are swapped by
symmetry only when both may die or neither may, and the liveness run uses no
symmetry. Threads that share a process meet only at the thread lock; TLC's
instances give each its own process, the proofs cover every `ProcOf`.

*Fairness*: weak fairness of each thread's `Step`, and of `Age`. A thread that
has entered runs the code of acquire and release, which has no wait but a
bounded sleep; a section is assumed to end; the clock runs. Nobody has to start
an acquire, die, or come back. With timeouts `LockIsPassedOn` would hold for a
bad reason (everybody left), so nobody times out in that run.

### Proofs

`IInv == TypeOK /\ Descriptors /\ Arbitrated /\ Owned`. Exclusion alone is not
inductive, and comes about in two ways:

- `Arbitrated`: where an open file cannot be unlinked, everybody who has a
  lockfile open has the one at `lock_path` open, so its OS lock arbitrates.
  Crashes, errors and reused identities do not touch this.
- `Owned`: elsewhere, while nobody has died, the lockfile has one owner from
  its create to the unlink that ends the claim; it names that owner as soon as
  the pid is written, an aged file always names somebody alive, and so nobody
  ever gets past judging to adopting.

`Descriptors` ties descriptors and remembered identities to the program counter.
Theorems, from `LockAssumption` only: `TypeCorrectness` (`Spec => []TypeOK`),
`Exclusion` (`Spec => []ExclusionUnlessCrashed`), `ClaimIsKept`
(`Spec => []HolderKeepsClaim`), `CreatorIsAlone`
(`Spec => []CreatorMeetsNobody`).

Exclusion says nothing of a file between its create and its creator's lock, so
the last of these has invariants of its own. `Living`: only the living run, and
an OS lock is that of a thread that took it. `Fresh`: without reuse, whoever has
a file open that is being created is about to read it, and finds it neither
aged and empty nor of a dead process; who judged another file stops at the
identity.

`NamesAreClaims` proves `NamedOwnerClaims` from `NamesSigner` (the process
a lockfile names has a thread that wrote it and has not undone that) and
assumes `NamesAreKept`: pids do not come back, `ntfs` is not among the
platforms, and `windows` is only without hard errors. The first would make a
corpse name a living process; the others leave the file of an acquire that
failed (section 8), or of a release whose sentinel was not written.

`LeavingIsClean` proves `LeaversHoldNothing`, again from `LockAssumption` only. Its
own induction is `HasThreadLock`: the thread lock of a process is held by a
thread exactly while that thread is somewhere in the code. With what `IInv` says
of descriptors and `Living` of OS locks, a thread that has left has none of the
three.

## 3. `ApplyEngine`

Any number of appliers, writers and proposals. The workspace lock is one atomic
step and always excludes, also after deaths: an idealisation, as `FileLock` shows
that on POSIX two processes can be in once one has died (finding 1). Wherever
this section speaks of crashes, it is under a lock that survives them.

| variable | in the code |
|---|---|
| `present`, `content` | the corpus files, and the blocks in each |
| `journal` | the pending entries of `.mind-mem-wal` with their backups |
| `snapshot[p]` | the copies, the manifest and the inventory of `p`'s last apply |
| `receipt[p]` | the `Result:` line of the receipt beside it |
| `status[p]` | the Status line in the proposal file, `absent` before it is staged |
| `lock`, `marker` | the workspace lock; the lock `_mark_proposal_status` takes |
| `fileLock[f]`, `writing`, `text` | a writer in the middle of `write_block` |
| `listing`, `op`, `nth`, `todo`, `cause`, `lines` | an applier's locals |
| `wins` | history: successes per proposal, counted up to `MaxWins` = 2 |

A block is one written version, so an update adds a new block rather than
replacing an old one; a file is the set of the versions put in it and not undone
since. An op is a file and a sequence of block writes; the home of a block may
differ from the op's file, as `write_block` decides where a block goes. This is
what the properties distinguish: whether the writes of an op, or of a proposal,
are there.

The actions follow `apply_proposal` from top to bottom: `Submit` (the checks
before the lock), `TakeWorkspace`/`WorkspaceTimeout`, `Recheck`, `Replay`,
`ListFiles`, `TakeSnapshot`, `Unmeasurable` or `WriteReceipt`, then per op
`Begin`, `WriteBlock`…, `Commit`, or `OpFails` and `UndoOp`, or `OpEscapes`;
`PostCheck`, `Close`; on a failure `OpenRestore`, `CopyBack`…,
`SweepOrphans`, `CleanupOrphans`, `RecordRollback`; then `ReadLines` and
`ReplaceLines` or `MarkFails`, and `Unlock`. `RollBack` starts the rollback
command, which takes no workspace lock and goes through the same restore.
`ReplayCommand` is `wal-replay`. `Stage` is a stager, `ReadFile`/`ReplaceFile`
another writer.

Each source of trouble has a switch, so that a run says which ones a property
survives: `Crashes` (an applier may die), `Escapes` (an op may raise what
`execute_op` does not catch), `Drift` (the gate may refuse an admission, a
restore or a close), `MarkMayFail` (the status update may fail), `Operator`
(rollback and wal-replay are run).

### Properties

- `AllOrNothing`: a proposal nobody is at work on has all its blocks in the
  corpus or none. Holds for every failure the engine handles; fails for
  exceptions that escape (finding 2).
- `StatusTellsTheTruth`: Status line, receipt and corpus agree once the apply is
  over.
- `AppliedOnce`: however many try, one succeeds.
- `AppliesAtomically`: `ApplyEngine` implements `AtomicApply`. A proposal's
  blocks are mapped to the corpus only when nobody is at work on it, so the
  abstract step is the replacement of the Status line.
- `BystandersStay`: no restore, sweep or replay takes a block another writer
  put in an existing file that no op touches.
- `OnePending`: at most one pending journal entry. Replay puts backups back
  oldest first, which is right only because of this.
- `OpIsAtomic`: whenever no entry is pending, between the copies of a restore
  too, each op is whole or absent, crashes and escapes included.
- `WorkspaceIsReleased` (liveness): whoever takes the workspace gives it back.

That a rolled-back proposal has left nothing in the corpus is not among them, as
the code does not keep it (section 8). What is left of it, when rollback and
`wal-replay` may come at any moment, are `OnePending` and `BystandersStay`.

### Runs

| run | instance | shows |
|---|---|---|
| `apply_safety` | two appliers, one writer with two blocks of its own, two proposals that share a file (two ops and three writes; one op), both staged; no crash | `TypeOK`, `AllOrNothing`, `StatusTellsTheTruth`, `AppliedOnce`, `AppliesAtomically` |
| `apply_crash` | two appliers that die anywhere, exceptions that escape, refusals, failing status updates; one proposal staged before, one at any time; no rollback | `OpIsAtomic`, `WorkspaceIsReleased` |
| `apply_rollback` | two appliers, one writer, one proposal of two ops on two files, every switch on: rollback and wal-replay at any moment, also within an apply and behind a dead one | `OnePending`, `BystandersStay` |
| `apply_escape` | one applier, an op may raise what is not caught | violates `AllOrNothing` |

Two appliers are enough for every race on the workspace lock and on the Status
line, since a third would stand in the same queue. A proposal with two ops, one
of two writes, has every place a failure can fall: within an op, between its
writes, and between ops. The second proposal shares a file with the first, so
that a restore of one could reach the blocks of the other. In `apply_safety` one
of the four files is missing at first and only a writer makes it, which is what
the orphan sweeps look for. All files lie in one directory, so every sweep looks
at all of them. In `apply_rollback` one proposal is enough: the second applier
applies it again, after a status update that failed or beside a rollback.

The crash run switches the deadlock check off because nothing is left to do
once every proposal is applied.

*Fairness*: weak fairness of each applier's `Step` and of each writer's
`ReplaceFile`: a process that has begun goes on. Nobody has to submit a proposal
or die. A dead process needs no fairness: its locks are taken back by the
file lock's own recovery, here within `Crash`.

### Proofs

`IInv == TypeOK /\ Equipped /\ Exclusive /\ CleanStart /\ OnePending`. The bound
on the journal is not inductive: `Begin` appends whatever is there. It
needs that an applier about to begin an op finds the journal empty
(`CleanStart`), because it has replayed it since it got the lock and has the
workspace to itself (`Exclusive`). `Equipped` says that an applier has in hand
what its next step reads: a proposal, an op, a write of it, a snapshot.

Theorems of `ApplyEngineProofs`, from `ProposalsAreValid` only and for any
setting of the switches: `Invariance` (`Spec => []IInv`), `TypeCorrectness`
(`Spec => []TypeOK`), `OneOpIsPending` (`Spec => []OnePending`).

The other properties do not hold for every setting, and each theorem names the
one it needs as an assumption on the constants. The run that checks the
property is an instance of it. (`NoneIsNoSnapshot`, that "no snapshot yet" is not one,
is about the encoding.)

| theorem | proves | assumes | because |
|---|---|---|---|
| `AppliedAtMostOnce` | `AppliedOnce` | `OneUpdater`: no Status update fails; with rollback, every proposal is staged before | a failed update leaves the proposal staged, and so does one that writes back lines read before another was staged |
| `BystandersAreSpared` | `BystandersStay` | nothing | |
| `OpsAreAtomic` | `OpIsAtomic` | `Undisturbed`: no rollback command; blocks at home in the file of their op, no block in two ops, other writers on other files | an op is undone by the backup of one file, which takes along what else is in it |
| `StatusIsTrue`, `AppliesAreWhole` | `StatusTellsTheTruth`, `AllOrNothing` | `Calm`: all switches off, and `Undisturbed` | a crash, an escape (finding 2) or a refused restore leaves what was written |
| `AppliesInOneStep` | `AppliesAtomically` | `Calm`, every proposal staged before | a proposal staged during a Status update is lost (section 8), which no step of `AtomicApply` does |

Crashes are thus allowed in `AppliedAtMostOnce`, `BystandersAreSpared` and
`OpsAreAtomic`; two proposals may share files in all of them.

The invariants, in the order they build on each other:

- `Alone`: without the rollback command, whoever is past waiting has the lock.
- `Once` (`HasAChance`, `Marks`, `Settled`): who may still succeed has a
  proposal that never did, and the lines it will write back are those that are
  there. This is what the second look under the lock (`Recheck`) is for:
  `AppliedOnce` alone is not inductive, as an applier could be half-way through
  a second apply.
- `Homes`: blocks, in the corpus, a backup, a copy or a writer's text, are in
  the file they are at home in, or came with an op on it.
- `Aside`: the spared files are not in a journal entry, are in the inventory of
  every snapshot and in the listing of every applier that may still sweep.
- `OpWhole`: every other op is whole in what is there, in the backup and in the
  copies, and of the pending one the file has the backup and the writes so far.
- `CalmInv` adds `AtWork`, what an applier has done and can go back to: its
  listing and snapshot name every target that is there, and all but its own
  blocks is as it was saved (`IsSaved`); the backup does not go further back
  than the snapshot (`Reversible`); the ops before the current one are in the
  corpus (`HasDone`), or what has been copied back is rid of its blocks
  (`HasUndone`).

For the refinement every action is shown to be `Apply`, `Reject`, `Write`,
`Withdraw` or a stutter: only `ReplaceLines` changes a Status line, and by
`StatusTellsTheTruth` before and after, the blocks come or stay out with it. The
invariants were first checked by TLC, on the instances of the runs and on
one with rollback, `wal-replay` and a missing file.

## 4. `Ledgers`

Any number of processes over one evidence store and one hash chain. The gate's
own lock makes a process one actor with one scope at a time.

| variable | in the code |
|---|---|
| `store`, `archives` | `evidence_chain.jsonl`, as the sequence of what single appends left in it (a `line`, a `whole` record without its newline, `part` of one); the stores that re-anchoring replaced |
| `lock`, `pending` | the store lock while it is held across steps; the `.reanchor-pending` file |
| `chain`, `head` | the rows of the SQLite chain; its head seal |
| `tail`, `offset`, `gen`, `frozen` | a process's view of the store: `_last_hash`, how much of it was read, which store that was, `_integrity_compromised` |
| `scope`, `rec`, `baseline` | the open scope, the record being entered (or the forged anchor), the chain length the anchor will bind |
| `acked`, `landed`, `orphans`, `owed` | history: acknowledged records, scopes whose blocks reached the corpus, records never entered, entries never sealed by their writer |

A record is its number, which stands for its hash; an offset counts appends, not
bytes. `Load` is a start. `Record` is `create()`, one step under the store lock:
refresh, check of the disk tail, forge, append; `RecordFails` leaves something of
the record and `RecordNothing` nothing, and the writer raises or dies; `Refuse` is `_freeze_and_raise`. `Enter`, `Seal` and
their failures are `HashChainV2.append` and `_seal_tail`. `Body` is what runs in
the scope; the close takes the same way as an admission, or is refused.
`Archive`, `WritePending`, `Replace`, `Unwind` are `recover_chain`, `Adopt` is
what `recover_by_reanchor` does after the store lock is given back. `Crash` is
the death of a process at any step.

### Properties

- `DamageIsLast`: in every store, archived ones included, only the last append
  may be torn, and each record links to the one before.
- `AcknowledgedIsKept`: what `create()` has returned can be read in the store or
  in an archive for ever.
- `ShortfallIsExplained`: `reconcile` counts no more missing entries than there
  are records in the store that are about to be entered or failed to be.
- `SealKeepsUp`: entries behind the sealed one are of writers that have still to
  seal, or died or failed.
- `LandedIsOnRecord`: what reached the corpus through a scope has its admission
  in both ledgers, re-anchoring included.
- `FreezesForAReason`: a process freezes only on a damaged store, on one that was
  re-anchored behind its back, or after it adopted late.
- `LedgersOnlyGrow`: `Ledgers` implements `AdmissionLog`.

### Run

`ledger_safety`: two processes, five records, two faults, tears `line` (whole,
but the writer did not hear of it) and `part`. Two processes make a view stale
by one and by two records; five records are an admission and a close of each and
an anchor; two faults are a tear and a death in the recovery from it (with three
the run also passes, three times as long). The deadlock check is off: the bound on
the records ends a behaviour.

`whole`, a record that lost only its newline, is left out of the run: `create()`
reads it as the last record and appends behind it, both become one unreadable
line, and `AcknowledgedIsKept` and `DamageIsLast` fail (section 8).

### Proofs

`LedgersProofs`, from `LedgersAssumption` for any `Procs`, bounds and tears
unless said otherwise. `TypeCorrectness`. Two chains of invariants carry the
rest: `Legibly` and `ViewFits` (an extended view ends in the last record of a
store that can be read up to there) give `NobodyAppendsBehindDamage`
(`DamageIsLast`) and, with the archive being a copy, `AcknowledgedStays`
(`AcknowledgedIsKept`); `EnteredFirst` and `OnRecord` (whatever is in the chain
or in a body was recorded) give `LandedIsAdmitted` (`LandedIsOnRecord`). These
three assume `"whole" \notin Tears`. `Linked` gives `SealFollowsTheChain`
(`SealKeepsUp`), `FreezesAreExplained` follows from the guards and `ViewFits`.

`ShortfallHasReasons` (`ShortfallIsExplained`) needs no assumption on the tears.
`Numbered` says that the records of a store have increasing numbers and an
anchor is the first; `Accounted`, that each admission which was written out has
been entered since the anchor, is about to be, or never will. The records
`reconcile` counts are then at most the entries since the anchor and those two
sets, each record once.

`LedgersImplementTheLog` (`LedgersOnlyGrow`) shows that every step is one of
`AdmissionLog` or a stutter. `Recorded`, the evidence in all stores, is defined
by recursion over the archives and the store. The lemmas up to `RecordedSteps`
say what it becomes by an append and by a re-anchoring; as the library's
induction theorems are out of reach they rest on `UpToBound`, which has
induction over a set of numbers from `WFMin`. `NumberedOnce` is what the
mapping needs besides: a number is on record once, the anchor a recovery has
forged is not on record yet, and what a process is about to enter is on record
and not in the chain.

## 5. `Ingest`

| variable | in the code |
|---|---|
| `wal`, `checkpoint` | `ingest-wal.jsonl`, as the sequence of its appends; `ingest-wal.jsonl.applied` |
| `depth` | the length of `IngestionQueue` (with a log nobody reads its items) |
| `mode`, `step`, `batch`, `done` | where `ingest-serve` is (catching up, open, closing), and where its pass is |
| `posted[h]` | what a handler has logged and not yet offered |
| `blocks`, `acked` | the events written as blocks (an id is a digest of the event); the events whose append has returned |

`Post`/`PostFails` append, `Offer` is 202 or 503; `Start` is the command; `Take`,
`Write`/`WriteFails`, `Advance`, `Release` are `replay_wal` within `drain_once`,
with the checkpoint moved in the `finally`; `Stop` is the interrupt and `Crash`
the kill. `Legible`, `Pending` are what `replay()` skips and returns.

### Properties

- `NothingLost`: an event whose append has returned is a block (or has no text),
  or `replay()` still returns it behind the checkpoint. The one exception is
  named (`Swallowed`): an event logged behind a torn record.
- `AppliedIsAPrefix`: the blocks are those of a beginning of the log at least as
  long as the checkpoint: no gap, whatever was applied twice.
- `AckedIsApplied` (liveness): a logged event becomes a block in the end, also
  one answered with 503, but for a swallowed one.

### Run

`ingest_safety`: two handlers, three events of which one has no text, a queue of
one, passes of two, four posts, two faults; tears `line` and `part`. A queue of
one is full as soon as two events are logged; passes of two leave a rest; two
faults are a tear and a kill, or two kills in a row. *Fairness*: of `Drain`, as
the loop goes on by itself and the catch-up does not wait, and of `Start`:
somebody starts the command again. Nothing else has to happen; the faults are
bounded, so the drain is not killed for ever. The deadlock check is off: the
server may be done.

### Proofs

`TypeCorrectness`, `NoGap` (`AppliedIsAPrefix`) and `NothingIsLost`
(`NothingLost`), for any handlers, events, capacities and bounds, all three with
`"whole" \notin Tears`. `DrainInv` says that a pass has in hand the records
just behind the checkpoint (`PassFits`) and that exactly those before it, and
maybe some of the pass, are blocks (`Applied`). Appends to the log leave ranks of
earlier records as they are unless the last one has lost its newline, hence the
assumption (`LogIsPlain`). The liveness property stays with TLC.

## 6. `Recall`

| variable | in the code |
|---|---|
| `head`, `stage[w]` | the length of the hash chain; where the scope of each governed write is |
| `lru[r]`, `redis` | the caches, as entries of an anchor and an answer |
| `rows`, `seal`, `lock` | `served.jsonl`, the row its head file names, and the ledger's lock |
| `run`, `anchor`, `answer`, `attested`, `link` | the locals of a recall |
| `indexed` | the writes whose blocks are in `recall.db` |
| `base`, `floor`, `served`, `unsealed` | history: the writes closed and indexed when the head last moved; those an answer has to have; what was published as recorded; rows whose writer died or failed before the seal |

One query is asked, so the anchor is the whole of a cache key; an answer is the
set of writes it reflects. `Begin` reads the head, or cannot and falls back to
genesis; `Hit`/`Miss`, `Compute`, `Store` are the cache; `Attest` reads the head
again, with the same fallback; `Link`, `AppendRow`, `SealRow` and their failures
are `append_served_run`. `Admit`, `Land`, `Close`, `CloseFails` are what a write
does to the head and the corpus (the scopes themselves are `Ledgers`).

`Compute` answers from what `_recall_impl_uncached` reads. A workspace without
`recall.db` is scanned, and the answer has what has landed. With one, both the
hybrid leg and `query_index` read the index, which only warns when it is stale
(`sqlite_index.py:1646`), and the answer has what is `indexed`. The index is here
no more than that set: `IndexWrite` is a build's commit of one file, `Rebuild` a
full build that has cleared it, and neither moves the head; how builds work is
`Index`. Whether there is an index is fixed for a behaviour (`Settings`), so the
first build of a workspace is left out; the scan is one step, where the code reads
file by file; a write is one block, in a file of its own.

A row in `rows` is a `line`, a `whole` one without its newline, or `part` of one.
The row after a `whole` one is on the same line (`Glued`), and nobody can read
either again.

### Properties

- `ClosedWritesAreServed`: an answer under a real anchor has, without an index,
  every write that was closed before the anchor was read, whoever cached it. With
  one it has those that were closed and indexed when the head last moved before
  that, and that no full build took out since. More the code does not promise by
  its key: an answer computed while the index was behind stays the answer under
  that head when the index has caught up (section 8).
- `CachedIsFresh`: nothing cached under the current head misses one of those.
- `RowsAreLinked`, `ServedAsRecorded`: rows link one to the next, and a published
  row number is that run's row with its answer and anchor; the row can be read,
  unless it is glued to one that had lost its newline (section 8).
- `WedgeIsExplained`: the ledger refuses to be extended only behind a torn or glued
  row, a first row that was never sealed, or two in a row.

### Run

`recall_safety`: two readers of two processes, two writes, two faults, and a
workspace with the cache, over the corpus or over an index (two recalls), or with
the served ledger (three). The two halves of a recall share only the anchor, and
together they exceed the time. Two readers are one that caches and one that hits,
or one that dies before the seal and one that finds its row; a third row is the
first whose predecessors can be one sealed and one not. The deadlock check is off:
the bound on the recalls ends a behaviour.

### Proofs

`RecallProofs`: all of the above, for any readers and writes and any settings,
cache, ledger and index together. `FreshInv` (what a reader has in hand, and every
cache entry, fits the head it is keyed by: what was promised under that head is in
it) gives `ClosedWritesAreInTheAnswer` and `TheCacheIsFresh`; `ServedInv` (the lock
holder's link is the last row, the seal is behind only by unsealed rows, a row
without its newline is unsealed) gives `TheRowsAreLinked`, `ServedIsRecorded` and
`WedgesAreExplained`.

## 7. `Index`

| variable | in the code |
|---|---|
| `content`, `mtime`, `releases` | the corpus: what each file holds, when it was written; the released ids |
| `row`, `served`, `withheld` | `blocks`, and how many rows of a block `blocks_fts` and `blocks_fts_withheld` have |
| `meta`, `state`, `stamp` | `index_meta`, `file_state`, `meta.release_set_hash` |
| `at`, `rel`, `force`, `todo`, `file`, `base`, `got`, `seen` | a build's place and locals; `base` is what `index_meta` said of the file before the transaction began |
| `open[b]` | what the write connection of a process has changed and not committed: nothing, one file's rows, or every table |
| `step`, `hits` | where a recall is, and the status of each of its hits |
| `excused`, `due`, `odd`, `cut` | history: what a recall may serve and has to find; what was odd about the last pass over a file; a build died or met another |

A file holds at most one block, which is named like it; it is servable
(`active`) or not (`held`), or the file is empty, garbled or absent. Every write
gives a new mtime (an edit in place that keeps size and nanosecond mtime is left
out; the code says what it means for it). `Begin` is `_init_schema`, which
commits what the last build of that connection left open, and the reading of the
releases. `Scan` chooses the files: all of them for a full build (after clearing
every table in the open transaction), all when the releases are not those of the
last build, the changed ones otherwise. `Look` reads `index_meta` and
`isfile`, `Parse` the file; then one of `Missing`, `Unread`, `Empty`, `New`,
`Modified`, `Unchanged` writes and commits. `End` records the release set.
`Dies` loses the open transaction, `Raises` and `RaisesHalf` keep it. `Query` and
`QueryWithheld` are the two reads of `query_index`, `Live` is `live_statuses`,
`Admit` the filter.

Two builders stand for two processes; threads of one are serialised by the
connection manager. A scan and a staleness check see all files at one moment; of
the half-done writes of a file only the deletion without the insertion is
modelled; fact blocks and cross references follow their block. The hybrid and
vector legs and the back end that indexes from a store are left out.

### Properties

Where the code does let something go wrong, the property names the case and says
that nothing else does: `odd[f]` has `stamp` (the file changed between the look
and the recording of its state), `clash` (another build changed the file's rows
after this one had looked), `unread`, `left` (rows deleted, mark kept) or `half`
(cut between deletion and insertion).

- `OneTable`: a block has one row, in the search table its mark says, unless two
  builds clashed on its file.
- `CurrentAgrees`: a file recorded as current has the row its content calls for,
  unless something was odd.
- `NeverPermanentlyWrong`: the same with `left` not excused. Fails (finding 3).
- `MembershipFollows`: a release or its withdrawal has reached the table a block
  is in once no build is under way, though its file did not change; unless a
  build died or overlapped another.
- `ServedIsAdmissible`: what a recall serves was not held all through it,
  however old the index. Excepted are a block whose file a pass catches up with
  after the query and before `live_statuses`, which then finds nothing stale and
  leaves the old status in the hit; and one recorded under `stamp` or `clash`.
- `ReleasedIsFound`: a block the index agrees on and that may be served all through
  a recall is in its answer, also one released since the last build, and whatever
  builds do to its rows meanwhile. Excepted is a block that a build moves from
  `blocks_fts_withheld` to `blocks_fts` after the recall has queried `blocks_fts`
  and before it queries `blocks_fts_withheld`.

Each of these exceptions is something the code does (section 8), and is as narrow
as the model can state it: history variables mark the very step.

### Runs

| run | instance | shows |
|---|---|---|
| `index_safety` | one file, two builders, one recall, two edits or decisions, one death or exception | all but `NeverPermanentlyWrong` |
| `index_reborn` | the same with one builder and no fault | violates `NeverPermanentlyWrong` |

Files meet only in the scan and in the clearing of all tables, so one file with
two builders is where the races are; two edits after an arbitrary first content
are a deletion and a return, or a change and a release. The proofs cover any
number of files and builders. The deadlock check is
off: the bound on the edits does not end a build, but a workspace may be at rest.

### Proofs

`IndexProofs`, from `IndexAssumption` for any files, builders, recalls and
bounds: `TypeCorrectness`; `EachInOneTable` (`OneTable`) from `TablesFit`, the
line of a file as committed, whatever a connection has open; `CurrentMeansRight`
(`CurrentAgrees`) from `AgreeInv`, which adds that a build whose look is not late
knows what the file holds; `ReleasesReachTheTables` (`MembershipFollows`) from
`FollowInv`, by which the files a build is through with follow its releases and,
between builds, all follow those of the last one; `OnlyAdmissibleIsServed`
(`ServedIsAdmissible`) and `WhatIsReleasedIsFound` (`ReleasedIsFound`) from
`RecallInv`, what the hits of a recall are at each of its steps; both have the
exceptions of their property. `WriteIs` reduces
the six ways a file is written to one relation, `Outcome`, that the others are
proved from.

## 8. What disagrees with the documentation

Three have a run whose counterexample is the behaviour.

1. **A breaker can get between an adopter's unlock and its unlink**
   (`filelock_adopt_race`, `mind_filelock.py:669`). `_break_stale` promises
   "exactly one holder afterwards" (`:642-643`). On POSIX an adopter that
   releases drops the OS lock before it unlinks; a loser that judged the same
   corpse locks it in between, finds identity and path unchanged, and adopts a
   file the release then removes. A third acquirer creates a new one.
2. **An exception leaves half a proposal** (`apply_escape`,
   `apply_engine.py:1014`). `execute_op` catches four exception types;
   `LockTimeout` and `GovernanceBypassError` pass the restore. `SPEC.md:334`
   promises all or nothing.
3. **A block that comes back is never indexed** (`index_reborn`,
   `sqlite_index.py:788`). For a file that is gone the rows are deleted and the
   lines of `index_meta` are not; when it is back with the same block, the block
   counts as unchanged, and the file is recorded as current without a row. Only a
   change of the block or a full build repairs that. `_get_changed_files` says
   that "the index cannot end up permanently wrong".

The others are behaviours of the models that were found the same way; the runs
name them as exceptions of a property or leave the input out, as stated.

*File lock.* Where inode numbers are reused at once, a new lockfile can be
somebody else's judged corpse, and that breaker takes its OS lock before the
creator does (`:318`); "on POSIX nothing can", says the comment.
`CreatorMeetsNobody` is stated for `posix` and would fail on `posix_reuse`. A discard on
Windows whose unlink is refused leaves a live pid behind (`:429`), as only
release writes the sentinel: `NamedOwnerClaims` fails on `windows` with hard
errors.

*Apply engine.* `rollback` takes no workspace lock (`apply_engine.py:2331`) and puts
whole files back. The blocks it has removed come back when an apply of another
proposal that shares a file was under way and then restores its own snapshot, or
left a journal entry that is replayed later (`backup_restore.py:170`); and blocks
that later applies wrote to a shared file go with the rolled-back ones.
`docs/security-model.md:20` says "Any applied proposal can be rolled back via
`rollback_proposal`", and `apply_engine.py:614` calls it "the deliberate undo of one
applied proposal". The result of the status update is not looked at (`:2127`): when
it fails after everything was committed, the apply reports success and the proposal,
still staged, is applied a second time; `AppliedOnce` needs that no update fails.
When the gate refuses the close of the scope (`governance_gate.py:1274`), the ops are
in the corpus, the receipt says in_progress and the proposal is staged; when it
refuses a restore, what a failed apply wrote stays. `AllOrNothing` and
`StatusTellsTheTruth` need that the gate refuses nothing.

A staged proposal is lost when it is appended while a Status line
is being replaced (`apply_engine.py:2210`): `_mark_proposal_status` locks
`source_file.lock.lock`, the stagers `source_file.lock`. `README.md:231` promises
that file locking "protects all concurrent write paths".

*Ledgers.* A record that was written but for its newline is extended
(`evidence_objects.py:1240`), and both records are lost to readers. The offset a
re-anchoring takes over is read after the store lock was given back (`:933-941`),
so that the process may freeze on a store that is sound. A store whose only record
is torn cannot be re-anchored (`evidence_recovery.py:718`), and a leftover
`.reanchor-pending` blocks every later recovery (`:730`). With two processes the
seal can lag by two entries, and two failed entries exceed
`TOLERATED_SHORTFALL` (`cross_ledger.py:101`): both are reported as tampering.

*Ingest.* An append that was cut short swallows the next acknowledged event, which
is put on the same line (`ingestion_pipeline.py:190`, `:203-206`), against "a kill
at any point loses nothing" (`:53-55`): `Swallowed`. An item of the queue may
outlive its event when the drain is faster than the offer (`:375-376`); it goes
with a later pass. An event the gate refuses ends the loop of the server and stays
at the head of the log.

*Recall.* The cache key has the head of the governed ledger, and `recall_cache.py`
says that freshness comes from it alone (`:21-27`, `:60-64`: "An entry whose corpus
state has moved is already unresolvable"). The answer comes from the index
(`recall.py:796`, `:830`), which `query_index` serves stale on purpose ("warn but
don't auto-rebuild", `sqlite_index.py:1646`) and which catches up without moving the
head. A recall that comes after a governed write and before the next build is cached
without the write, and that answer is served under the same head after the build,
until another write, an eviction or the end of the hour; `reindex`
(`memory_ops.py:479`) does not invalidate.

An append to the served ledger that loses only its newline (`served_ledger.py:750`)
leaves a row that `_last_row` can parse. `_next_link` extends it, the next row is put
on the same line, sealed and published with its number, and neither row can be read
again; the ledger is wedged from then on. `attach_served_run` claims that "every row
present is intact, and every record says whether it has one" (`:722-723`).

The anchor is resolved again for the attestation (`recall.py:600`),
though the comments (`:62-64`, `:360-365`) say once per recall for both consumers:
an answer may be cached under one head and attested under another. `_next_link`
refuses a ledger whose first row was never sealed, and one with two unsealed rows,
which two kills produce. A head that cannot be read and an empty chain have the
same key (`recall_attestation.py:393`); `ClosedWritesAreServed` excepts it.

*Index.* A file replaced between its parse and the recording of its state is
recorded as current with its old rows (`sqlite_index.py:668`), and a block that was
made unservable by that edit keeps being served. A file that cannot be read keeps
its rows and is recorded as current. Two processes that build at once duplicate
rows, or put a block in both tables, though "A block is in exactly one of the two,
never both" (`:446`). A build that dies after some commits leaves them under a
release set that is not recorded; when the release is withdrawn before the next
build, that one sees nothing to do. A build that raises leaves its transaction
open, and the next build of the process commits the half: a block without its row
until its file changes. A recall whose hits are of an old index and whose staleness
check comes after the build that renewed it keeps the old status
(`admissibility.py:423`), and serves what was held before it began. A recall that has
queried `blocks_fts` misses a released block that a build moves there before
`_released_withheld_rows` looks in `blocks_fts_withheld` (`sqlite_index.py:2093`),
though it says that "this is where they come back from" (`:2071-2072`).

## 9. Proved, checked, left out

*Proved for all constants*: type correctness of every component and every safety
property of the passing runs, the two refinements included. Without further
assumptions: exclusion, claim keeping, `CreatorMeetsNobody` and `LeaversHoldNothing`
of the lock; the bound on the journal and `BystandersStay`; of the ledgers `ShortfallIsExplained`,
`SealKeepsUp`, `FreezesForAReason` and `LedgersOnlyGrow`; `Recall`; `Index` but
for `NeverPermanentlyWrong`, which fails. Without `whole` tears: `DamageIsLast`,
`AcknowledgedIsKept`, `LandedIsOnRecord`, and everything of `Ingest`. From
assumptions on the environment named in sections 2 and 3: `NamedOwnerClaims`,
`AppliedOnce`, `OpIsAtomic`, `StatusTellsTheTruth`, `AllOrNothing`,
`AppliesAtomically`.

*Model-checked only*: the liveness properties `LockIsPassedOn`,
`WorkspaceIsReleased` and `AckedIsApplied`, as liveness under fairness is out of
the prover's reach; and the three violations.

*Left out of the modelled components*: of the apply engine the checks before the
workspace lock (dedup, backlog, no-touch window, cooldown), which can only make
`Submit` rarer, the intel state, the layout migration, block deletion and diff,
snapshot directories that collide within a second, the contents of blocks, and a
hard error of the file system in the middle of `shutil.copy2` during a restore.
Of the gate batches, edges, artifacts, deletes and the drift of the configuration
(in `ApplyEngine` a mere refusal). Of the ledgers import, export, inclusion
proofs, chain signatures and the field audit. Of the ingest door the mode without
a log, two commands over one log, and the parsing of requests. Of serving the
digests, the envelope and every tool but recall.

*Not modelled*: scoring, ranking, fusion and embeddings (numeric; nothing a finite
model would tell apart); text analysis (contradiction and drift detection);
servers, command line and connectors (parsing, formatting and calls of the above);
Postgres and encrypted stores, whose atomicity is the database's. The bulk of the
repository's lines are of these kinds, or tests, benchmarks and training scripts.

## 10. Plan

1. **Done**: `FileLock`; `AtomicApply`, `ApplyEngine`; `AdmissionLog`, `Ledgers`;
   `Ingest`; `Recall`; `Index`; a proof module for each.
2. **Admission tiers**: receipts, tiers and landings; no write outside a receipt.
   Then the staging of releases from quarantine, whose ids `Index` takes as given,
   and the checks before the workspace lock with the state they read.
3. **Candidates**: the circuit breaker and backpressure of `v4`, consensus vote,
   memory tiers, the vector index beside `Index`.
4. **Proofs to come**: weaker assumptions. `AllOrNothing` with failing Status
   updates (TLC finds it to hold on the instance of `apply_safety` with
   `MarkMayFail = TRUE`; what a second apply may undo is then less than the
   blocks of its proposal, and `AtWork` has to say so), `AppliesAtomically` with proposals staged at any time and an abstract
   step that loses one; type correctness of `Ingest` with `whole` tears.
