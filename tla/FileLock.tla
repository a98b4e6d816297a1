------------------------------ MODULE FileLock ------------------------------
(***************************************************************************)
(* The cooperative file lock of mind-mem (src/mind_mem/mind_filelock.py).  *)
(* A thread first takes its process's thread lock for the path, then       *)
(* claims the lockfile: it creates it with O_CREAT|O_EXCL, writes its pid  *)
(* and takes the OS lock; or it judges the lockfile it met abandoned and   *)
(* adopts it in place.  Release drops the OS lock, closes the descriptor   *)
(* and unlinks the file if its identity is still the one that was claimed. *)
(* One action is one system call, or several whose order nobody can see.   *)
(***************************************************************************)
EXTENDS FiniteSets

CONSTANTS Threads,        \* the threads contending for one lock path
          Procs,          \* the processes, named by their pids
          ProcOf,         \* the process each thread belongs to
          Inodes,         \* the (st_dev, st_ino) pairs the file system hands out
          Platforms,      \* the kinds of file system a behaviour may run on
          Mortal,         \* the processes that may die
          PidReuse,       \* may a dead pid be given to a new process?
          Faults,         \* may write and flock fail with a hard error?
          MayTimeout      \* may a waiter reach its deadline?

CONSTANTS None,           \* no thread, no file, no identity
          Empty, Released, Junk   \* texts of a lockfile that is not a pid

\* Names of the platforms.  On "posix" a name can always be unlinked; the
\* fresh identity of a file is one nobody remembers, except on "posix_reuse",
\* where a freed inode number is handed out again at once.  On "windows" and
\* "ntfs" a file that anybody has open cannot be unlinked; "ntfs" reuses file
\* records at once.  "nolock" is a network mount without advisory locks.
AllPlatforms == {"posix", "posix_reuse", "windows", "ntfs", "nolock"}

ASSUME LockAssumption ==
    /\ ProcOf \in [Threads -> Procs]
    /\ Platforms \subseteq AllPlatforms
    /\ Mortal \subseteq Procs
    /\ None \notin Threads \cup Inodes
    /\ Procs \cap {Empty, Released, Junk} = {}
    /\ Empty # Released /\ Empty # Junk /\ Released # Junk
    /\ PidReuse \in BOOLEAN /\ Faults \in BOOLEAN /\ MayTimeout \in BOOLEAN

VARIABLES platform,  \* the file system this behaviour runs on
          pc,        \* where each thread is
          threadLock,\* _thread_locks[lock_path] of each process: its owner
          dead,      \* the processes that are gone
          crashed,   \* history: some process has died
          path,      \* the inode lock_path names, or None
          text,      \* what each inode contains
          aged,      \* the inodes untouched for _UNREADABLE_LOCK_GRACE_SECONDS
          osLock,    \* the thread whose descriptor has each inode's OS lock
          fd,        \* the inode each thread has open
          identity,  \* the identity a thread judged, or is about to unlink
          old,       \* the threads that found that file past the grace
          after      \* what follows the unlink: poll again, leave, or check it

vars == <<platform, pc, threadLock, dead, crashed, path, text, aged, osLock,
          fd, identity, old, after>>

PCs == {"idle", "create", "poll", "write", "lock", "held", "marked",
        "ustat", "unlink", "gone", "stat", "open", "read",
        "break", "trylock", "confirm", "truncate", "rewrite"}

TypeOK ==
    /\ platform \in Platforms
    /\ pc \in [Threads -> PCs]
    /\ threadLock \in [Procs -> Threads \cup {None}]
    /\ dead \subseteq Procs
    /\ crashed \in BOOLEAN
    /\ path \in Inodes \cup {None}
    /\ text \in [Inodes -> Procs \cup {Empty, Released, Junk}]
    /\ aged \subseteq Inodes
    /\ osLock \in [Inodes -> Threads \cup {None}]
    /\ fd \in [Threads -> Inodes \cup {None}]
    /\ identity \in [Threads -> Inodes \cup {None}]
    /\ old \subseteq Threads
    /\ after \in [Threads -> {"poll", "leave", "gone"}]

Init ==
    /\ platform \in Platforms
    /\ pc = [t \in Threads |-> "idle"]
    /\ threadLock = [p \in Procs |-> None]
    /\ dead = {}
    /\ crashed = FALSE
    /\ path = None
    /\ text = [i \in Inodes |-> Empty]
    /\ aged = {}
    /\ osLock = [i \in Inodes |-> None]
    /\ fd = [t \in Threads |-> None]
    /\ identity = [t \in Threads |-> None]
    /\ old = {}
    /\ after = [t \in Threads |-> "poll"]

-----------------------------------------------------------------------------
(* The platform.                                                           *)

HasOsLock        == platform # "nolock"
UnlinkMayBeRefused == platform \in {"windows", "ntfs"}
IdentityReuse    == platform \in {"posix_reuse", "ntfs"}

\* The identities a new file may get.  Where numbers are not reused, a new
\* one differs from every identity anybody still remembers.
FreshIdentities ==
    {i \in Inodes : /\ i # path
                    /\ \A t \in Threads : fd[t] # i
                    /\ IdentityReuse \/ \A t \in Threads : identity[t] # i}

\* A file nobody has open is gone once its name is.
Wiped(i) == [j \in Inodes |-> IF j = i THEN Empty ELSE text[j]]

OpenElsewhere(t, i) == \E u \in Threads \ {t} : fd[u] = i

\* Two writers of one file write over each other at offset 0.
Written(i, p) == IF text[i] = Empty THEN {p} ELSE {p, Junk}

\* Releasing descriptor and OS lock together.
LocksWithout(T) == [i \in Inodes |-> IF osLock[i] \in T THEN None ELSE osLock[i]]

Alive(t) == ProcOf[t] \notin dead

Goto(t, l) == pc' = [pc EXCEPT ![t] = l]

\* The thread lock is the last thing acquire (on an error) or release gives
\* back.
Leave(t) ==
    /\ threadLock' = [threadLock EXCEPT ![ProcOf[t]] = None]
    /\ Goto(t, "idle")

-----------------------------------------------------------------------------
(* acquire: the thread lock, then the create.                              *)

Enter(t) ==
    /\ pc[t] = "idle"
    /\ Alive(t)
    /\ threadLock[ProcOf[t]] = None
    /\ threadLock' = [threadLock EXCEPT ![ProcOf[t]] = t]
    /\ Goto(t, "create")
    /\ UNCHANGED <<platform, dead, crashed, path, text, aged, osLock, fd,
                   identity, old, after>>

Create(t) ==
    /\ pc[t] \in {"create", "poll"}
    /\ path = None
    /\ \E i \in FreshIdentities :
         /\ path' = i
         /\ text' = [text EXCEPT ![i] = Empty]
         /\ aged' = aged \ {i}
         /\ fd' = [fd EXCEPT ![t] = i]
    /\ Goto(t, "write")
    /\ UNCHANGED <<platform, threadLock, dead, crashed, osLock, identity, old,
                   after>>

CreateExists(t) ==
    /\ pc[t] \in {"create", "poll"}
    /\ path # None
    /\ Goto(t, "stat")
    /\ UNCHANGED <<platform, threadLock, dead, crashed, path, text, aged,
                   osLock, fd, identity, old, after>>

WriteClaim(t) ==
    /\ pc[t] = "write"
    /\ \E c \in Written(fd[t], ProcOf[t]) : text' = [text EXCEPT ![fd[t]] = c]
    /\ aged' = aged \ {fd[t]}
    /\ Goto(t, "lock")
    /\ UNCHANGED <<platform, threadLock, dead, crashed, path, osLock, fd,
                   identity, old, after>>

\* _discard_lock_file: identify the file, close it, then unlink it if it is
\* still there.
Discard(t, next) ==
    /\ identity' = [identity EXCEPT ![t] = fd[t]]
    /\ fd' = [fd EXCEPT ![t] = None]
    /\ after' = [after EXCEPT ![t] = next]
    /\ Goto(t, "ustat")

WriteClaimFails(t) ==
    /\ Faults
    /\ pc[t] = "write"
    /\ Discard(t, "leave")
    /\ UNCHANGED <<platform, threadLock, dead, crashed, path, text, aged,
                   osLock, old>>

\* Seeded fault: swallow the refusal of the OS lock.
TakeOsLockAnyway(t) ==
    /\ pc[t] = "lock"
    /\ osLock' = IF HasOsLock /\ osLock[fd[t]] = None
                 THEN [osLock EXCEPT ![fd[t]] = t] ELSE osLock
    /\ Goto(t, "held")
    /\ UNCHANGED <<platform, threadLock, dead, crashed, path, text, aged, fd,
                   identity, old, after>>

TakeOsLock(t) ==
    /\ pc[t] = "lock"
    /\ HasOsLock => osLock[fd[t]] = None
    /\ osLock' = IF HasOsLock THEN [osLock EXCEPT ![fd[t]] = t] ELSE osLock
    /\ Goto(t, "held")
    /\ UNCHANGED <<platform, threadLock, dead, crashed, path, text, aged, fd,
                   identity, old, after>>

OsLockRefused(t) ==
    /\ pc[t] = "lock"
    /\ HasOsLock
    /\ \/ osLock[fd[t]] # None /\ Discard(t, "poll")
       \/ Faults /\ Discard(t, "leave")
    /\ UNCHANGED <<platform, threadLock, dead, crashed, path, text, aged,
                   osLock, old>>

\* Seeded fault: the thread lock is not handed back on a timeout.
GiveUpLocked(t) ==
    /\ MayTimeout
    /\ pc[t] = "poll"
    /\ Goto(t, "idle")
    /\ UNCHANGED <<platform, threadLock, dead, crashed, path, text, aged, osLock,
                   fd, identity, old, after>>

GiveUp(t) ==
    /\ MayTimeout
    /\ pc[t] = "poll"
    /\ Leave(t)
    /\ UNCHANGED <<platform, dead, crashed, path, text, aged, osLock, fd,
                   identity, old, after>>

-----------------------------------------------------------------------------
(* _stale_identity: stat, then open and read, then probe the pid.          *)

\* Forget what was judged and go back to the poll.
BackToPoll(t) ==
    /\ identity' = [identity EXCEPT ![t] = None]
    /\ old' = old \ {t}
    /\ Goto(t, "poll")

Stat(t) ==
    /\ pc[t] = "stat"
    /\ \/ path = None /\ BackToPoll(t)
       \/ /\ path # None
          /\ identity' = [identity EXCEPT ![t] = path]
          /\ old' = IF path \in aged THEN old \cup {t} ELSE old \ {t}
          /\ Goto(t, "open")
    /\ UNCHANGED <<platform, threadLock, dead, crashed, path, text, aged,
                   osLock, fd, after>>

Open(t) ==
    /\ pc[t] = "open"
    /\ \/ path = None /\ BackToPoll(t) /\ UNCHANGED fd
       \/ /\ path # None
          /\ fd' = [fd EXCEPT ![t] = path]
          /\ Goto(t, "read")
          /\ UNCHANGED <<identity, old>>
    /\ UNCHANGED <<platform, threadLock, dead, crashed, path, text, aged,
                   osLock, after>>

\* Is a lockfile with text c abandoned?  An unknown owner is waited for until
\* the grace has passed; a named one until its pid is gone.
\* Seeded fault: an empty lockfile is a corpse at once.
StaleWhenEmpty(c, isOld) ==
    \/ c = Empty
    \/ c = Junk /\ isOld
    \/ c = Released
    \/ c \in dead

Stale(c, isOld) ==
    \/ c \in {Empty, Junk} /\ isOld
    \/ c = Released
    \/ c \in dead

Read(t) ==
    /\ pc[t] = "read"
    /\ fd' = [fd EXCEPT ![t] = None]
    /\ \/ /\ Stale(text[fd[t]], t \in old)
          /\ Goto(t, "break")
          /\ old' = old \ {t}
          /\ UNCHANGED identity
       \/ ~Stale(text[fd[t]], t \in old) /\ BackToPoll(t)
    /\ UNCHANGED <<platform, threadLock, dead, crashed, path, text, aged,
                   osLock, after>>

-----------------------------------------------------------------------------
(* _break_stale: open, compare identities, arbitrate, confirm, adopt.      *)

\* Seeded fault: no comparison of identities before the lock.
BreakOpenAnything(t) ==
    /\ pc[t] = "break"
    /\ \/ path = None /\ BackToPoll(t) /\ UNCHANGED fd
       \/ /\ path # None
          /\ fd' = [fd EXCEPT ![t] = path]
          /\ Goto(t, "trylock")
          /\ UNCHANGED <<identity, old>>
    /\ UNCHANGED <<platform, threadLock, dead, crashed, path, text, aged,
                   osLock, after>>

BreakOpen(t) ==
    /\ pc[t] = "break"
    /\ \/ path # identity[t] /\ BackToPoll(t) /\ UNCHANGED fd
       \/ /\ path = identity[t]
          /\ fd' = [fd EXCEPT ![t] = path]
          /\ Goto(t, "trylock")
          /\ UNCHANGED <<identity, old>>
    /\ UNCHANGED <<platform, threadLock, dead, crashed, path, text, aged,
                   osLock, after>>

\* Drop the descriptor, and the OS lock if it was taken.
Close(t) ==
    /\ fd' = [fd EXCEPT ![t] = None]
    /\ osLock' = LocksWithout({t})

BreakLock(t) ==
    /\ pc[t] = "trylock"
    /\ HasOsLock
    /\ \/ /\ osLock[fd[t]] = None
          /\ osLock' = [osLock EXCEPT ![fd[t]] = t]
          /\ Goto(t, "confirm")
          /\ UNCHANGED <<fd, identity, old>>
       \/ osLock[fd[t]] # None /\ Close(t) /\ BackToPoll(t)
    /\ UNCHANGED <<platform, threadLock, dead, crashed, path, text, aged,
                   after>>

BreakByUnlink(t) ==
    /\ pc[t] = "trylock"
    /\ ~HasOsLock
    /\ Close(t)
    /\ after' = [after EXCEPT ![t] = "gone"]
    /\ Goto(t, "ustat")
    /\ UNCHANGED <<platform, threadLock, dead, crashed, path, text, aged,
                   identity, old>>

CorpseIsGone(t) ==
    /\ pc[t] = "gone"
    /\ IF path # identity[t] THEN Goto(t, "create") ELSE Goto(t, "poll")
    /\ identity' = [identity EXCEPT ![t] = None]
    /\ UNCHANGED <<platform, threadLock, dead, crashed, path, text, aged,
                   osLock, fd, old, after>>

Confirm(t) ==
    /\ pc[t] = "confirm"
    /\ \/ path # identity[t] /\ Close(t) /\ BackToPoll(t)
       \/ /\ path = identity[t]
          /\ Goto(t, "truncate")
          /\ UNCHANGED <<osLock, fd, identity, old>>
    /\ UNCHANGED <<platform, threadLock, dead, crashed, path, text, aged,
                   after>>

Truncate(t) ==
    /\ pc[t] = "truncate"
    /\ text' = [text EXCEPT ![fd[t]] = Empty]
    /\ aged' = aged \ {fd[t]}
    /\ Goto(t, "rewrite")
    /\ UNCHANGED <<platform, threadLock, dead, crashed, path, osLock, fd,
                   identity, old, after>>

Adopt(t) ==
    /\ pc[t] = "rewrite"
    /\ \E c \in Written(fd[t], ProcOf[t]) : text' = [text EXCEPT ![fd[t]] = c]
    /\ aged' = aged \ {fd[t]}
    /\ identity' = [identity EXCEPT ![t] = None]
    /\ Goto(t, "held")
    /\ UNCHANGED <<platform, threadLock, dead, crashed, path, osLock, fd, old,
                   after>>

\* The rewrite meets contention and the acquire polls on, or a hard error and
\* it raises.  The OS lock and the descriptor are dropped either way.
RewriteFails(t) ==
    /\ Faults
    /\ pc[t] \in {"truncate", "rewrite"}
    /\ Close(t)
    /\ identity' = [identity EXCEPT ![t] = None]
    /\ \/ Goto(t, "poll") /\ UNCHANGED threadLock
       \/ Leave(t)
    /\ UNCHANGED <<platform, dead, crashed, path, text, aged, old, after>>

-----------------------------------------------------------------------------
(* release, and the identity-checked unlink it shares with the other paths. *)

\* Seeded fault: no sentinel.
MarkNothing(t) ==
    /\ pc[t] = "held"
    /\ UnlinkMayBeRefused
    /\ Goto(t, "marked")
    /\ UNCHANGED <<platform, threadLock, dead, crashed, path, text, aged,
                   osLock, fd, identity, old, after>>

\* A hard error leaves the text as it was, or truncated, and is swallowed.
MarkReleased(t) ==
    /\ pc[t] = "held"
    /\ UnlinkMayBeRefused
    /\ \/ /\ \E c \in {Released, Empty} :
               /\ c = Empty => Faults
               /\ text' = [text EXCEPT ![fd[t]] = c]
          /\ aged' = aged \ {fd[t]}
       \/ Faults /\ UNCHANGED <<text, aged>>
    /\ Goto(t, "marked")
    /\ UNCHANGED <<platform, threadLock, dead, crashed, path, osLock, fd,
                   identity, old, after>>

Unlock(t) ==
    /\ pc[t] = IF UnlinkMayBeRefused THEN "marked" ELSE "held"
    /\ identity' = [identity EXCEPT ![t] = fd[t]]
    /\ Close(t)
    /\ after' = [after EXCEPT ![t] = "leave"]
    /\ Goto(t, "ustat")
    /\ UNCHANGED <<platform, threadLock, dead, crashed, path, text, aged, old>>

\* What follows the unlink, made or not: the corpse check needs the identity.
\* Seeded fault: the thread lock is not given back.
UnlinkedStillLocked(t) ==
    /\ identity' = [identity EXCEPT ![t] = IF after[t] = "gone" THEN @ ELSE None]
    /\ after' = [after EXCEPT ![t] = "poll"]
    /\ Goto(t, after[t])
    /\ UNCHANGED threadLock

Unlinked(t) ==
    /\ identity' = [identity EXCEPT ![t] = IF after[t] = "gone" THEN @ ELSE None]
    /\ after' = [after EXCEPT ![t] = "poll"]
    /\ \/ after[t] = "leave" /\ Leave(t)
       \/ after[t] # "leave" /\ Goto(t, after[t]) /\ UNCHANGED threadLock

UnlinkStat(t) ==
    /\ pc[t] = "ustat"
    /\ \/ /\ path = identity[t]
          /\ Goto(t, "unlink")
          /\ UNCHANGED <<threadLock, identity, after>>
       \/ path # identity[t] /\ Unlinked(t)
    /\ UNCHANGED <<platform, dead, crashed, path, text, aged, osLock, fd, old>>

\* os.unlink removes whatever lock_path names by now.
Unlink(t) ==
    /\ pc[t] = "unlink"
    /\ Unlinked(t)
    /\ \/ /\ UnlinkMayBeRefused /\ OpenElsewhere(t, path)
          /\ UNCHANGED <<path, text, aged>>
       \/ /\ ~(UnlinkMayBeRefused /\ OpenElsewhere(t, path))
          /\ path' = None
          /\ text' = IF OpenElsewhere(t, path) THEN text ELSE Wiped(path)
          /\ aged' = aged \ {path}
    /\ UNCHANGED <<platform, dead, crashed, osLock, fd, old>>

-----------------------------------------------------------------------------
(* The environment: processes die, pids come back, the clock runs.         *)

ThreadsOf(p) == {t \in Threads : ProcOf[t] = p}

\* The kernel closes the descriptors of a dead process and drops its locks.
Crash(p) ==
    /\ p \in Mortal \ dead
    /\ dead' = dead \cup {p}
    /\ crashed' = TRUE
    /\ threadLock' = [threadLock EXCEPT ![p] = None]
    /\ osLock' = LocksWithout(ThreadsOf(p))
    /\ pc' = [t \in Threads |-> IF ProcOf[t] = p THEN "idle" ELSE pc[t]]
    /\ fd' = [t \in Threads |-> IF ProcOf[t] = p THEN None ELSE fd[t]]
    /\ identity' = [t \in Threads |-> IF ProcOf[t] = p THEN None ELSE identity[t]]
    /\ old' = old \ ThreadsOf(p)
    /\ after' = [t \in Threads |-> IF ProcOf[t] = p THEN "poll" ELSE after[t]]
    /\ UNCHANGED <<platform, path, text, aged>>

\* A container restart: the new process has the old one's pid.
Restart(p) ==
    /\ PidReuse
    /\ p \in dead
    /\ dead' = dead \ {p}
    /\ UNCHANGED <<platform, pc, threadLock, crashed, path, text, aged, osLock,
                   fd, identity, old, after>>

\* Five minutes pass over the lockfile.  The code relies on nobody being
\* stopped that long between the create and the write, or between a failed
\* write and the unlink that undoes the create.
MidHandshake(t, i) ==
    \/ pc[t] = "write" /\ fd[t] = i
    \/ pc[t] \in {"ustat", "unlink"} /\ identity[t] = i

Age ==
    /\ path # None
    /\ path \notin aged
    /\ \A t \in Threads : ~MidHandshake(t, path)
    /\ aged' = aged \cup {path}
    /\ UNCHANGED <<platform, pc, threadLock, dead, crashed, path, text, osLock,
                   fd, identity, old, after>>

-----------------------------------------------------------------------------
Acquiring(t) ==
    \/ Create(t) \/ CreateExists(t) \/ WriteClaim(t) \/ WriteClaimFails(t)
    \/ TakeOsLock(t) \/ OsLockRefused(t) \/ GiveUp(t)
    \/ Stat(t) \/ Open(t) \/ Read(t)
    \/ BreakOpen(t) \/ BreakLock(t) \/ BreakByUnlink(t) \/ CorpseIsGone(t)
    \/ Confirm(t) \/ Truncate(t) \/ Adopt(t) \/ RewriteFails(t)

Releasing(t) == MarkReleased(t) \/ Unlock(t)

Undoing(t) == UnlinkStat(t) \/ Unlink(t)

Step(t) == Acquiring(t) \/ Releasing(t) \/ Undoing(t)

Next ==
    \/ \E t \in Threads : Enter(t) \/ Step(t)
    \/ \E p \in Procs : Crash(p) \/ Restart(p)
    \/ Age

Spec == Init /\ [][Next]_vars

\* Every live thread keeps running its code (a critical section ends), and
\* time passes.  Nobody has to start an acquire, and nobody has to die.
Fairness == WF_vars(Age) /\ \A t \in Threads : WF_vars(Step(t))

FairSpec == Spec /\ Fairness

-----------------------------------------------------------------------------
(* Properties.                                                             *)

InSection(t) == pc[t] \in {"held", "marked"}

AtMostOne == \A t, u \in Threads : InSection(t) /\ InSection(u) => t = u

\* Nothing the code relies on has gone away: an open file cannot be unlinked,
\* or identities are not reused and every claim so far was given up properly.
Sound == \/ UnlinkMayBeRefused
         \/ platform # "posix_reuse" /\ ~crashed

\* No two threads are inside the section FileLock protects, on any platform
\* and whoever has died: "exactly one holder afterwards" (_break_stale,
\* mind_filelock.py:642-643).
MutualExclusion == AtMostOne

\* What the code delivers of it: exclusion where an open file cannot be
\* unlinked, with crashes, failed writes and reused identities; elsewhere
\* until the first process dies, however acquires, failed acquires and
\* releases interleave.
ExclusionUnlessCrashed == Sound => AtMostOne

\* While a thread is in the section, lock_path names the very file it claimed,
\* with its OS lock: no release, discard or break by anybody else removed or
\* replaced the claim (the docstrings of release and _unlink_if_ours).
HolderKeepsClaim ==
    Sound => \A t \in Threads :
        InSection(t) => path = fd[t] /\ (HasOsLock => osLock[fd[t]] = t)

\* A creator's own attempt at the OS lock meets nobody: "we created this
\* lockfile with O_EXCL, so nothing else should be able to hold its OS lock --
\* and on POSIX nothing can" (_acquire_file_lock, mind_filelock.py:317-319).
\* Not so where a freed inode number comes back at once: there a breaker that
\* judged the last file of that number takes the lock first.
CreatorMeetsNobody ==
    platform = "posix" =>
        \A t \in Threads : pc[t] = "lock" => osLock[fd[t]] = None

\* The threads that have claimed the file at lock_path, or are undoing a claim.
Claims(t) ==
    \/ /\ fd[t] = path
       /\ pc[t] \in {"write", "lock", "held", "marked", "confirm", "truncate", "rewrite"}
    \/ identity[t] = path /\ pc[t] \in {"ustat", "unlink"}

\* A lockfile that names a live process is somebody's claim: when an unlink is
\* refused, "the file left behind is one every waiter may break"
\* (_unlink_if_ours, mind_filelock.py:506-508).
NamedOwnerClaims ==
    path # None /\ text[path] \in Procs \ dead => \E t \in Threads : Claims(t)

\* Who acquires, holds or releases has the thread lock of its process to itself,
\* and who is through, by a timeout, a hard error, a refused unlink or a release,
\* has handed back that lock, the OS lock and the descriptor ("or this lock_path
\* is dead for every other thread in the process", acquire, mind_filelock.py:248-249).
LeaversHoldNothing ==
    \A t \in Threads :
        /\ threadLock[ProcOf[t]] = t <=> pc[t] # "idle"
        /\ pc[t] = "idle" => fd[t] = None /\ \A i \in Inodes : osLock[i] # t

Waiting(t) == pc[t] \notin {"idle", "held", "marked"} /\ after[t] # "leave"

\* Nobody is wedged: while threads wait, somebody gets the lock, whoever died
\* at whatever step and whether or not a release's unlink was refused (the
\* grace of _stale_identity, the sentinel of _mark_released).
LockIsPassedOn ==
    (\E t \in Threads : Waiting(t))
        ~> \/ \E t \in Threads : InSection(t)
           \/ \A t \in Threads : ~Waiting(t)

-----------------------------------------------------------------------------
(* The inductive invariant behind ExclusionUnlessCrashed and               *)
(* HolderKeepsClaim.  It has one half per way exclusion comes about.       *)

HasFile == {"write", "lock", "held", "marked", "read", "trylock", "confirm",
            "truncate", "rewrite"}

HasTakenOsLock == {"confirm", "truncate", "rewrite", "held", "marked"}

\* A descriptor is open exactly while the code has one, and what was judged
\* is remembered while it is needed.
Descriptors ==
    /\ \A t \in Threads : fd[t] # None <=> pc[t] \in HasFile
    /\ \A t \in Threads : pc[t] \in {"open", "read", "break"} => identity[t] # None
    /\ dead # {} => crashed

\* Where an open file cannot be unlinked, everybody who has a lockfile open
\* has the one at lock_path open, and its OS lock arbitrates.
Arbitrated ==
    UnlinkMayBeRefused =>
        /\ \A t \in Threads : fd[t] # None => fd[t] = path
        /\ \A t \in Threads : pc[t] \in HasTakenOsLock => osLock[fd[t]] = t

\* Elsewhere, while nobody has died, the lockfile has one owner at a time, from
\* its create to the unlink that ends the claim.
Owner(t) == pc[t] \in {"write", "lock", "held", "ustat", "unlink"}

NamesOwner == path # None /\ text[path] \in Procs

Judging(t) == pc[t] \in {"open", "read"} /\ path # None /\ identity[t] = path

Owned ==
    platform \in {"posix", "nolock"} /\ ~crashed =>
        /\ \A t \in Threads :
              /\ pc[t] \notin {"trylock", "confirm", "truncate", "rewrite", "gone", "marked"}
              /\ after[t] # "gone"
        /\ path # None => /\ \E t \in Threads : Owner(t)
                          /\ text[path] \in Procs \cup {Empty}
        /\ \A t \in Threads : Owner(t) =>
              /\ path # None
              /\ pc[t] \in {"write", "lock", "held"} => fd[t] = path
              /\ pc[t] \in {"ustat", "unlink"} => identity[t] = path
              /\ pc[t] \in {"lock", "held"} => NamesOwner
              /\ pc[t] = "write" => text[path] = Empty
              /\ pc[t] = "held" /\ HasOsLock => osLock[path] = t
        /\ \A t, u \in Threads : Owner(t) /\ Owner(u) => t = u
        /\ path \in aged => NamesOwner
        /\ \A t \in Threads : Judging(t) =>
              /\ t \in old => NamesOwner
              /\ pc[t] = "read" => fd[t] = path
        /\ \A t \in Threads : pc[t] = "break" => identity[t] # path

IInv == TypeOK /\ Descriptors /\ Arbitrated /\ Owned
=============================================================================
