--------------------------- MODULE FileLockProofs ---------------------------
(***************************************************************************)
(* Proofs about FileLock for any threads, processes and identities.        *)
(***************************************************************************)
EXTENDS FileLock, TLAPS

\* Every step keeps the types.
LEMMA TypeStep ==
    ASSUME TypeOK, [Next]_vars
    PROVE  TypeOK'
<1> USE LockAssumption
<1>1. ASSUME NEW t \in Threads, Enter(t) PROVE TypeOK'
  BY <1>1 DEF Enter, Goto, TypeOK, PCs
<1>2. ASSUME NEW t \in Threads, Create(t) PROVE TypeOK'
  BY <1>2 DEF Create, Goto, FreshIdentities, TypeOK, PCs
<1>3. ASSUME NEW t \in Threads, CreateExists(t) PROVE TypeOK'
  BY <1>3 DEF CreateExists, Goto, TypeOK, PCs
<1>4. ASSUME NEW t \in Threads, WriteClaim(t) PROVE TypeOK'
  <2>1. Written(fd[t], ProcOf[t]) \subseteq Procs \cup {Junk}
    BY DEF Written
  <2>2. text' \in [Inodes -> Procs \cup {Empty, Released, Junk}]
    <3>1. PICK c \in Written(fd[t], ProcOf[t]) : text' = [text EXCEPT ![fd[t]] = c]
      BY <1>4 DEF WriteClaim
    <3>2. c \in Procs \cup {Empty, Released, Junk}
      BY <2>1, <3>1
    <3>3. QED
      BY <3>1, <3>2 DEF TypeOK
  <2>3. pc' \in [Threads -> PCs]
    BY <1>4 DEF WriteClaim, Goto, TypeOK, PCs
  <2>4. QED
    BY <1>4, <2>2, <2>3 DEF WriteClaim, TypeOK
<1>5. ASSUME NEW t \in Threads, WriteClaimFails(t) PROVE TypeOK'
  BY <1>5 DEF WriteClaimFails, Goto, Discard, TypeOK, PCs
<1>6. ASSUME NEW t \in Threads, TakeOsLock(t) PROVE TypeOK'
  BY <1>6 DEF TakeOsLock, Goto, TypeOK, PCs
<1>7. ASSUME NEW t \in Threads, OsLockRefused(t) PROVE TypeOK'
  BY <1>7 DEF OsLockRefused, Goto, Discard, TypeOK, PCs
<1>8. ASSUME NEW t \in Threads, GiveUp(t) PROVE TypeOK'
  BY <1>8 DEF GiveUp, Leave, Goto, TypeOK, PCs
<1>9. ASSUME NEW t \in Threads, Stat(t) PROVE TypeOK'
  BY <1>9 DEF Stat, Goto, BackToPoll, TypeOK, PCs
<1>10. ASSUME NEW t \in Threads, Open(t) PROVE TypeOK'
  BY <1>10 DEF Open, Goto, BackToPoll, TypeOK, PCs
<1>11. ASSUME NEW t \in Threads, Read(t) PROVE TypeOK'
  BY <1>11 DEF Read, Goto, BackToPoll, TypeOK, PCs
<1>12. ASSUME NEW t \in Threads, BreakOpen(t) PROVE TypeOK'
  BY <1>12 DEF BreakOpen, Goto, BackToPoll, TypeOK, PCs
<1>13. ASSUME NEW t \in Threads, BreakLock(t) PROVE TypeOK'
  BY <1>13 DEF BreakLock, Goto, BackToPoll, Close, LocksWithout, TypeOK, PCs
<1>14. ASSUME NEW t \in Threads, BreakByUnlink(t) PROVE TypeOK'
  BY <1>14 DEF BreakByUnlink, Goto, Close, LocksWithout, TypeOK, PCs
<1>15. ASSUME NEW t \in Threads, CorpseIsGone(t) PROVE TypeOK'
  BY <1>15 DEF CorpseIsGone, Goto, TypeOK, PCs
<1>16. ASSUME NEW t \in Threads, Confirm(t) PROVE TypeOK'
  BY <1>16 DEF Confirm, Goto, BackToPoll, Close, LocksWithout, TypeOK, PCs
<1>17. ASSUME NEW t \in Threads, Truncate(t) PROVE TypeOK'
  BY <1>17 DEF Truncate, Goto, TypeOK, PCs
<1>18. ASSUME NEW t \in Threads, Adopt(t) PROVE TypeOK'
  <2>1. Written(fd[t], ProcOf[t]) \subseteq Procs \cup {Junk}
    BY DEF Written
  <2>2. text' \in [Inodes -> Procs \cup {Empty, Released, Junk}]
    <3>1. PICK c \in Written(fd[t], ProcOf[t]) : text' = [text EXCEPT ![fd[t]] = c]
      BY <1>18 DEF Adopt
    <3>2. c \in Procs \cup {Empty, Released, Junk}
      BY <2>1, <3>1
    <3>3. QED
      BY <3>1, <3>2 DEF TypeOK
  <2>3. pc' \in [Threads -> PCs]
    BY <1>18 DEF Adopt, Goto, TypeOK, PCs
  <2>4. QED
    BY <1>18, <2>2, <2>3 DEF Adopt, TypeOK
<1>19. ASSUME NEW t \in Threads, RewriteFails(t) PROVE TypeOK'
  BY <1>19 DEF RewriteFails, Goto, Leave, Close, LocksWithout, TypeOK, PCs
<1>20. ASSUME NEW t \in Threads, MarkReleased(t) PROVE TypeOK'
  BY <1>20 DEF MarkReleased, Goto, TypeOK, PCs
<1>21. ASSUME NEW t \in Threads, Unlock(t) PROVE TypeOK'
  BY <1>21 DEF Unlock, Goto, Close, LocksWithout, TypeOK, PCs
<1>22. ASSUME NEW t \in Threads, UnlinkStat(t) PROVE TypeOK'
  BY <1>22 DEF UnlinkStat, Goto, Unlinked, Leave, TypeOK, PCs
<1>23. ASSUME NEW t \in Threads, Unlink(t) PROVE TypeOK'
  BY <1>23 DEF Unlink, Goto, Unlinked, Leave, Wiped, OpenElsewhere, TypeOK, PCs
<1>24. ASSUME NEW p \in Procs, Crash(p) PROVE TypeOK'
  BY <1>24 DEF Crash, LocksWithout, ThreadsOf, TypeOK, PCs
<1>25. ASSUME NEW p \in Procs, Restart(p) PROVE TypeOK'
  BY <1>25 DEF Restart, TypeOK, PCs
<1>26. CASE Age
  BY <1>26 DEF Age, TypeOK, PCs
<1>27. CASE UNCHANGED vars
  BY <1>27 DEF vars, TypeOK, PCs
<1>28. QED
  BY <1>1, <1>2, <1>3, <1>4, <1>5, <1>6, <1>7, <1>8, <1>9, <1>10, <1>11,
     <1>12, <1>13, <1>14, <1>15, <1>16, <1>17, <1>18, <1>19, <1>20, <1>21,
     <1>22, <1>23, <1>24, <1>25, <1>26, <1>27 DEF Next, Step, Acquiring,
     Releasing, Undoing

\* Every step keeps the bookkeeping of descriptors and judgements.
LEMMA DescriptorsStep ==
    ASSUME TypeOK, Descriptors, [Next]_vars
    PROVE  Descriptors'
<1> USE LockAssumption
<1>1. ASSUME NEW t \in Threads, Enter(t) PROVE Descriptors'
  BY <1>1 DEF Enter, Goto, TypeOK, Descriptors, HasFile
<1>2. ASSUME NEW t \in Threads, Create(t) PROVE Descriptors'
  BY <1>2 DEF Create, Goto, FreshIdentities, TypeOK, Descriptors, HasFile
<1>3. ASSUME NEW t \in Threads, CreateExists(t) PROVE Descriptors'
  BY <1>3 DEF CreateExists, Goto, TypeOK, Descriptors, HasFile
<1>4. ASSUME NEW t \in Threads, WriteClaim(t) PROVE Descriptors'
  BY <1>4 DEF WriteClaim, Goto, Written, TypeOK, Descriptors, HasFile
<1>5. ASSUME NEW t \in Threads, WriteClaimFails(t) PROVE Descriptors'
  BY <1>5 DEF WriteClaimFails, Goto, Discard, TypeOK, Descriptors, HasFile
<1>6. ASSUME NEW t \in Threads, TakeOsLock(t) PROVE Descriptors'
  BY <1>6 DEF TakeOsLock, Goto, TypeOK, Descriptors, HasFile
<1>7. ASSUME NEW t \in Threads, OsLockRefused(t) PROVE Descriptors'
  BY <1>7 DEF OsLockRefused, Goto, Discard, TypeOK, Descriptors, HasFile
<1>8. ASSUME NEW t \in Threads, GiveUp(t) PROVE Descriptors'
  BY <1>8 DEF GiveUp, Leave, Goto, TypeOK, Descriptors, HasFile
<1>9. ASSUME NEW t \in Threads, Stat(t) PROVE Descriptors'
  BY <1>9 DEF Stat, Goto, BackToPoll, TypeOK, Descriptors, HasFile
<1>10. ASSUME NEW t \in Threads, Open(t) PROVE Descriptors'
  BY <1>10 DEF Open, Goto, BackToPoll, TypeOK, Descriptors, HasFile
<1>11. ASSUME NEW t \in Threads, Read(t) PROVE Descriptors'
  BY <1>11 DEF Read, Goto, BackToPoll, TypeOK, Descriptors, HasFile
<1>12. ASSUME NEW t \in Threads, BreakOpen(t) PROVE Descriptors'
  BY <1>12 DEF BreakOpen, Goto, BackToPoll, TypeOK, Descriptors, HasFile
<1>13. ASSUME NEW t \in Threads, BreakLock(t) PROVE Descriptors'
  BY <1>13 DEF BreakLock, Goto, BackToPoll, Close, LocksWithout, TypeOK, Descriptors, HasFile
<1>14. ASSUME NEW t \in Threads, BreakByUnlink(t) PROVE Descriptors'
  BY <1>14 DEF BreakByUnlink, Goto, Close, LocksWithout, TypeOK, Descriptors, HasFile
<1>15. ASSUME NEW t \in Threads, CorpseIsGone(t) PROVE Descriptors'
  BY <1>15 DEF CorpseIsGone, Goto, TypeOK, Descriptors, HasFile
<1>16. ASSUME NEW t \in Threads, Confirm(t) PROVE Descriptors'
  BY <1>16 DEF Confirm, Goto, BackToPoll, Close, LocksWithout, TypeOK, Descriptors, HasFile
<1>17. ASSUME NEW t \in Threads, Truncate(t) PROVE Descriptors'
  BY <1>17 DEF Truncate, Goto, TypeOK, Descriptors, HasFile
<1>18. ASSUME NEW t \in Threads, Adopt(t) PROVE Descriptors'
  BY <1>18 DEF Adopt, Goto, Written, TypeOK, Descriptors, HasFile
<1>19. ASSUME NEW t \in Threads, RewriteFails(t) PROVE Descriptors'
  BY <1>19 DEF RewriteFails, Goto, Leave, Close, LocksWithout, TypeOK, Descriptors, HasFile
<1>20. ASSUME NEW t \in Threads, MarkReleased(t) PROVE Descriptors'
  BY <1>20 DEF MarkReleased, Goto, TypeOK, Descriptors, HasFile
<1>21. ASSUME NEW t \in Threads, Unlock(t) PROVE Descriptors'
  BY <1>21 DEF Unlock, Goto, Close, LocksWithout, TypeOK, Descriptors, HasFile
<1>22. ASSUME NEW t \in Threads, UnlinkStat(t) PROVE Descriptors'
  BY <1>22 DEF UnlinkStat, Goto, Unlinked, Leave, TypeOK, Descriptors, HasFile
<1>23. ASSUME NEW t \in Threads, Unlink(t) PROVE Descriptors'
  BY <1>23 DEF Unlink, Goto, Unlinked, Leave, Wiped, OpenElsewhere, TypeOK, Descriptors, HasFile
<1>24. ASSUME NEW p \in Procs, Crash(p) PROVE Descriptors'
  BY <1>24 DEF Crash, LocksWithout, ThreadsOf, TypeOK, Descriptors, HasFile
<1>25. ASSUME NEW p \in Procs, Restart(p) PROVE Descriptors'
  BY <1>25 DEF Restart, TypeOK, Descriptors, HasFile
<1>26. CASE Age
  BY <1>26 DEF Age, TypeOK, Descriptors, HasFile
<1>27. CASE UNCHANGED vars
  BY <1>27 DEF vars, TypeOK, Descriptors, HasFile
<1>28. QED
  BY <1>1, <1>2, <1>3, <1>4, <1>5, <1>6, <1>7, <1>8, <1>9, <1>10, <1>11,
     <1>12, <1>13, <1>14, <1>15, <1>16, <1>17, <1>18, <1>19, <1>20, <1>21,
     <1>22, <1>23, <1>24, <1>25, <1>26, <1>27 DEF Next, Step, Acquiring,
     Releasing, Undoing

\* Every step keeps the arbitration by the OS lock where an open file cannot
\* be unlinked.
LEMMA ArbitratedStep ==
    ASSUME TypeOK, Descriptors, Arbitrated, [Next]_vars
    PROVE  Arbitrated'
<1> USE LockAssumption
<1>1. ASSUME NEW t \in Threads, Enter(t) PROVE Arbitrated'
  BY <1>1 DEF Enter, Goto, TypeOK, Descriptors, HasFile, Arbitrated, UnlinkMayBeRefused, HasOsLock, HasTakenOsLock
<1>2. ASSUME NEW t \in Threads, Create(t) PROVE Arbitrated'
  BY <1>2 DEF Create, Goto, FreshIdentities, TypeOK, Descriptors, HasFile, Arbitrated, UnlinkMayBeRefused, HasOsLock, HasTakenOsLock
<1>3. ASSUME NEW t \in Threads, CreateExists(t) PROVE Arbitrated'
  BY <1>3 DEF CreateExists, Goto, TypeOK, Descriptors, HasFile, Arbitrated, UnlinkMayBeRefused, HasOsLock, HasTakenOsLock
<1>4. ASSUME NEW t \in Threads, WriteClaim(t) PROVE Arbitrated'
  BY <1>4 DEF WriteClaim, Goto, Written, TypeOK, Descriptors, HasFile, Arbitrated, UnlinkMayBeRefused, HasOsLock, HasTakenOsLock
<1>5. ASSUME NEW t \in Threads, WriteClaimFails(t) PROVE Arbitrated'
  BY <1>5 DEF WriteClaimFails, Goto, Discard, TypeOK, Descriptors, HasFile, Arbitrated, UnlinkMayBeRefused, HasOsLock, HasTakenOsLock
<1>6. ASSUME NEW t \in Threads, TakeOsLock(t) PROVE Arbitrated'
  BY <1>6 DEF TakeOsLock, Goto, TypeOK, Descriptors, HasFile, Arbitrated, UnlinkMayBeRefused, HasOsLock, HasTakenOsLock
<1>7. ASSUME NEW t \in Threads, OsLockRefused(t) PROVE Arbitrated'
  BY <1>7 DEF OsLockRefused, Goto, Discard, TypeOK, Descriptors, HasFile, Arbitrated, UnlinkMayBeRefused, HasOsLock, HasTakenOsLock
<1>8. ASSUME NEW t \in Threads, GiveUp(t) PROVE Arbitrated'
  BY <1>8 DEF GiveUp, Leave, Goto, TypeOK, Descriptors, HasFile, Arbitrated, UnlinkMayBeRefused, HasOsLock, HasTakenOsLock
<1>9. ASSUME NEW t \in Threads, Stat(t) PROVE Arbitrated'
  BY <1>9 DEF Stat, Goto, BackToPoll, TypeOK, Descriptors, HasFile, Arbitrated, UnlinkMayBeRefused, HasOsLock, HasTakenOsLock
<1>10. ASSUME NEW t \in Threads, Open(t) PROVE Arbitrated'
  BY <1>10 DEF Open, Goto, BackToPoll, TypeOK, Descriptors, HasFile, Arbitrated, UnlinkMayBeRefused, HasOsLock, HasTakenOsLock
<1>11. ASSUME NEW t \in Threads, Read(t) PROVE Arbitrated'
  BY <1>11 DEF Read, Goto, BackToPoll, TypeOK, Descriptors, HasFile, Arbitrated, UnlinkMayBeRefused, HasOsLock, HasTakenOsLock
<1>12. ASSUME NEW t \in Threads, BreakOpen(t) PROVE Arbitrated'
  BY <1>12 DEF BreakOpen, Goto, BackToPoll, TypeOK, Descriptors, HasFile, Arbitrated, UnlinkMayBeRefused, HasOsLock, HasTakenOsLock
<1>13. ASSUME NEW t \in Threads, BreakLock(t) PROVE Arbitrated'
  BY <1>13 DEF BreakLock, Goto, BackToPoll, Close, LocksWithout, TypeOK, Descriptors, HasFile, Arbitrated, UnlinkMayBeRefused, HasOsLock, HasTakenOsLock
<1>14. ASSUME NEW t \in Threads, BreakByUnlink(t) PROVE Arbitrated'
  BY <1>14 DEF BreakByUnlink, Goto, Close, LocksWithout, TypeOK, Descriptors, HasFile, Arbitrated, UnlinkMayBeRefused, HasOsLock, HasTakenOsLock
<1>15. ASSUME NEW t \in Threads, CorpseIsGone(t) PROVE Arbitrated'
  BY <1>15 DEF CorpseIsGone, Goto, TypeOK, Descriptors, HasFile, Arbitrated, UnlinkMayBeRefused, HasOsLock, HasTakenOsLock
<1>16. ASSUME NEW t \in Threads, Confirm(t) PROVE Arbitrated'
  BY <1>16 DEF Confirm, Goto, BackToPoll, Close, LocksWithout, TypeOK, Descriptors, HasFile, Arbitrated, UnlinkMayBeRefused, HasOsLock, HasTakenOsLock
<1>17. ASSUME NEW t \in Threads, Truncate(t) PROVE Arbitrated'
  BY <1>17 DEF Truncate, Goto, TypeOK, Descriptors, HasFile, Arbitrated, UnlinkMayBeRefused, HasOsLock, HasTakenOsLock
<1>18. ASSUME NEW t \in Threads, Adopt(t) PROVE Arbitrated'
  BY <1>18 DEF Adopt, Goto, Written, TypeOK, Descriptors, HasFile, Arbitrated, UnlinkMayBeRefused, HasOsLock, HasTakenOsLock
<1>19. ASSUME NEW t \in Threads, RewriteFails(t) PROVE Arbitrated'
  BY <1>19 DEF RewriteFails, Goto, Leave, Close, LocksWithout, TypeOK, Descriptors, HasFile, Arbitrated, UnlinkMayBeRefused, HasOsLock, HasTakenOsLock
<1>20. ASSUME NEW t \in Threads, MarkReleased(t) PROVE Arbitrated'
  BY <1>20 DEF MarkReleased, Goto, TypeOK, Descriptors, HasFile, Arbitrated, UnlinkMayBeRefused, HasOsLock, HasTakenOsLock
<1>21. ASSUME NEW t \in Threads, Unlock(t) PROVE Arbitrated'
  BY <1>21 DEF Unlock, Goto, Close, LocksWithout, TypeOK, Descriptors, HasFile, Arbitrated, UnlinkMayBeRefused, HasOsLock, HasTakenOsLock
<1>22. ASSUME NEW t \in Threads, UnlinkStat(t) PROVE Arbitrated'
  BY <1>22 DEF UnlinkStat, Goto, Unlinked, Leave, TypeOK, Descriptors, HasFile, Arbitrated, UnlinkMayBeRefused, HasOsLock, HasTakenOsLock
<1>23. ASSUME NEW t \in Threads, Unlink(t) PROVE Arbitrated'
  BY <1>23 DEF Unlink, Goto, Unlinked, Leave, Wiped, OpenElsewhere, TypeOK, Descriptors, HasFile, Arbitrated, UnlinkMayBeRefused, HasOsLock, HasTakenOsLock, OpenElsewhere
<1>24. ASSUME NEW p \in Procs, Crash(p) PROVE Arbitrated'
  BY <1>24 DEF Crash, LocksWithout, ThreadsOf, TypeOK, Descriptors, HasFile, Arbitrated, UnlinkMayBeRefused, HasOsLock, HasTakenOsLock
<1>25. ASSUME NEW p \in Procs, Restart(p) PROVE Arbitrated'
  BY <1>25 DEF Restart, TypeOK, Descriptors, HasFile, Arbitrated, UnlinkMayBeRefused, HasOsLock, HasTakenOsLock
<1>26. CASE Age
  BY <1>26 DEF Age, TypeOK, Descriptors, HasFile, Arbitrated, UnlinkMayBeRefused, HasOsLock, HasTakenOsLock
<1>27. CASE UNCHANGED vars
  BY <1>27 DEF vars, TypeOK, Descriptors, HasFile, Arbitrated, UnlinkMayBeRefused, HasOsLock, HasTakenOsLock
<1>28. QED
  BY <1>1, <1>2, <1>3, <1>4, <1>5, <1>6, <1>7, <1>8, <1>9, <1>10, <1>11,
     <1>12, <1>13, <1>14, <1>15, <1>16, <1>17, <1>18, <1>19, <1>20, <1>21,
     <1>22, <1>23, <1>24, <1>25, <1>26, <1>27 DEF Next, Step, Acquiring,
     Releasing, Undoing

\* Every step keeps the one owner of the lockfile while nobody has died.
LEMMA OwnedStep ==
    ASSUME TypeOK, Descriptors, Owned, [Next]_vars
    PROVE  Owned'
<1> USE LockAssumption
<1>1. ASSUME NEW t \in Threads, Enter(t) PROVE Owned'
  BY <1>1 DEF Enter, Goto, TypeOK, Descriptors, HasFile, Owned, Owner, NamesOwner, Judging, UnlinkMayBeRefused, IdentityReuse, HasOsLock
<1>2. ASSUME NEW t \in Threads, Create(t) PROVE Owned'
  BY <1>2 DEF Create, Goto, FreshIdentities, TypeOK, Descriptors, HasFile, Owned, Owner, NamesOwner, Judging, UnlinkMayBeRefused, IdentityReuse, HasOsLock
<1>3. ASSUME NEW t \in Threads, CreateExists(t) PROVE Owned'
  BY <1>3 DEF CreateExists, Goto, TypeOK, Descriptors, HasFile, Owned, Owner, NamesOwner, Judging, UnlinkMayBeRefused, IdentityReuse, HasOsLock
<1>4. ASSUME NEW t \in Threads, WriteClaim(t) PROVE Owned'
  BY <1>4 DEF WriteClaim, Goto, Written, TypeOK, Descriptors, HasFile, Owned, Owner, NamesOwner, Judging, UnlinkMayBeRefused, IdentityReuse, HasOsLock
<1>5. ASSUME NEW t \in Threads, WriteClaimFails(t) PROVE Owned'
  BY <1>5 DEF WriteClaimFails, Goto, Discard, TypeOK, Descriptors, HasFile, Owned, Owner, NamesOwner, Judging, UnlinkMayBeRefused, IdentityReuse, HasOsLock
<1>6. ASSUME NEW t \in Threads, TakeOsLock(t) PROVE Owned'
  BY <1>6 DEF TakeOsLock, Goto, TypeOK, Descriptors, HasFile, Owned, Owner, NamesOwner, Judging, UnlinkMayBeRefused, IdentityReuse, HasOsLock
<1>7. ASSUME NEW t \in Threads, OsLockRefused(t) PROVE Owned'
  BY <1>7 DEF OsLockRefused, Goto, Discard, TypeOK, Descriptors, HasFile, Owned, Owner, NamesOwner, Judging, UnlinkMayBeRefused, IdentityReuse, HasOsLock
<1>8. ASSUME NEW t \in Threads, GiveUp(t) PROVE Owned'
  BY <1>8 DEF GiveUp, Leave, Goto, TypeOK, Descriptors, HasFile, Owned, Owner, NamesOwner, Judging, UnlinkMayBeRefused, IdentityReuse, HasOsLock
<1>9. ASSUME NEW t \in Threads, Stat(t) PROVE Owned'
  BY <1>9 DEF Stat, Goto, BackToPoll, TypeOK, Descriptors, HasFile, Owned, Owner, NamesOwner, Judging, UnlinkMayBeRefused, IdentityReuse, HasOsLock
<1>10. ASSUME NEW t \in Threads, Open(t) PROVE Owned'
  BY <1>10 DEF Open, Goto, BackToPoll, TypeOK, Descriptors, HasFile, Owned, Owner, NamesOwner, Judging, UnlinkMayBeRefused, IdentityReuse, HasOsLock
<1>11. ASSUME NEW t \in Threads, Read(t) PROVE Owned'
  BY <1>11 DEF Read, Goto, BackToPoll, TypeOK, Descriptors, HasFile, Owned, Owner, NamesOwner, Judging, UnlinkMayBeRefused, IdentityReuse, HasOsLock, Stale
<1>12. ASSUME NEW t \in Threads, BreakOpen(t) PROVE Owned'
  BY <1>12 DEF BreakOpen, Goto, BackToPoll, TypeOK, Descriptors, HasFile, Owned, Owner, NamesOwner, Judging, UnlinkMayBeRefused, IdentityReuse, HasOsLock
<1>13. ASSUME NEW t \in Threads, BreakLock(t) PROVE Owned'
  BY <1>13 DEF BreakLock, Goto, BackToPoll, Close, LocksWithout, TypeOK, Descriptors, HasFile, Owned, Owner, NamesOwner, Judging, UnlinkMayBeRefused, IdentityReuse, HasOsLock
<1>14. ASSUME NEW t \in Threads, BreakByUnlink(t) PROVE Owned'
  BY <1>14 DEF BreakByUnlink, Goto, Close, LocksWithout, TypeOK, Descriptors, HasFile, Owned, Owner, NamesOwner, Judging, UnlinkMayBeRefused, IdentityReuse, HasOsLock
<1>15. ASSUME NEW t \in Threads, CorpseIsGone(t) PROVE Owned'
  BY <1>15 DEF CorpseIsGone, Goto, TypeOK, Descriptors, HasFile, Owned, Owner, NamesOwner, Judging, UnlinkMayBeRefused, IdentityReuse, HasOsLock
<1>16. ASSUME NEW t \in Threads, Confirm(t) PROVE Owned'
  BY <1>16 DEF Confirm, Goto, BackToPoll, Close, LocksWithout, TypeOK, Descriptors, HasFile, Owned, Owner, NamesOwner, Judging, UnlinkMayBeRefused, IdentityReuse, HasOsLock
<1>17. ASSUME NEW t \in Threads, Truncate(t) PROVE Owned'
  BY <1>17 DEF Truncate, Goto, TypeOK, Descriptors, HasFile, Owned, Owner, NamesOwner, Judging, UnlinkMayBeRefused, IdentityReuse, HasOsLock
<1>18. ASSUME NEW t \in Threads, Adopt(t) PROVE Owned'
  BY <1>18 DEF Adopt, Goto, Written, TypeOK, Descriptors, HasFile, Owned, Owner, NamesOwner, Judging, UnlinkMayBeRefused, IdentityReuse, HasOsLock
<1>19. ASSUME NEW t \in Threads, RewriteFails(t) PROVE Owned'
  BY <1>19 DEF RewriteFails, Goto, Leave, Close, LocksWithout, TypeOK, Descriptors, HasFile, Owned, Owner, NamesOwner, Judging, UnlinkMayBeRefused, IdentityReuse, HasOsLock
<1>20. ASSUME NEW t \in Threads, MarkReleased(t) PROVE Owned'
  BY <1>20 DEF MarkReleased, Goto, TypeOK, Descriptors, HasFile, Owned, Owner, NamesOwner, Judging, UnlinkMayBeRefused, IdentityReuse, HasOsLock
<1>21. ASSUME NEW t \in Threads, Unlock(t) PROVE Owned'
  BY <1>21 DEF Unlock, Goto, Close, LocksWithout, TypeOK, Descriptors, HasFile, Owned, Owner, NamesOwner, Judging, UnlinkMayBeRefused, IdentityReuse, HasOsLock
<1>22. ASSUME NEW t \in Threads, UnlinkStat(t) PROVE Owned'
  BY <1>22 DEF UnlinkStat, Goto, Unlinked, Leave, TypeOK, Descriptors, HasFile, Owned, Owner, NamesOwner, Judging, UnlinkMayBeRefused, IdentityReuse, HasOsLock
<1>23. ASSUME NEW t \in Threads, Unlink(t) PROVE Owned'
  BY <1>23 DEF Unlink, Goto, Unlinked, Leave, Wiped, OpenElsewhere, TypeOK, Descriptors, HasFile, Owned, Owner, NamesOwner, Judging, UnlinkMayBeRefused, IdentityReuse, HasOsLock
<1>24. ASSUME NEW p \in Procs, Crash(p) PROVE Owned'
  BY <1>24 DEF Crash, LocksWithout, ThreadsOf, TypeOK, Descriptors, HasFile, Owned, Owner, NamesOwner, Judging, UnlinkMayBeRefused, IdentityReuse, HasOsLock
<1>25. ASSUME NEW p \in Procs, Restart(p) PROVE Owned'
  BY <1>25 DEF Restart, TypeOK, Descriptors, HasFile, Owned, Owner, NamesOwner, Judging, UnlinkMayBeRefused, IdentityReuse, HasOsLock
<1>26. CASE Age
  BY <1>26 DEF Age, TypeOK, Descriptors, HasFile, Owned, Owner, NamesOwner, Judging, UnlinkMayBeRefused, IdentityReuse, HasOsLock, MidHandshake
<1>27. CASE UNCHANGED vars
  BY <1>27 DEF vars, TypeOK, Descriptors, HasFile, Owned, Owner, NamesOwner, Judging, UnlinkMayBeRefused, IdentityReuse, HasOsLock
<1>28. QED
  BY <1>1, <1>2, <1>3, <1>4, <1>5, <1>6, <1>7, <1>8, <1>9, <1>10, <1>11,
     <1>12, <1>13, <1>14, <1>15, <1>16, <1>17, <1>18, <1>19, <1>20, <1>21,
     <1>22, <1>23, <1>24, <1>25, <1>26, <1>27 DEF Next, Step, Acquiring,
     Releasing, Undoing

-----------------------------------------------------------------------------
\* Everything the invariant needs holds in every reachable state.
LEMMA Inductive == Spec => []IInv
<1>1. Init => IInv
  BY LockAssumption DEF Init, IInv, TypeOK, PCs, Descriptors, HasFile, Arbitrated,
     HasTakenOsLock, Owned, Owner, NamesOwner, Judging
<1>2. IInv /\ [Next]_vars => IInv'
  BY TypeStep, DescriptorsStep, ArbitratedStep, OwnedStep DEF IInv
<1>3. QED
  BY <1>1, <1>2, PTL DEF Spec

\* The state of the lock, its files and its threads is always well formed.
THEOREM TypeCorrectness == Spec => []TypeOK
<1>1. IInv => TypeOK
  BY DEF IInv
<1>2. QED
  BY <1>1, Inductive, PTL

\* A thread in the section still has the file it claimed at lock_path, with the
\* OS lock, on Windows always and elsewhere until a process dies.
THEOREM ClaimIsKept == Spec => []HolderKeepsClaim
<1>1. IInv => HolderKeepsClaim
  <2> SUFFICES ASSUME IInv, Sound, NEW t \in Threads, InSection(t)
               PROVE  path = fd[t] /\ (HasOsLock => osLock[fd[t]] = t)
    BY DEF HolderKeepsClaim
  <2> USE DEF IInv, InSection
  <2>1. CASE UnlinkMayBeRefused
    BY <2>1 DEF Descriptors, HasFile, Arbitrated, HasTakenOsLock
  <2>2. CASE ~UnlinkMayBeRefused
    <3>1. platform \in {"posix", "nolock"} /\ ~crashed
      BY <2>2, LockAssumption DEF TypeOK, AllPlatforms, Sound, UnlinkMayBeRefused
    <3>2. pc[t] = "held" /\ Owner(t)
      BY <3>1 DEF Owned, Owner
    <3>3. QED
      BY <3>1, <3>2 DEF Owned
  <2>3. QED
    BY <2>1, <2>2
<1>2. QED
  BY <1>1, Inductive, PTL

\* Mutual exclusion: for any number of threads and processes and any failures,
\* on Windows; for any interleaving without a crash, elsewhere.
THEOREM Exclusion == Spec => []ExclusionUnlessCrashed
<1>1. IInv => ExclusionUnlessCrashed
  <2> SUFFICES ASSUME IInv, Sound,
                      NEW t \in Threads, NEW u \in Threads,
                      InSection(t), InSection(u)
               PROVE  t = u
    BY DEF ExclusionUnlessCrashed, AtMostOne
  <2> USE DEF IInv, InSection
  <2>1. CASE UnlinkMayBeRefused
    \* Both have the file at lock_path open and hold its one OS lock.
    BY <2>1 DEF Descriptors, HasFile, Arbitrated, HasTakenOsLock
  <2>2. CASE ~UnlinkMayBeRefused
    \* Both own the lockfile, and it has one owner.
    <3>1. platform \in {"posix", "nolock"} /\ ~crashed
      BY <2>2, LockAssumption DEF TypeOK, AllPlatforms, Sound, UnlinkMayBeRefused
    <3>2. Owner(t) /\ Owner(u)
      BY <3>1 DEF Owned, Owner
    <3>3. QED
      BY <3>1, <3>2 DEF Owned
  <2>3. QED
    BY <2>1, <2>2
<1>2. QED
  BY <1>1, Inductive, PTL

-----------------------------------------------------------------------------
(* Who has which file open while it is created, and whom a lockfile names.  *)

\* Only the living run, and an OS lock belongs to a thread that took it and
\* still has the file open.
Living ==
    /\ \A t \in Threads : pc[t] # "idle" => Alive(t)
    /\ \A i \in Inodes : osLock[i] # None =>
         fd[osLock[i]] = i /\ pc[osLock[i]] \in HasTakenOsLock

\* The thread is between its create and its own attempt at the OS lock.
Creating(t) == pc[t] \in {"write", "lock"}

\* Where identities are not reused, whoever judges a file that is being
\* created reads it and finds it neither old and empty nor of a dead process;
\* a judgement of another file leads to no file that lock_path names now.
Fresh ==
    ~IdentityReuse =>
        /\ \A t \in Threads : Creating(t) =>
             /\ \A u \in Threads \ {t} : fd[u] = fd[t] => pc[u] = "read"
             /\ \A u \in Threads :
                  pc[u] = "break" /\ identity[u] = fd[t] => path # fd[t]
             /\ pc[t] = "lock" => text[fd[t]] = ProcOf[t]
             /\ pc[t] = "write" =>
                  /\ text[fd[t]] = Empty
                  /\ fd[t] \notin aged
                  /\ \A u \in Threads :
                       pc[u] \in {"open", "read"} /\ identity[u] = fd[t] => u \notin old
        /\ \A u \in Threads :
             pc[u] = "read" /\ fd[u] # identity[u] => path # identity[u]

\* A pid that comes back would be named by a file of its dead bearer; and where
\* an unlink may be refused, a refused OS lock after the pid is written, be it
\* from a hard error or from a breaker that a reused identity misled, leaves a
\* file that names a process which has given up.
NamesAreKept ==
    /\ ~PidReuse
    /\ "ntfs" \notin Platforms
    /\ Faults => "windows" \notin Platforms

\* The thread put its pid into the lockfile and has not undone that.
Signed(t) ==
    /\ text[path] = ProcOf[t]
    /\ \/ pc[t] \in {"lock", "held"} /\ fd[t] = path
       \/ ~UnlinkMayBeRefused /\ pc[t] \in {"ustat", "unlink"} /\ identity[t] = path

NamesSigner ==
    path # None /\ text[path] \in Procs \ dead => \E t \in Threads : Signed(t)

\* Every step keeps that only the living run and hold OS locks.
LEMMA LivingStep ==
    ASSUME TypeOK, Descriptors, Living, [Next]_vars
    PROVE  Living'
<1> USE LockAssumption
<1>1. ASSUME NEW t \in Threads, Enter(t) PROVE Living'
  BY <1>1 DEF Enter, Goto, TypeOK, Descriptors, HasFile, Living, Alive, HasTakenOsLock
<1>2. ASSUME NEW t \in Threads, Create(t) PROVE Living'
  BY <1>2 DEF Create, Goto, FreshIdentities, TypeOK, Descriptors, HasFile, Living, Alive, HasTakenOsLock
<1>3. ASSUME NEW t \in Threads, CreateExists(t) PROVE Living'
  BY <1>3 DEF CreateExists, Goto, TypeOK, Descriptors, HasFile, Living, Alive, HasTakenOsLock
<1>4. ASSUME NEW t \in Threads, WriteClaim(t) PROVE Living'
  BY <1>4 DEF WriteClaim, Goto, Written, TypeOK, Descriptors, HasFile, Living, Alive, HasTakenOsLock
<1>5. ASSUME NEW t \in Threads, WriteClaimFails(t) PROVE Living'
  BY <1>5 DEF WriteClaimFails, Goto, Discard, TypeOK, Descriptors, HasFile, Living, Alive, HasTakenOsLock
<1>6. ASSUME NEW t \in Threads, TakeOsLock(t) PROVE Living'
  BY <1>6 DEF TakeOsLock, Goto, TypeOK, Descriptors, HasFile, Living, Alive, HasTakenOsLock
<1>7. ASSUME NEW t \in Threads, OsLockRefused(t) PROVE Living'
  BY <1>7 DEF OsLockRefused, Goto, Discard, TypeOK, Descriptors, HasFile, Living, Alive, HasTakenOsLock
<1>8. ASSUME NEW t \in Threads, GiveUp(t) PROVE Living'
  BY <1>8 DEF GiveUp, Leave, Goto, TypeOK, Descriptors, HasFile, Living, Alive, HasTakenOsLock
<1>9. ASSUME NEW t \in Threads, Stat(t) PROVE Living'
  BY <1>9 DEF Stat, Goto, BackToPoll, TypeOK, Descriptors, HasFile, Living, Alive, HasTakenOsLock
<1>10. ASSUME NEW t \in Threads, Open(t) PROVE Living'
  BY <1>10 DEF Open, Goto, BackToPoll, TypeOK, Descriptors, HasFile, Living, Alive, HasTakenOsLock
<1>11. ASSUME NEW t \in Threads, Read(t) PROVE Living'
  BY <1>11 DEF Read, Goto, BackToPoll, TypeOK, Descriptors, HasFile, Living, Alive, HasTakenOsLock
<1>12. ASSUME NEW t \in Threads, BreakOpen(t) PROVE Living'
  BY <1>12 DEF BreakOpen, Goto, BackToPoll, TypeOK, Descriptors, HasFile, Living, Alive, HasTakenOsLock
<1>13. ASSUME NEW t \in Threads, BreakLock(t) PROVE Living'
  BY <1>13 DEF BreakLock, Goto, BackToPoll, Close, LocksWithout, TypeOK, Descriptors, HasFile, Living, Alive, HasTakenOsLock
<1>14. ASSUME NEW t \in Threads, BreakByUnlink(t) PROVE Living'
  BY <1>14 DEF BreakByUnlink, Goto, Close, LocksWithout, TypeOK, Descriptors, HasFile, Living, Alive, HasTakenOsLock
<1>15. ASSUME NEW t \in Threads, CorpseIsGone(t) PROVE Living'
  BY <1>15 DEF CorpseIsGone, Goto, TypeOK, Descriptors, HasFile, Living, Alive, HasTakenOsLock
<1>16. ASSUME NEW t \in Threads, Confirm(t) PROVE Living'
  BY <1>16 DEF Confirm, Goto, BackToPoll, Close, LocksWithout, TypeOK, Descriptors, HasFile, Living, Alive, HasTakenOsLock
<1>17. ASSUME NEW t \in Threads, Truncate(t) PROVE Living'
  BY <1>17 DEF Truncate, Goto, TypeOK, Descriptors, HasFile, Living, Alive, HasTakenOsLock
<1>18. ASSUME NEW t \in Threads, Adopt(t) PROVE Living'
  BY <1>18 DEF Adopt, Goto, Written, TypeOK, Descriptors, HasFile, Living, Alive, HasTakenOsLock
<1>19. ASSUME NEW t \in Threads, RewriteFails(t) PROVE Living'
  BY <1>19 DEF RewriteFails, Goto, Leave, Close, LocksWithout, TypeOK, Descriptors, HasFile, Living, Alive, HasTakenOsLock
<1>20. ASSUME NEW t \in Threads, MarkReleased(t) PROVE Living'
  BY <1>20 DEF MarkReleased, Goto, TypeOK, Descriptors, HasFile, Living, Alive, HasTakenOsLock
<1>21. ASSUME NEW t \in Threads, Unlock(t) PROVE Living'
  BY <1>21 DEF Unlock, Goto, Close, LocksWithout, TypeOK, Descriptors, HasFile, Living, Alive, HasTakenOsLock
<1>22. ASSUME NEW t \in Threads, UnlinkStat(t) PROVE Living'
  BY <1>22 DEF UnlinkStat, Goto, Unlinked, Leave, TypeOK, Descriptors, HasFile, Living, Alive, HasTakenOsLock
<1>23. ASSUME NEW t \in Threads, Unlink(t) PROVE Living'
  BY <1>23 DEF Unlink, Goto, Unlinked, Leave, Wiped, OpenElsewhere, TypeOK, Descriptors, HasFile, Living, Alive, HasTakenOsLock
<1>24. ASSUME NEW p \in Procs, Crash(p) PROVE Living'
  BY <1>24 DEF Crash, LocksWithout, ThreadsOf, TypeOK, Descriptors, HasFile, Living, Alive, HasTakenOsLock
<1>25. ASSUME NEW p \in Procs, Restart(p) PROVE Living'
  BY <1>25 DEF Restart, TypeOK, Descriptors, HasFile, Living, Alive, HasTakenOsLock
<1>26. CASE Age
  BY <1>26 DEF Age, TypeOK, Descriptors, HasFile, Living, Alive, HasTakenOsLock
<1>27. CASE UNCHANGED vars
  BY <1>27 DEF vars, TypeOK, Descriptors, HasFile, Living, Alive, HasTakenOsLock
<1>28. QED
  BY <1>1, <1>2, <1>3, <1>4, <1>5, <1>6, <1>7, <1>8, <1>9, <1>10, <1>11,
     <1>12, <1>13, <1>14, <1>15, <1>16, <1>17, <1>18, <1>19, <1>20, <1>21,
     <1>22, <1>23, <1>24, <1>25, <1>26, <1>27 DEF Next, Step, Acquiring,
     Releasing, Undoing

\* Every step keeps that nobody breaks a file that is being created.
LEMMA FreshStep ==
    ASSUME TypeOK, Descriptors, Living, Fresh, [Next]_vars
    PROVE  Fresh'
<1> USE LockAssumption
<1>1. ASSUME NEW t \in Threads, Enter(t) PROVE Fresh'
  BY <1>1 DEF Enter, Goto, TypeOK, Descriptors, HasFile, Living, Alive, HasTakenOsLock, Fresh, Creating, IdentityReuse, UnlinkMayBeRefused
<1>2. ASSUME NEW t \in Threads, Create(t) PROVE Fresh'
  BY <1>2 DEF Create, Goto, FreshIdentities, TypeOK, Descriptors, HasFile, Living, Alive, HasTakenOsLock, Fresh, Creating, IdentityReuse, UnlinkMayBeRefused
<1>3. ASSUME NEW t \in Threads, CreateExists(t) PROVE Fresh'
  BY <1>3 DEF CreateExists, Goto, TypeOK, Descriptors, HasFile, Living, Alive, HasTakenOsLock, Fresh, Creating, IdentityReuse, UnlinkMayBeRefused
<1>4. ASSUME NEW t \in Threads, WriteClaim(t) PROVE Fresh'
  BY <1>4 DEF WriteClaim, Goto, Written, TypeOK, Descriptors, HasFile, Living, Alive, HasTakenOsLock, Fresh, Creating, IdentityReuse, UnlinkMayBeRefused
<1>5. ASSUME NEW t \in Threads, WriteClaimFails(t) PROVE Fresh'
  BY <1>5 DEF WriteClaimFails, Goto, Discard, TypeOK, Descriptors, HasFile, Living, Alive, HasTakenOsLock, Fresh, Creating, IdentityReuse, UnlinkMayBeRefused
<1>6. ASSUME NEW t \in Threads, TakeOsLock(t) PROVE Fresh'
  BY <1>6 DEF TakeOsLock, Goto, TypeOK, Descriptors, HasFile, Living, Alive, HasTakenOsLock, Fresh, Creating, IdentityReuse, UnlinkMayBeRefused
<1>7. ASSUME NEW t \in Threads, OsLockRefused(t) PROVE Fresh'
  BY <1>7 DEF OsLockRefused, Goto, Discard, TypeOK, Descriptors, HasFile, Living, Alive, HasTakenOsLock, Fresh, Creating, IdentityReuse, UnlinkMayBeRefused
<1>8. ASSUME NEW t \in Threads, GiveUp(t) PROVE Fresh'
  BY <1>8 DEF GiveUp, Leave, Goto, TypeOK, Descriptors, HasFile, Living, Alive, HasTakenOsLock, Fresh, Creating, IdentityReuse, UnlinkMayBeRefused
<1>9. ASSUME NEW t \in Threads, Stat(t) PROVE Fresh'
  BY <1>9 DEF Stat, Goto, BackToPoll, TypeOK, Descriptors, HasFile, Living, Alive, HasTakenOsLock, Fresh, Creating, IdentityReuse, UnlinkMayBeRefused
<1>10. ASSUME NEW t \in Threads, Open(t) PROVE Fresh'
  BY <1>10 DEF Open, Goto, BackToPoll, TypeOK, Descriptors, HasFile, Living, Alive, HasTakenOsLock, Fresh, Creating, IdentityReuse, UnlinkMayBeRefused
<1>11. ASSUME NEW t \in Threads, Read(t) PROVE Fresh'
  BY <1>11 DEF Read, Stale, Goto, BackToPoll, TypeOK, Descriptors, HasFile, Living, Alive, HasTakenOsLock, Fresh, Creating, IdentityReuse, UnlinkMayBeRefused
<1>12. ASSUME NEW t \in Threads, BreakOpen(t) PROVE Fresh'
  BY <1>12 DEF BreakOpen, Goto, BackToPoll, TypeOK, Descriptors, HasFile, Living, Alive, HasTakenOsLock, Fresh, Creating, IdentityReuse, UnlinkMayBeRefused
<1>13. ASSUME NEW t \in Threads, BreakLock(t) PROVE Fresh'
  BY <1>13 DEF BreakLock, Goto, BackToPoll, Close, LocksWithout, TypeOK, Descriptors, HasFile, Living, Alive, HasTakenOsLock, Fresh, Creating, IdentityReuse, UnlinkMayBeRefused
<1>14. ASSUME NEW t \in Threads, BreakByUnlink(t) PROVE Fresh'
  BY <1>14 DEF BreakByUnlink, Goto, Close, LocksWithout, TypeOK, Descriptors, HasFile, Living, Alive, HasTakenOsLock, Fresh, Creating, IdentityReuse, UnlinkMayBeRefused
<1>15. ASSUME NEW t \in Threads, CorpseIsGone(t) PROVE Fresh'
  BY <1>15 DEF CorpseIsGone, Goto, TypeOK, Descriptors, HasFile, Living, Alive, HasTakenOsLock, Fresh, Creating, IdentityReuse, UnlinkMayBeRefused
<1>16. ASSUME NEW t \in Threads, Confirm(t) PROVE Fresh'
  BY <1>16 DEF Confirm, Goto, BackToPoll, Close, LocksWithout, TypeOK, Descriptors, HasFile, Living, Alive, HasTakenOsLock, Fresh, Creating, IdentityReuse, UnlinkMayBeRefused
<1>17. ASSUME NEW t \in Threads, Truncate(t) PROVE Fresh'
  BY <1>17 DEF Truncate, Goto, TypeOK, Descriptors, HasFile, Living, Alive, HasTakenOsLock, Fresh, Creating, IdentityReuse, UnlinkMayBeRefused
<1>18. ASSUME NEW t \in Threads, Adopt(t) PROVE Fresh'
  BY <1>18 DEF Adopt, Goto, Written, TypeOK, Descriptors, HasFile, Living, Alive, HasTakenOsLock, Fresh, Creating, IdentityReuse, UnlinkMayBeRefused
<1>19. ASSUME NEW t \in Threads, RewriteFails(t) PROVE Fresh'
  BY <1>19 DEF RewriteFails, Goto, Leave, Close, LocksWithout, TypeOK, Descriptors, HasFile, Living, Alive, HasTakenOsLock, Fresh, Creating, IdentityReuse, UnlinkMayBeRefused
<1>20. ASSUME NEW t \in Threads, MarkReleased(t) PROVE Fresh'
  BY <1>20 DEF MarkReleased, Goto, TypeOK, Descriptors, HasFile, Living, Alive, HasTakenOsLock, Fresh, Creating, IdentityReuse, UnlinkMayBeRefused
<1>21. ASSUME NEW t \in Threads, Unlock(t) PROVE Fresh'
  BY <1>21 DEF Unlock, Goto, Close, LocksWithout, TypeOK, Descriptors, HasFile, Living, Alive, HasTakenOsLock, Fresh, Creating, IdentityReuse, UnlinkMayBeRefused
<1>22. ASSUME NEW t \in Threads, UnlinkStat(t) PROVE Fresh'
  BY <1>22 DEF UnlinkStat, Goto, Unlinked, Leave, TypeOK, Descriptors, HasFile, Living, Alive, HasTakenOsLock, Fresh, Creating, IdentityReuse, UnlinkMayBeRefused
<1>23. ASSUME NEW t \in Threads, Unlink(t) PROVE Fresh'
  BY <1>23 DEF Unlink, Goto, Unlinked, Leave, Wiped, OpenElsewhere, TypeOK, Descriptors, HasFile, Living, Alive, HasTakenOsLock, Fresh, Creating, IdentityReuse, UnlinkMayBeRefused
<1>24. ASSUME NEW p \in Procs, Crash(p) PROVE Fresh'
  BY <1>24 DEF Crash, LocksWithout, ThreadsOf, TypeOK, Descriptors, HasFile, Living, Alive, HasTakenOsLock, Fresh, Creating, IdentityReuse, UnlinkMayBeRefused
<1>25. ASSUME NEW p \in Procs, Restart(p) PROVE Fresh'
  BY <1>25 DEF Restart, TypeOK, Descriptors, HasFile, Living, Alive, HasTakenOsLock, Fresh, Creating, IdentityReuse, UnlinkMayBeRefused
<1>26. CASE Age
  BY <1>26 DEF Age, MidHandshake, TypeOK, Descriptors, HasFile, Living, Alive, HasTakenOsLock, Fresh, Creating, IdentityReuse, UnlinkMayBeRefused
<1>27. CASE UNCHANGED vars
  BY <1>27 DEF vars, TypeOK, Descriptors, HasFile, Living, Alive, HasTakenOsLock, Fresh, Creating, IdentityReuse, UnlinkMayBeRefused
<1>28. QED
  BY <1>1, <1>2, <1>3, <1>4, <1>5, <1>6, <1>7, <1>8, <1>9, <1>10, <1>11,
     <1>12, <1>13, <1>14, <1>15, <1>16, <1>17, <1>18, <1>19, <1>20, <1>21,
     <1>22, <1>23, <1>24, <1>25, <1>26, <1>27 DEF Next, Step, Acquiring,
     Releasing, Undoing

\* Every step keeps that a lockfile naming a live process is signed by it.
LEMMA NamesSignerStep ==
    ASSUME NamesAreKept, TypeOK, Descriptors, Living, Fresh, NamesSigner, [Next]_vars
    PROVE  NamesSigner'
<1> USE LockAssumption
<1>1. ASSUME NEW t \in Threads, Enter(t) PROVE NamesSigner'
  BY <1>1 DEF Enter, Goto, TypeOK, Descriptors, HasFile, Living, Alive, HasTakenOsLock, Fresh, Creating, IdentityReuse, UnlinkMayBeRefused, HasOsLock, NamesAreKept, NamesSigner, Signed
<1>2. ASSUME NEW t \in Threads, Create(t) PROVE NamesSigner'
  BY <1>2 DEF Create, Goto, FreshIdentities, TypeOK, Descriptors, HasFile, Living, Alive, HasTakenOsLock, Fresh, Creating, IdentityReuse, UnlinkMayBeRefused, HasOsLock, NamesAreKept, NamesSigner, Signed
<1>3. ASSUME NEW t \in Threads, CreateExists(t) PROVE NamesSigner'
  BY <1>3 DEF CreateExists, Goto, TypeOK, Descriptors, HasFile, Living, Alive, HasTakenOsLock, Fresh, Creating, IdentityReuse, UnlinkMayBeRefused, HasOsLock, NamesAreKept, NamesSigner, Signed
<1>4. ASSUME NEW t \in Threads, WriteClaim(t) PROVE NamesSigner'
  BY <1>4 DEF WriteClaim, Goto, Written, TypeOK, Descriptors, HasFile, Living, Alive, HasTakenOsLock, Fresh, Creating, IdentityReuse, UnlinkMayBeRefused, HasOsLock, NamesAreKept, NamesSigner, Signed
<1>5. ASSUME NEW t \in Threads, WriteClaimFails(t) PROVE NamesSigner'
  BY <1>5 DEF WriteClaimFails, Goto, Discard, TypeOK, Descriptors, HasFile, Living, Alive, HasTakenOsLock, Fresh, Creating, IdentityReuse, UnlinkMayBeRefused, HasOsLock, NamesAreKept, NamesSigner, Signed
<1>6. ASSUME NEW t \in Threads, TakeOsLock(t) PROVE NamesSigner'
  BY <1>6 DEF TakeOsLock, Goto, TypeOK, Descriptors, HasFile, Living, Alive, HasTakenOsLock, Fresh, Creating, IdentityReuse, UnlinkMayBeRefused, HasOsLock, NamesAreKept, NamesSigner, Signed
<1>7. ASSUME NEW t \in Threads, OsLockRefused(t) PROVE NamesSigner'
  BY <1>7 DEF OsLockRefused, Goto, Discard, TypeOK, Descriptors, HasFile, Living, Alive, HasTakenOsLock, Fresh, Creating, IdentityReuse, UnlinkMayBeRefused, HasOsLock, NamesAreKept, NamesSigner, Signed
<1>8. ASSUME NEW t \in Threads, GiveUp(t) PROVE NamesSigner'
  BY <1>8 DEF GiveUp, Leave, Goto, TypeOK, Descriptors, HasFile, Living, Alive, HasTakenOsLock, Fresh, Creating, IdentityReuse, UnlinkMayBeRefused, HasOsLock, NamesAreKept, NamesSigner, Signed
<1>9. ASSUME NEW t \in Threads, Stat(t) PROVE NamesSigner'
  BY <1>9 DEF Stat, Goto, BackToPoll, TypeOK, Descriptors, HasFile, Living, Alive, HasTakenOsLock, Fresh, Creating, IdentityReuse, UnlinkMayBeRefused, HasOsLock, NamesAreKept, NamesSigner, Signed
<1>10. ASSUME NEW t \in Threads, Open(t) PROVE NamesSigner'
  BY <1>10 DEF Open, Goto, BackToPoll, TypeOK, Descriptors, HasFile, Living, Alive, HasTakenOsLock, Fresh, Creating, IdentityReuse, UnlinkMayBeRefused, HasOsLock, NamesAreKept, NamesSigner, Signed
<1>11. ASSUME NEW t \in Threads, Read(t) PROVE NamesSigner'
  BY <1>11 DEF Read, Stale, Goto, BackToPoll, TypeOK, Descriptors, HasFile, Living, Alive, HasTakenOsLock, Fresh, Creating, IdentityReuse, UnlinkMayBeRefused, HasOsLock, NamesAreKept, NamesSigner, Signed
<1>12. ASSUME NEW t \in Threads, BreakOpen(t) PROVE NamesSigner'
  BY <1>12 DEF BreakOpen, Goto, BackToPoll, TypeOK, Descriptors, HasFile, Living, Alive, HasTakenOsLock, Fresh, Creating, IdentityReuse, UnlinkMayBeRefused, HasOsLock, NamesAreKept, NamesSigner, Signed
<1>13. ASSUME NEW t \in Threads, BreakLock(t) PROVE NamesSigner'
  BY <1>13 DEF BreakLock, Goto, BackToPoll, Close, LocksWithout, TypeOK, Descriptors, HasFile, Living, Alive, HasTakenOsLock, Fresh, Creating, IdentityReuse, UnlinkMayBeRefused, HasOsLock, NamesAreKept, NamesSigner, Signed
<1>14. ASSUME NEW t \in Threads, BreakByUnlink(t) PROVE NamesSigner'
  BY <1>14 DEF BreakByUnlink, Goto, Close, LocksWithout, TypeOK, Descriptors, HasFile, Living, Alive, HasTakenOsLock, Fresh, Creating, IdentityReuse, UnlinkMayBeRefused, HasOsLock, NamesAreKept, NamesSigner, Signed
<1>15. ASSUME NEW t \in Threads, CorpseIsGone(t) PROVE NamesSigner'
  BY <1>15 DEF CorpseIsGone, Goto, TypeOK, Descriptors, HasFile, Living, Alive, HasTakenOsLock, Fresh, Creating, IdentityReuse, UnlinkMayBeRefused, HasOsLock, NamesAreKept, NamesSigner, Signed
<1>16. ASSUME NEW t \in Threads, Confirm(t) PROVE NamesSigner'
  BY <1>16 DEF Confirm, Goto, BackToPoll, Close, LocksWithout, TypeOK, Descriptors, HasFile, Living, Alive, HasTakenOsLock, Fresh, Creating, IdentityReuse, UnlinkMayBeRefused, HasOsLock, NamesAreKept, NamesSigner, Signed
<1>17. ASSUME NEW t \in Threads, Truncate(t) PROVE NamesSigner'
  BY <1>17 DEF Truncate, Goto, TypeOK, Descriptors, HasFile, Living, Alive, HasTakenOsLock, Fresh, Creating, IdentityReuse, UnlinkMayBeRefused, HasOsLock, NamesAreKept, NamesSigner, Signed
<1>18. ASSUME NEW t \in Threads, Adopt(t) PROVE NamesSigner'
  BY <1>18 DEF Adopt, Goto, Written, TypeOK, Descriptors, HasFile, Living, Alive, HasTakenOsLock, Fresh, Creating, IdentityReuse, UnlinkMayBeRefused, HasOsLock, NamesAreKept, NamesSigner, Signed
<1>19. ASSUME NEW t \in Threads, RewriteFails(t) PROVE NamesSigner'
  BY <1>19 DEF RewriteFails, Goto, Leave, Close, LocksWithout, TypeOK, Descriptors, HasFile, Living, Alive, HasTakenOsLock, Fresh, Creating, IdentityReuse, UnlinkMayBeRefused, HasOsLock, NamesAreKept, NamesSigner, Signed
<1>20. ASSUME NEW t \in Threads, MarkReleased(t) PROVE NamesSigner'
  BY <1>20 DEF MarkReleased, Goto, TypeOK, Descriptors, HasFile, Living, Alive, HasTakenOsLock, Fresh, Creating, IdentityReuse, UnlinkMayBeRefused, HasOsLock, NamesAreKept, NamesSigner, Signed
<1>21. ASSUME NEW t \in Threads, Unlock(t) PROVE NamesSigner'
  BY <1>21 DEF Unlock, Goto, Close, LocksWithout, TypeOK, Descriptors, HasFile, Living, Alive, HasTakenOsLock, Fresh, Creating, IdentityReuse, UnlinkMayBeRefused, HasOsLock, NamesAreKept, NamesSigner, Signed
<1>22. ASSUME NEW t \in Threads, UnlinkStat(t) PROVE NamesSigner'
  BY <1>22 DEF UnlinkStat, Goto, Unlinked, Leave, TypeOK, Descriptors, HasFile, Living, Alive, HasTakenOsLock, Fresh, Creating, IdentityReuse, UnlinkMayBeRefused, HasOsLock, NamesAreKept, NamesSigner, Signed
<1>23. ASSUME NEW t \in Threads, Unlink(t) PROVE NamesSigner'
  BY <1>23 DEF Unlink, Goto, Unlinked, Leave, Wiped, OpenElsewhere, TypeOK, Descriptors, HasFile, Living, Alive, HasTakenOsLock, Fresh, Creating, IdentityReuse, UnlinkMayBeRefused, HasOsLock, NamesAreKept, NamesSigner, Signed
<1>24. ASSUME NEW p \in Procs, Crash(p) PROVE NamesSigner'
  BY <1>24 DEF Crash, LocksWithout, ThreadsOf, TypeOK, Descriptors, HasFile, Living, Alive, HasTakenOsLock, Fresh, Creating, IdentityReuse, UnlinkMayBeRefused, HasOsLock, NamesAreKept, NamesSigner, Signed
<1>25. ASSUME NEW p \in Procs, Restart(p) PROVE NamesSigner'
  BY <1>25 DEF Restart, TypeOK, Descriptors, HasFile, Living, Alive, HasTakenOsLock, Fresh, Creating, IdentityReuse, UnlinkMayBeRefused, HasOsLock, NamesAreKept, NamesSigner, Signed
<1>26. CASE Age
  BY <1>26 DEF Age, MidHandshake, TypeOK, Descriptors, HasFile, Living, Alive, HasTakenOsLock, Fresh, Creating, IdentityReuse, UnlinkMayBeRefused, HasOsLock, NamesAreKept, NamesSigner, Signed
<1>27. CASE UNCHANGED vars
  BY <1>27 DEF vars, TypeOK, Descriptors, HasFile, Living, Alive, HasTakenOsLock, Fresh, Creating, IdentityReuse, UnlinkMayBeRefused, HasOsLock, NamesAreKept, NamesSigner, Signed
<1>28. QED
  BY <1>1, <1>2, <1>3, <1>4, <1>5, <1>6, <1>7, <1>8, <1>9, <1>10, <1>11,
     <1>12, <1>13, <1>14, <1>15, <1>16, <1>17, <1>18, <1>19, <1>20, <1>21,
     <1>22, <1>23, <1>24, <1>25, <1>26, <1>27 DEF Next, Step, Acquiring,
     Releasing, Undoing

\* On POSIX nobody else holds the OS lock of a file that a creator is about to
\* lock, whoever has died.
THEOREM CreatorIsAlone == Spec => []CreatorMeetsNobody
<1>1. Init => Living /\ Fresh
  BY LockAssumption DEF Init, Living, Fresh, Creating
<1>2. IInv /\ Living /\ Fresh /\ [Next]_vars => Living' /\ Fresh'
  BY LivingStep, FreshStep DEF IInv
<1>3. IInv /\ Living /\ Fresh => CreatorMeetsNobody
  <2> SUFFICES ASSUME IInv, Living, Fresh, platform = "posix",
                      NEW t \in Threads, pc[t] = "lock", osLock[fd[t]] # None
               PROVE  FALSE
    BY DEF CreatorMeetsNobody
  <2> DEFINE u == osLock[fd[t]]
  <2>1. fd[t] \in Inodes /\ u \in Threads
    BY DEF IInv, TypeOK, Descriptors, HasFile
  <2>2. fd[u] = fd[t] /\ pc[u] \in HasTakenOsLock
    BY <2>1 DEF Living
  <2>3. u # t /\ pc[u] # "read"
    BY <2>2 DEF HasTakenOsLock
  <2>4. QED
    BY <2>1, <2>2, <2>3 DEF Fresh, Creating, IdentityReuse
<1>4. QED
  BY <1>1, <1>2, <1>3, Inductive, PTL DEF Spec

\* While no pid comes back and no claim is abandoned with its name in the file,
\* a lockfile that names a live process is somebody's claim.
THEOREM NamesAreClaims == ASSUME NamesAreKept PROVE Spec => []NamedOwnerClaims
<1>1. Init => Living /\ Fresh /\ NamesSigner
  BY LockAssumption DEF Init, Living, Fresh, Creating, NamesSigner
<1>2. IInv /\ Living /\ Fresh /\ NamesSigner /\ [Next]_vars
        => Living' /\ Fresh' /\ NamesSigner'
  BY NamesAreKept, LivingStep, FreshStep, NamesSignerStep DEF IInv
<1>3. NamesSigner => NamedOwnerClaims
  BY DEF NamesSigner, Signed, NamedOwnerClaims, Claims
<1>4. QED
  BY <1>1, <1>2, <1>3, Inductive, PTL DEF Spec

-----------------------------------------------------------------------------
(* What a thread has while it acquires, holds or releases, and hands back. *)

HasThreadLock == \A t \in Threads : threadLock[ProcOf[t]] = t <=> pc[t] # "idle"

\* A thread that goes on keeps its process's thread lock.
LEMMA GoesOn ==
    ASSUME TypeOK, HasThreadLock, NEW t \in Threads, NEW l, pc[t] # "idle", l # "idle",
           Goto(t, l), UNCHANGED threadLock
    PROVE  HasThreadLock'
BY DEF TypeOK, HasThreadLock, Goto

\* A thread that leaves hands it back.
LEMMA Leaves ==
    ASSUME TypeOK, HasThreadLock, NEW t \in Threads, pc[t] # "idle", Leave(t)
    PROVE  HasThreadLock'
<1> SUFFICES ASSUME NEW u \in Threads
             PROVE  threadLock'[ProcOf[u]] = u <=> pc'[u] # "idle"
  BY DEF HasThreadLock
<1>1. /\ ProcOf[t] \in Procs /\ ProcOf[u] \in Procs /\ None \notin Threads
      /\ threadLock[ProcOf[t]] = t
  BY LockAssumption DEF HasThreadLock
<1>2. CASE u = t
  BY <1>1, <1>2 DEF TypeOK, Leave, Goto
<1>3. CASE u # t
  BY <1>1, <1>3 DEF TypeOK, HasThreadLock, Leave, Goto
<1> QED
  BY <1>2, <1>3

\* Every step keeps the thread locks.
LEMMA HasThreadLockStep ==
    ASSUME TypeOK, HasThreadLock, [Next]_vars
    PROVE  HasThreadLock'
<1>1. ASSUME NEW t \in Threads, Enter(t) PROVE HasThreadLock'
  BY <1>1, LockAssumption DEF Enter, Goto, TypeOK, HasThreadLock
<1>2. ASSUME NEW t \in Threads, Step(t) PROVE HasThreadLock'
  <2>1. CASE Acquiring(t)
    <3>1. pc[t] # "idle"
      BY <2>1 DEF Acquiring, Create, CreateExists, WriteClaim, WriteClaimFails, TakeOsLock,
         OsLockRefused, GiveUp, Stat, Open, Read, BreakOpen, BreakLock, BreakByUnlink,
         CorpseIsGone, Confirm, Truncate, Adopt, RewriteFails
    <3>2. \/ Leave(t)
          \/ /\ \E l \in PCs \ {"idle"} : Goto(t, l)
             /\ UNCHANGED threadLock
      BY <2>1 DEF Acquiring, Create, CreateExists, WriteClaim, WriteClaimFails, TakeOsLock,
         OsLockRefused, GiveUp, Stat, Open, Read, BreakOpen, BreakLock, BreakByUnlink,
         CorpseIsGone, Confirm, Truncate, Adopt, RewriteFails, Discard, BackToPoll, PCs
    <3> QED
      BY <3>1, <3>2, GoesOn, Leaves
  <2>2. CASE Releasing(t)
    <3>1. /\ pc[t] # "idle" /\ UNCHANGED threadLock
          /\ Goto(t, "marked") \/ Goto(t, "ustat")
      BY <2>2 DEF Releasing, MarkReleased, Unlock
    <3> QED
      BY <3>1, GoesOn
  <2>3. CASE Undoing(t)
    <3>1. /\ pc[t] # "idle" /\ after[t] \in {"poll", "leave", "gone"}
          /\ \/ Leave(t)
             \/ /\ Goto(t, "unlink") \/ (after[t] # "leave" /\ Goto(t, after[t]))
                /\ UNCHANGED threadLock
      BY <2>3 DEF Undoing, UnlinkStat, Unlink, Unlinked, TypeOK
    <3> QED
      BY <3>1, GoesOn, Leaves
  <2> QED
    BY <1>2, <2>1, <2>2, <2>3 DEF Step
<1>3. ASSUME NEW p \in Procs, Crash(p) PROVE HasThreadLock'
  BY <1>3, LockAssumption DEF Crash, TypeOK, HasThreadLock
<1>4. ASSUME \/ \E p \in Procs : Restart(p)
             \/ Age \/ UNCHANGED vars
      PROVE  HasThreadLock'
  BY <1>4 DEF Restart, Age, vars, HasThreadLock
<1> QED
  BY <1>1, <1>2, <1>3, <1>4 DEF Next

\* Whoever acquires, holds or releases has the thread lock of its process, and
\* whoever is through has handed back that lock, the OS lock and the descriptor,
\* for any threads and processes and whatever fails, times out or dies.
THEOREM LeavingIsClean == Spec => []LeaversHoldNothing
<1>1. Init => Living /\ HasThreadLock
  BY LockAssumption DEF Init, Living, HasThreadLock
<1>2. IInv /\ Living /\ HasThreadLock /\ [Next]_vars => Living' /\ HasThreadLock'
  BY LivingStep, HasThreadLockStep DEF IInv
<1>3. IInv /\ Living /\ HasThreadLock => LeaversHoldNothing
  <2> SUFFICES ASSUME IInv, Living, HasThreadLock, NEW t \in Threads, pc[t] = "idle"
               PROVE  fd[t] = None /\ \A i \in Inodes : osLock[i] # t
    BY DEF HasThreadLock, LeaversHoldNothing
  <2>1. fd[t] = None
    BY DEF IInv, Descriptors, HasFile
  <2>2. ASSUME NEW i \in Inodes, osLock[i] = t PROVE FALSE
    <3>1. osLock[i] # None
      BY <2>2, LockAssumption
    <3> QED
      BY <2>2, <3>1 DEF Living, HasTakenOsLock
  <2> QED
    BY <2>1, <2>2
<1>4. QED
  BY <1>1, <1>2, <1>3, Inductive, PTL DEF Spec
=============================================================================
