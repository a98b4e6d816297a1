------------------------------ MODULE Ledgers ------------------------------
(***************************************************************************)
(* The two ledgers behind the governance gate of mind-mem: the evidence    *)
(* chain, a file of one JSON record per line (evidence_objects.py), and    *)
(* the hash chain, an SQLite table with a sealed head beside it            *)
(* (hash_chain_v2.py).  A write scope (governance_gate.py) records its     *)
(* admission in both, in this order, lets its body write blocks, and       *)
(* records its close in both.  Several processes do so at a time, each     *)
(* with a view of the evidence of its own that it has to bring up to date  *)
(* before it appends.  A view that does not fit the file freezes, and so   *)
(* does a restart on a damaged file, until somebody re-anchors it          *)
(* (evidence_recovery.py).                                                 *)
(*                                                                         *)
(* The file is the sequence of what single appends left in it: a "line",   *)
(* a "whole" record without its newline, or "part" of one.  A number       *)
(* stands for a record's hash, and an offset counts appends, not bytes.    *)
(* The gate's own lock makes a process one actor; it runs one scope at a   *)
(* time.                                                                   *)
(***************************************************************************)
EXTENDS Sequences, Naturals, FiniteSets, SequencesExt

CONSTANTS Procs,        \* the processes
          None,
          Tears,        \* what a failed append may leave in the file
          MaxRecords,   \* how many records are ever made
          MaxFaults     \* how often something fails or dies

Forms   == {"line", "whole", "part"}
Genesis == 0

ASSUME LedgersAssumption ==
    /\ None \notin Procs
    /\ Tears \subseteq Forms
    /\ MaxRecords \in Nat /\ MaxFaults \in Nat

VARIABLES store,     \* evidence_chain.jsonl, as the appends that made it
          archives,  \* the stores that re-anchoring replaced, oldest first
          lock,      \* who holds the store lock for longer than one step
          pending,   \* does the .reanchor-pending file exist?
          chain,     \* the hash chain: the records entered
          head,      \* the sealed head
          issued,    \* how many records were made
          faults     \* how often something has failed or died

VARIABLES pc,        \* where each process is
          scope,     \* the admission record of its open scope
          rec,       \* the record it is entering, or the anchor it forged
          baseline,  \* the length of the chain its anchor will bind
          tail,      \* the last record of its view of the evidence
          offset,    \* how much of the store that view holds
          gen,       \* which store it read: how many were archived by then
          frozen     \* _integrity_compromised

VARIABLES acked,     \* history: the records their maker was told are safe
          landed,    \* history: the scopes whose blocks reached the corpus
          orphans,   \* history: records whose entry will never be made
          owed       \* history: entries whose writer never came to the seal

files  == <<store, archives, lock, pending>>
hashes == <<chain, head>>
view   == <<tail, offset, gen, frozen>>
locals == <<pc, scope, rec, baseline>>
past   == <<acked, landed, orphans, owed>>
vars   == <<store, archives, lock, pending, chain, head, issued, faults, pc,
            scope, rec, baseline, tail, offset, gen, frozen, acked, landed,
            orphans, owed>>

PCs == {"down", "idle", "enter", "seal", "body", "closing",
        "archived", "pending", "adopt"}

Chunks == [id : Nat, prev : Nat, ref : Nat,
           kind : {"open", "close", "anchor"}, form : Forms]

InScope == {"enter", "seal", "body", "closing"}

\* Types, and who is in a scope: what a process is about to do fits what it
\* remembers.
TypeOK ==
    /\ store \in Seq(Chunks) /\ archives \in Seq(Seq(Chunks))
    /\ lock \in Procs \cup {None} /\ pending \in BOOLEAN
    /\ chain \in Seq(Nat) /\ head \in Nat
    /\ issued \in Nat /\ faults \in Nat
    /\ pc \in [Procs -> PCs]
    /\ scope \in [Procs -> Nat] /\ rec \in [Procs -> Nat]
    /\ baseline \in [Procs -> Nat]
    /\ tail \in [Procs -> Nat] /\ offset \in [Procs -> Nat] /\ gen \in [Procs -> Nat]
    /\ \A p \in Procs : pc[p] \in InScope <=> scope[p] # 0
    /\ frozen \in [Procs -> BOOLEAN]
    /\ acked \subseteq Nat /\ landed \subseteq Nat
    /\ orphans \subseteq Nat /\ owed \subseteq Nat

Init ==
    /\ store = <<>> /\ archives = <<>> /\ lock = None /\ pending = FALSE
    /\ chain = <<>> /\ head = Genesis /\ issued = 0 /\ faults = 0
    /\ pc = [p \in Procs |-> "down"]
    /\ scope = [p \in Procs |-> 0] /\ rec = [p \in Procs |-> 0]
    /\ baseline = [p \in Procs |-> 0]
    /\ tail = [p \in Procs |-> Genesis] /\ offset = [p \in Procs |-> 0]
    /\ gen = [p \in Procs |-> 0] /\ frozen = [p \in Procs |-> FALSE]
    /\ acked = {} /\ landed = {} /\ orphans = {} /\ owed = {}

-----------------------------------------------------------------------------
(* Reading the store.                                                      *)

\* A record on a line of its own: an append that left no newline spoils the
\* one that follows it, and is spoilt by it.
Legible(s, i) ==
    /\ s[i].form # "part"
    /\ i > 1 => s[i - 1].form = "line"
    /\ i < Len(s) => s[i].form = "line"

\* Read from offset o on, every line is a record and links to the one before.
ReadsOn(s, o, t) ==
    \A i \in (o + 1)..Len(s) :
        /\ s[i].form # "part"
        /\ i < Len(s) => s[i].form = "line"
        /\ s[i].prev = IF i = o + 1 THEN t ELSE s[i - 1].id

Intact(s) == ReadsOn(s, 0, Genesis)

\* The end of a view once it has absorbed what other writers appended.
Absorbed(p) == IF offset[p] < Len(store) THEN Last(store).id ELSE tail[p]

\* Seeded fault: the last line of the store is not read again.
CanExtendUnread(p) ==
    /\ offset[p] = 0 \/ gen[p] = Len(archives)

\* The view is of this store, the rest of the store reads on from it, and its
\* end is the record on the last line.
CanExtend(p) ==
    /\ offset[p] = 0 \/ gen[p] = Len(archives)
    /\ ReadsOn(store, offset[p], tail[p])
    /\ IF store = <<>> THEN Absorbed(p) = Genesis
                       ELSE /\ Legible(store, Len(store))
                            /\ Last(store).id = Absorbed(p)

\* How a process that starts finds the store.
Load(p) ==
    /\ pc[p] = "down"
    /\ pc' = [pc EXCEPT ![p] = "idle"]
    /\ frozen' = [frozen EXCEPT ![p] = ~Intact(store)]
    /\ tail' = [tail EXCEPT ![p] = IF store # <<>> /\ Intact(store)
                                     THEN Last(store).id ELSE Genesis]
    /\ offset' = [offset EXCEPT ![p] = Len(store)]
    /\ gen' = [gen EXCEPT ![p] = Len(archives)]
    /\ UNCHANGED <<files, hashes, issued, faults, scope, rec, baseline, past>>

-----------------------------------------------------------------------------
(* Admitting: evidence first, then the hash chain, then its seal.          *)

Goto(p, there) == pc' = [pc EXCEPT ![p] = there]

\* Seeded fault: the scope outlives the exception.
LeaveOpen(p, there) ==
    /\ Goto(p, there)
    /\ rec' = [rec EXCEPT ![p] = 0]
    /\ baseline' = [baseline EXCEPT ![p] = 0]
    /\ UNCHANGED scope

\* An admission that fails raises, and with it the scope is over.
Leave(p, there) ==
    /\ Goto(p, there)
    /\ scope' = [scope EXCEPT ![p] = 0]
    /\ rec' = [rec EXCEPT ![p] = 0]
    /\ baseline' = [baseline EXCEPT ![p] = 0]

\* The record the process forges: the admission that opens a scope, or the
\* close that names it.
Forge(p, form) ==
    [id |-> issued + 1, prev |-> Absorbed(p), ref |-> scope[p],
     kind |-> IF pc[p] = "idle" THEN "open" ELSE "close", form |-> form]

\* Seeded fault: the offset stays before the record just written.
LookAgainBehind(p, last, n) ==
    /\ tail' = [tail EXCEPT ![p] = last]
    /\ offset' = [offset EXCEPT ![p] = Len(store)]
    /\ gen' = [gen EXCEPT ![p] = Len(archives)]
    /\ UNCHANGED frozen

\* The view after the refresh, and n records of its own further.
LookAgain(p, last, n) ==
    /\ tail' = [tail EXCEPT ![p] = last]
    /\ offset' = [offset EXCEPT ![p] = Len(store) + n]
    /\ gen' = [gen EXCEPT ![p] = Len(archives)]
    /\ UNCHANGED frozen

Admits(p) ==
    /\ pc[p] \in {"idle", "closing"}
    /\ ~frozen[p] /\ lock = None

\* create(), all of it under the store lock.
Record(p) ==
    /\ Admits(p) /\ CanExtend(p) /\ issued < MaxRecords
    /\ store' = Append(store, Forge(p, "line"))
    /\ LookAgain(p, issued + 1, 1)
    /\ issued' = issued + 1
    /\ acked' = acked \cup {issued + 1}
    /\ rec' = [rec EXCEPT ![p] = issued + 1]
    /\ scope' = [scope EXCEPT ![p] = IF pc[p] = "idle" THEN issued + 1 ELSE @]
    /\ Goto(p, "enter")
    /\ UNCHANGED <<archives, lock, pending, hashes, faults, baseline, landed,
                   orphans, owed>>

\* The write, the flush or the fsync fails, or the process dies in it.
RecordFails(p, form, there) ==
    /\ Admits(p) /\ CanExtend(p) /\ issued < MaxRecords
    /\ faults < MaxFaults /\ faults' = faults + 1
    /\ store' = Append(store, Forge(p, form))
    /\ LookAgain(p, Absorbed(p), 0)
    /\ issued' = issued + 1
    /\ orphans' = IF form = "part" THEN orphans ELSE orphans \cup {issued + 1}
    /\ Leave(p, there)
    /\ UNCHANGED <<archives, lock, pending, hashes, acked, landed, owed>>

\* The same, and nothing of the record reached the file; what the writer had
\* read of the store beforehand it keeps.
RecordNothing(p, there) ==
    /\ Admits(p) /\ CanExtend(p)
    /\ faults < MaxFaults /\ faults' = faults + 1
    /\ LookAgain(p, Absorbed(p), 0)
    /\ Leave(p, there)
    /\ UNCHANGED <<files, hashes, issued, past>>

\* _freeze_and_raise: the view and the store do not fit.
Refuse(p) ==
    /\ Admits(p) /\ ~CanExtend(p)
    /\ frozen' = [frozen EXCEPT ![p] = TRUE]
    /\ Leave(p, "idle")
    /\ UNCHANGED <<files, hashes, issued, faults, tail, offset, gen, past>>

\* A close meets a frozen chain, or waits for the store lock in vain.
CloseRefused(p) ==
    /\ pc[p] = "closing" /\ (frozen[p] \/ lock # None)
    /\ Leave(p, "idle")
    /\ UNCHANGED <<files, hashes, issued, faults, view, past>>

\* The row is read, linked and inserted in one transaction.
Enter(p) ==
    /\ pc[p] = "enter"
    /\ chain' = Append(chain, rec[p])
    /\ Goto(p, "seal")
    /\ UNCHANGED <<files, head, issued, faults, scope, rec, baseline, view, past>>

\* Seeded fault: the exception is logged and the scope opens all the same.
EnterSwallowed(p) ==
    /\ pc[p] = "enter"
    /\ faults < MaxFaults /\ faults' = faults + 1
    /\ orphans' = orphans \cup {rec[p]}
    /\ IF rec[p] = scope[p]
         THEN Goto(p, "body") /\ UNCHANGED <<scope, rec, baseline>>
         ELSE Leave(p, "idle")
    /\ UNCHANGED <<files, hashes, issued, view, acked, landed, owed>>

EnterFails(p) ==
    /\ pc[p] = "enter"
    /\ faults < MaxFaults /\ faults' = faults + 1
    /\ orphans' = orphans \cup {rec[p]}
    /\ Leave(p, "idle")
    /\ UNCHANGED <<files, hashes, issued, view, acked, landed, owed>>

\* What follows an admission: the body of the scope it opened, or nothing.
Admitted(p) ==
    IF rec[p] = scope[p] THEN Goto(p, "body") /\ UNCHANGED <<scope, rec, baseline>>
                         ELSE Leave(p, "idle")

\* Seeded fault: the writer seals the row it inserted.
SealOwn(p) ==
    /\ pc[p] = "seal"
    /\ head' = rec[p]
    /\ Admitted(p)
    /\ UNCHANGED <<files, chain, issued, faults, view, past>>

\* _seal_tail reads the tail again under the write lock of the database.
Seal(p) ==
    /\ pc[p] = "seal"
    /\ head' = Last(chain)
    /\ Admitted(p)
    /\ UNCHANGED <<files, chain, issued, faults, view, past>>

\* Seeded fault: the admission is tried again from the hash chain on.
SealRetried(p) ==
    /\ pc[p] = "seal"
    /\ faults < MaxFaults /\ faults' = faults + 1
    /\ Goto(p, "enter")
    /\ UNCHANGED <<files, hashes, issued, scope, rec, baseline, view, past>>

SealFails(p) ==
    /\ pc[p] = "seal"
    /\ faults < MaxFaults /\ faults' = faults + 1
    /\ owed' = owed \cup {rec[p]}
    /\ Leave(p, "idle")
    /\ UNCHANGED <<files, hashes, issued, view, acked, landed, orphans>>

\* The body of the scope writes its blocks, or raises before it has.
Body(p, lands) ==
    /\ pc[p] = "body"
    /\ landed' = IF lands THEN landed \cup {scope[p]} ELSE landed
    /\ Goto(p, "closing")
    /\ UNCHANGED <<files, hashes, issued, faults, scope, rec, baseline, view,
                   acked, orphans, owed>>

-----------------------------------------------------------------------------
(* Re-anchoring a damaged store.                                           *)

\* recover_chain up to the archived copy, under the store lock it keeps.
Archive(p) ==
    /\ pc[p] = "idle" /\ lock = None /\ issued < MaxRecords
    /\ ~Intact(store) /\ ~pending
    /\ \E i \in DOMAIN store : Legible(store, i)
    /\ lock' = p
    /\ issued' = issued + 1
    /\ rec' = [rec EXCEPT ![p] = issued + 1]
    /\ baseline' = [baseline EXCEPT ![p] = Len(chain)]
    /\ Goto(p, "archived")
    /\ UNCHANGED <<store, archives, pending, hashes, faults, scope, view, past>>

WritePending(p) ==
    /\ pc[p] = "archived"
    /\ pending' = TRUE
    /\ Goto(p, "pending")
    /\ UNCHANGED <<store, archives, lock, hashes, issued, faults, scope, rec,
                   baseline, view, past>>

\* Seeded fault: the anchor binds the number of records it archives.
AnchorOfRecords(p) == [id |-> rec[p], prev |-> Genesis, ref |-> Len(store),
                       kind |-> "anchor", form |-> "line"]

Anchor(p) == [id |-> rec[p], prev |-> Genesis, ref |-> baseline[p],
              kind |-> "anchor", form |-> "line"]

\* The anchor replaces the store it archived.
Replace(p) ==
    /\ pc[p] = "pending"
    /\ baseline[p] = Len(chain)
    /\ store' = <<Anchor(p)>>
    /\ archives' = Append(archives, store)
    /\ acked' = acked \cup {rec[p]}
    /\ Goto(p, "adopt")
    /\ pending' = FALSE /\ lock' = None
    /\ UNCHANGED <<hashes, issued, faults, scope, rec, baseline, view, landed,
                   orphans, owed>>

\* The hash chain has grown since: everything is taken back.
Unwind(p) ==
    /\ pc[p] = "pending"
    /\ baseline[p] # Len(chain)
    /\ pending' = FALSE /\ lock' = None
    /\ Leave(p, "idle")
    /\ UNCHANGED <<store, archives, hashes, issued, faults, view, past>>

\* recover_by_reanchor takes over what it wrote, the store lock given back:
\* the offset is whatever the store has grown to by now.
Adopt(p) ==
    /\ pc[p] = "adopt"
    /\ tail' = [tail EXCEPT ![p] = rec[p]]
    /\ offset' = [offset EXCEPT ![p] = Len(store)]
    /\ gen' = [gen EXCEPT ![p] = Len(archives)]
    /\ frozen' = [frozen EXCEPT ![p] = FALSE]
    /\ Leave(p, "idle")
    /\ UNCHANGED <<files, hashes, issued, faults, past>>

-----------------------------------------------------------------------------

\* A process dies.  Its file lock is broken; the pending file stays.
Crash(p) ==
    /\ pc[p] # "down"
    /\ faults < MaxFaults /\ faults' = faults + 1
    /\ lock' = IF lock = p THEN None ELSE lock
    /\ orphans' = IF pc[p] = "enter" THEN orphans \cup {rec[p]} ELSE orphans
    /\ owed' = IF pc[p] = "seal" THEN owed \cup {rec[p]} ELSE owed
    /\ tail' = [tail EXCEPT ![p] = Genesis]
    /\ offset' = [offset EXCEPT ![p] = 0]
    /\ gen' = [gen EXCEPT ![p] = 0]
    /\ frozen' = [frozen EXCEPT ![p] = FALSE]
    /\ Leave(p, "down")
    /\ UNCHANGED <<store, archives, pending, hashes, issued, acked, landed>>

Step(p) ==
    \/ Load(p) \/ Record(p) \/ Refuse(p) \/ CloseRefused(p)
    \/ \E form \in Tears, there \in {"idle", "down"} : RecordFails(p, form, there)
    \/ \E there \in {"idle", "down"} : RecordNothing(p, there)
    \/ Enter(p) \/ EnterFails(p) \/ Seal(p) \/ SealFails(p)
    \/ \E lands \in BOOLEAN : Body(p, lands)
    \/ Archive(p) \/ WritePending(p) \/ Replace(p) \/ Unwind(p) \/ Adopt(p)
    \/ Crash(p)

Next == \E p \in Procs : Step(p)

Spec == Init /\ [][Next]_vars

-----------------------------------------------------------------------------
(* What the ledgers keep.                                                  *)

Stores == {store} \cup ToSet(archives)

LegibleOf(s) == {s[i] : i \in {j \in DOMAIN s : Legible(s, j)}}

Kept == {r.id : r \in UNION {LegibleOf(s) : s \in Stores}}

\* Nobody appends behind damage: in every store, archived ones included, only
\* the last append may be torn, and every other record links to the one before
\* it.  This is what _linkable_previous_hash reads the disk tail for.
DamageIsLast ==
    \A s \in Stores : \A i \in 1..(Len(s) - 1) :
        /\ s[i].form = "line"
        /\ s[i + 1].prev = s[i].id

\* A record whose maker was told that it is on disk can still be read, in the
\* store or in an archive, whatever was torn, re-anchored or restarted since:
\* the promise of _append_to_file.
AcknowledgedIsKept == acked \subseteq Kept

\* reconcile() (cross_ledger.py) counts the admissions in the store against
\* the entries the chain has gained since the anchor.
AdmissionRows(s) == Cardinality({r \in LegibleOf(s) : r.kind # "anchor"})
Baseline(s) == LET anchors == {r \in LegibleOf(s) : r.kind = "anchor"} IN
               IF anchors = {} THEN 0 ELSE (CHOOSE r \in anchors : TRUE).ref

Shortfall(s) ==
    LET expected == AdmissionRows(s) + Baseline(s)
    IN  IF expected > Len(chain) THEN expected - Len(chain) ELSE 0

InFlight == {rec[p] : p \in {q \in Procs : pc[q] = "enter"}}

\* reconcile misses no entry but those of records in this store that a process
\* is about to enter or failed to: re-anchoring, crashes and other writers add
\* nothing to the shortfall it convicts.
ShortfallIsExplained ==
    Shortfall(store) <=
        Cardinality((InFlight \cup orphans) \cap {r.id : r \in ToSet(store)})

Sealing == {rec[p] : p \in {q \in Procs : pc[q] = "seal"}}

\* Every entry behind the sealed one is of a writer that has still to seal or
\* died or failed before it could: the seal never goes back over an entry, so
\* verify_head convicts only what it says it does.
SealKeepsUp ==
    \E k \in 0..Len(chain) :
        /\ head = IF k = 0 THEN Genesis ELSE chain[k]
        /\ \A i \in (k + 1)..Len(chain) : chain[i] \in owed \cup Sealing

\* Whatever reached the corpus through a scope has its admission in both
\* ledgers, and stays so when the evidence is re-anchored.
LandedIsOnRecord == landed \subseteq ToSet(chain) \cap Kept

\* The process re-anchored, and others appended before it took its offset.
AdoptedLate(p) ==
    offset[p] \in DOMAIN store /\ store[offset[p]].id # tail[p]

\* A process freezes only on a damaged store, on one that was re-anchored
\* behind its back, or when it re-anchored and adopted late: the refresh takes
\* over whatever other processes append.
FreezesForAReason ==
    [][\A p \in Procs : ~frozen[p] /\ frozen'[p] =>
          \/ ~Intact(store)
          \/ gen[p] # Len(archives)
          \/ AdoptedLate(p)]_vars

-----------------------------------------------------------------------------
(* Together the ledgers implement AdmissionLog: the evidence on record is  *)
(* what can be read in the archives and the store.                         *)

\* The records on the lines of a store, in order.
LineIds(s) ==
    LET upTo[i \in 0..Len(s)] ==
            IF i = 0 THEN <<>>
            ELSE IF s[i].form = "line" THEN Append(upTo[i - 1], s[i].id)
                                       ELSE upTo[i - 1]
    IN  upTo[Len(s)]

Recorded == LineIds(FlattenSeq(Append(archives, store)))

Log == INSTANCE AdmissionLog
         WITH Records <- 1..MaxRecords, log <- Recorded

\* No tear, crash, refusal or re-anchoring takes evidence off the record or
\* reorders it, and no admission enters the chain unrecorded or twice.
LedgersOnlyGrow == Log!Spec
=============================================================================
