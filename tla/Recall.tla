------------------------------- MODULE Recall -------------------------------
(***************************************************************************)
(* Serving a recall in mind-mem (mcp/tools/recall.py): the handler reads   *)
(* the head of the hash chain, looks for an answer cached under it         *)
(* (recall_cache.py: an LRU of the process and, shared, a Redis), computes *)
(* one from the corpus and caches it when there is none, attests it        *)
(* against the head of that moment (recall_attestation.py), and records    *)
(* the run in the served ledger (served_ledger.py), a file of linked rows  *)
(* with a sealed head beside it.  Governed writes go on meanwhile: each    *)
(* enters the hash chain when its scope opens and again when it closes,    *)
(* and its blocks reach the corpus in between (see Ledgers).  A recall     *)
(* reads the corpus itself only in a workspace without recall.db; with one *)
(* it is answered from that index, which catches up when somebody runs a   *)
(* build (see Index), and the head does not move with it.                  *)
(*                                                                         *)
(* One query is asked, so that a cache key is the anchor.  An answer is    *)
(* the set of the writes it reflects.  Each reader is a process of its own.*)
(***************************************************************************)
EXTENDS Sequences, Naturals, FiniteSets

CONSTANTS Readers,
          Writes,     \* governed writes, each made once
          None,
          Settings,   \* workspaces, as triples of BOOLEANs: is the cache enabled,
                      \* is the served ledger, and is there an index
          MaxRuns,    \* how many recalls each kind of workspace serves
          MaxFaults   \* how often something fails or dies

ASSUME RecallAssumption ==
    /\ None \notin Readers \cup Nat
    /\ Settings \subseteq BOOLEAN \X BOOLEAN \X BOOLEAN
    /\ MaxRuns \in [Settings -> Nat] /\ MaxFaults \in Nat

Genesis == 0   \* the anchor of an empty chain, and of one that cannot be read

VARIABLES setting,   \* what kind of workspace it is
          head,      \* the length of the hash chain, which its head stands for
          stage,     \* where the scope of each write is
          indexed,   \* the writes whose blocks are in the index
          lru,       \* the cache of each reader
          redis,     \* the cache they share
          rows,      \* served.jsonl
          seal,      \* the row its head file names: 0 when there is no such file
          lock,      \* who holds the lock of the served ledger
          runs,      \* how many recalls were begun
          faults

VARIABLES pc,        \* where each reader is
          run,       \* its recall
          anchor,    \* the anchor it looks up
          answer,    \* the answer it serves
          attested,  \* the anchor its attestation binds
          link,      \* the row it extends
          base,      \* history: the writes closed and indexed when the head last
                     \* moved, and not taken out of the index since
          floor,     \* history: the writes its answer has to have
          served,    \* history: what was published as recorded
          unsealed   \* history: rows whose writer died or failed before the seal

corpus == <<setting, head, stage, indexed, base>>
caches == <<lru, redis>>
ledger == <<rows, seal, lock>>
locals == <<run, anchor, answer, attested, link, floor>>
vars   == <<setting, head, stage, indexed, base, lru, redis, rows, seal, lock, runs,
            faults, pc, run, anchor, answer, attested, link, floor, served, unsealed>>

Stages  == {"ready", "open", "landed", "closed", "left"}
PCs     == {"idle", "get", "compute", "set", "attest", "lock", "row", "seal"}
Answers == SUBSET Writes
Entries == [key : Nat, answer : Answers]
Forms   == {"line", "whole", "part"}   \* a whole row may lack its newline
Rows    == [run : Nat, prev : Nat, anchor : Nat, answer : Answers, form : Forms]

TypeOK ==
    /\ setting \in Settings
    /\ head \in Nat /\ stage \in [Writes -> Stages]
    /\ indexed \subseteq Writes /\ base \subseteq Writes
    /\ lru \in [Readers -> SUBSET Entries] /\ redis \subseteq Entries
    /\ rows \in Seq(Rows) /\ seal \in Nat /\ lock \in Readers \cup {None}
    /\ runs \in Nat /\ faults \in Nat
    /\ pc \in [Readers -> PCs] /\ run \in [Readers -> Nat]
    /\ \A r \in Readers : lock = r <=> pc[r] \in {"row", "seal"}
    /\ anchor \in [Readers -> Nat] /\ answer \in [Readers -> Answers]
    /\ attested \in [Readers -> Nat] /\ link \in [Readers -> Nat]
    /\ floor \in [Readers -> Answers]
    /\ served \subseteq [run : Nat, answer : Answers, anchor : Nat, seq : Nat]
    /\ unsealed \subseteq Nat

Init ==
    /\ setting \in Settings
    /\ head = 0 /\ stage = [w \in Writes |-> "ready"]
    /\ indexed = {} /\ base = {}
    /\ lru = [r \in Readers |-> {}] /\ redis = {}
    /\ rows = <<>> /\ seal = 0 /\ lock = None /\ runs = 0 /\ faults = 0
    /\ pc = [r \in Readers |-> "idle"] /\ run = [r \in Readers |-> 0]
    /\ anchor = [r \in Readers |-> 0] /\ answer = [r \in Readers |-> {}]
    /\ attested = [r \in Readers |-> 0] /\ link = [r \in Readers |-> 0]
    /\ floor = [r \in Readers |-> {}]
    /\ served = {} /\ unsealed = {}

CacheEnabled  == setting[1]
LedgerEnabled == setting[2]
HasIndex      == setting[3]

Landed == {w \in Writes : stage[w] \in {"landed", "closed", "left"}}
Closed == {w \in Writes : stage[w] = "closed"}

\* What a recall can find: an index that exists answers, however old it is.
Visible == IF HasIndex THEN indexed ELSE Landed

\* The writes an answer under the current head has to have.
Promised == IF HasIndex THEN base ELSE Closed

-----------------------------------------------------------------------------
(* Governed writes, and the index.                                         *)

WriteStep(w, from, to) ==
    /\ stage[w] = from
    /\ stage' = [stage EXCEPT ![w] = to]
    /\ UNCHANGED <<setting, indexed, caches, ledger, runs, pc, locals, served, unsealed>>

MoveHead == head' = head + 1 /\ base' = Closed' \cap indexed

Admit(w) == WriteStep(w, "ready", "open") /\ MoveHead /\ UNCHANGED faults
Land(w)  == WriteStep(w, "open", "landed") /\ UNCHANGED <<head, base, faults>>
Close(w) == WriteStep(w, "landed", "closed") /\ MoveHead /\ UNCHANGED faults

\* The close is refused, or the writer dies: the head stays where it is.
CloseFails(w) ==
    /\ WriteStep(w, "landed", "left")
    /\ faults < MaxFaults /\ faults' = faults + 1
    /\ UNCHANGED <<head, base>>

\* A build commits the file of a write, the ledgers and caches untouched.
IndexWrite(w) ==
    /\ HasIndex /\ w \in Landed \ indexed
    /\ indexed' = indexed \cup {w}
    /\ UNCHANGED <<setting, head, stage, base, caches, ledger, runs, faults, pc, locals,
                   served, unsealed>>

\* A full build commits the clearing of every table with its first file.
Rebuild ==
    /\ HasIndex
    /\ \E kept \in SUBSET indexed :
         /\ kept # indexed
         /\ indexed' = kept
         /\ base' = base \cap kept
         /\ floor' = [r \in Readers |-> floor[r] \cap kept]
    /\ UNCHANGED <<setting, head, stage, caches, ledger, runs, faults, pc, run, anchor,
                   answer, attested, link, served, unsealed>>

-----------------------------------------------------------------------------
(* The answer.                                                             *)

Goto(r, there) == pc' = [pc EXCEPT ![r] = there]

\* The head is read, or cannot be: then the anchor is the one of genesis.
Begin(r) ==
    /\ pc[r] = "idle" /\ runs < MaxRuns[setting]
    /\ runs' = runs + 1
    /\ run' = [run EXCEPT ![r] = runs + 1]
    /\ \/ anchor' = [anchor EXCEPT ![r] = head] /\ UNCHANGED faults
       \/ /\ faults < MaxFaults /\ faults' = faults + 1
          /\ anchor' = [anchor EXCEPT ![r] = Genesis]
    /\ floor' = [floor EXCEPT ![r] = Promised]
    /\ Goto(r, IF CacheEnabled THEN "get" ELSE "compute")
    /\ UNCHANGED <<corpus, caches, ledger, answer, attested, link, served, unsealed>>

Hits(cache, key) == {e \in cache : e.key = key}
Put(cache, e)    == {old \in cache : old.key # e.key} \cup {e}

\* RecallCache.get: the reader's own cache first; what it finds in the shared
\* one it keeps.  A Redis that fails is a miss.
Hit(r) ==
    /\ pc[r] = "get"
    /\ LET own == Hits(lru[r], anchor[r])
           hits == IF own # {} THEN own ELSE Hits(redis, anchor[r])
       IN  \E e \in hits :
             /\ answer' = [answer EXCEPT ![r] = e.answer]
             /\ lru' = [lru EXCEPT ![r] = Put(@, e)]
    /\ Goto(r, "attest")
    /\ UNCHANGED <<corpus, redis, ledger, runs, faults, run, anchor, attested,
                   link, floor, served, unsealed>>

Miss(r) ==
    /\ pc[r] = "get"
    /\ Hits(lru[r], anchor[r]) = {}
    /\ \/ Hits(redis, anchor[r]) = {} /\ UNCHANGED faults
       \/ faults < MaxFaults /\ faults' = faults + 1
    /\ Goto(r, "compute")
    /\ UNCHANGED <<corpus, caches, ledger, runs, locals, served, unsealed>>

Compute(r) ==
    /\ pc[r] = "compute"
    /\ answer' = [answer EXCEPT ![r] = Visible]
    /\ Goto(r, IF CacheEnabled THEN "set" ELSE "attest")
    /\ UNCHANGED <<corpus, caches, ledger, runs, faults, run, anchor, attested,
                   link, floor, served, unsealed>>

\* Seeded fault: the answer is stored under the head of this moment.
StoreUnderHead(r) ==
    /\ pc[r] = "set"
    /\ LET e == [key |-> head, answer |-> answer[r]] IN
       /\ lru' = [lru EXCEPT ![r] = Put(@, e)]
       /\ \/ redis' = Put(redis, e) /\ UNCHANGED faults
          \/ faults < MaxFaults /\ faults' = faults + 1 /\ UNCHANGED redis
    /\ Goto(r, "attest")
    /\ UNCHANGED <<corpus, ledger, runs, locals, served, unsealed>>

\* RecallCache.set: both caches, or only the reader's when Redis fails.
Store(r) ==
    /\ pc[r] = "set"
    /\ LET e == [key |-> anchor[r], answer |-> answer[r]] IN
       /\ lru' = [lru EXCEPT ![r] = Put(@, e)]
       /\ \/ redis' = Put(redis, e) /\ UNCHANGED faults
          \/ faults < MaxFaults /\ faults' = faults + 1 /\ UNCHANGED redis
    /\ Goto(r, "attest")
    /\ UNCHANGED <<corpus, ledger, runs, locals, served, unsealed>>

\* The TTL, a full LRU or an invalidation takes an entry out.
Evict ==
    /\ \/ \E r \in Readers : \E e \in lru[r] :
            lru' = [lru EXCEPT ![r] = @ \ {e}] /\ UNCHANGED redis
       \/ \E e \in redis : redis' = redis \ {e} /\ UNCHANGED lru
    /\ UNCHANGED <<corpus, ledger, runs, faults, pc, locals, served, unsealed>>

\* The envelope is published, with the row it was recorded as or with none.
Publish(r, seq) ==
    /\ served' = IF seq = 0 THEN served ELSE
                   served \cup {[run |-> run[r], answer |-> answer[r],
                                 anchor |-> attested[r], seq |-> seq]}
    /\ Goto(r, "idle")
    /\ run' = [run EXCEPT ![r] = 0] /\ anchor' = [anchor EXCEPT ![r] = 0]
    /\ answer' = [answer EXCEPT ![r] = {}] /\ attested' = [attested EXCEPT ![r] = 0]
    /\ link' = [link EXCEPT ![r] = 0] /\ floor' = [floor EXCEPT ![r] = {}]

\* After the cache, hit or miss, the head is read again, or cannot be, and is
\* attested; with the served ledger disabled the recall ends there.
Attest(r) ==
    /\ pc[r] = "attest"
    /\ IF LedgerEnabled
         THEN /\ \/ attested' = [attested EXCEPT ![r] = head] /\ UNCHANGED faults
                 \/ /\ faults < MaxFaults /\ faults' = faults + 1
                    /\ attested' = [attested EXCEPT ![r] = Genesis]
              /\ Goto(r, "lock")
              /\ UNCHANGED <<run, anchor, answer, link, floor, served>>
         ELSE Publish(r, 0) /\ UNCHANGED faults
    /\ UNCHANGED <<corpus, caches, ledger, runs, unsealed>>

-----------------------------------------------------------------------------
(* The served ledger.                                                      *)

\* A row shares its line with the one before it, which lost its newline.
Glued(i) == i > 1 /\ rows[i - 1].form = "whole"

\* _last_row: the last line parses.
LastLegible == LET n == Len(rows) IN n > 0 /\ rows[n].form # "part" /\ ~Glued(n)

\* Seeded fault: the link is taken from the seal.
LinkOfSeal == IF rows # <<>> /\ ~LastLegible THEN None ELSE seal

\* Seeded fault: a last row that was not sealed is damage.
LinkOfSealed ==
    LET n == Len(rows) IN
    CASE n = 0 /\ seal = 0        -> 0
      [] LastLegible /\ seal = n  -> n
      [] OTHER                    -> None

\* _next_link: the row to extend, or none.  The seal may be one row behind.
NextLink ==
    LET n == Len(rows) IN
    CASE n = 0 /\ seal = 0                                   -> 0
      [] LastLegible /\ seal = n                             -> n
      [] LastLegible /\ seal # 0 /\ rows[n].prev = seal      -> n
      [] OTHER                                               -> None

\* Seeded fault: the lock is taken after the link was read.
LinkUnlocked(r) ==
    /\ pc[r] = "lock" /\ NextLink # None
    /\ link' = [link EXCEPT ![r] = NextLink]
    /\ lock' = r
    /\ Goto(r, "row")
    /\ UNCHANGED <<corpus, caches, rows, seal, runs, faults, run, anchor, answer,
                   attested, floor, served, unsealed>>

Link(r) ==
    /\ pc[r] = "lock" /\ lock = None /\ NextLink # None
    /\ link' = [link EXCEPT ![r] = NextLink]
    /\ lock' = r
    /\ Goto(r, "row")
    /\ UNCHANGED <<corpus, caches, rows, seal, runs, faults, run, anchor, answer,
                   attested, floor, served, unsealed>>

\* ServedLedgerCorruptedError, or no lock in time: the answer is not held up.
Unrecorded(r) ==
    /\ pc[r] = "lock" /\ (lock # None \/ NextLink = None)
    /\ Publish(r, 0)
    /\ UNCHANGED <<corpus, caches, ledger, runs, faults, unsealed>>

Row(r, form) == [run |-> run[r], prev |-> link[r], anchor |-> attested[r],
                 answer |-> answer[r], form |-> form]

AppendRow(r) ==
    /\ pc[r] = "row"
    /\ rows' = Append(rows, Row(r, "line"))
    /\ Goto(r, "seal")
    /\ UNCHANGED <<corpus, caches, seal, lock, runs, faults, locals, served, unsealed>>

\* Nothing of the row is written, part of it, or all but its newline, and the
\* process dies or the write raises.
AppendFails(r) ==
    /\ pc[r] = "row"
    /\ faults < MaxFaults /\ faults' = faults + 1
    /\ \/ UNCHANGED <<rows, unsealed>>
       \/ rows' = Append(rows, Row(r, "part")) /\ UNCHANGED unsealed
       \/ /\ rows' = Append(rows, Row(r, "whole"))
          /\ unsealed' = unsealed \cup {Len(rows) + 1}
    /\ lock' = None
    /\ Publish(r, 0)
    /\ UNCHANGED <<corpus, caches, seal, runs>>

SealRow(r) ==
    /\ pc[r] = "seal"
    /\ seal' = Len(rows)
    /\ lock' = None
    /\ Publish(r, Len(rows))
    /\ UNCHANGED <<corpus, caches, rows, runs, faults, unsealed>>

\* The process dies before the seal, or its replacement raises.
SealFails(r) ==
    /\ pc[r] = "seal"
    /\ faults < MaxFaults /\ faults' = faults + 1
    /\ unsealed' = unsealed \cup {Len(rows)}
    /\ lock' = None
    /\ Publish(r, 0)
    /\ UNCHANGED <<corpus, caches, rows, seal, runs>>

Next ==
    \/ \E w \in Writes : Admit(w) \/ Land(w) \/ Close(w) \/ CloseFails(w) \/ IndexWrite(w)
    \/ Rebuild
    \/ \E r \in Readers :
         \/ Begin(r) \/ Hit(r) \/ Miss(r) \/ Compute(r) \/ Store(r) \/ Attest(r)
         \/ Link(r) \/ Unrecorded(r) \/ AppendRow(r) \/ AppendFails(r)
         \/ SealRow(r) \/ SealFails(r)
    \/ Evict

Spec == Init /\ [][Next]_vars

-----------------------------------------------------------------------------

Answered == {r \in Readers : pc[r] \in {"set", "attest", "lock", "row", "seal"}}

\* An answer under a real anchor has every write that was closed before the
\* anchor was read, whoever computed and cached it and whatever happened to the
\* caches since: the head moves the key.  In a workspace with an index, which the
\* head does not move with, it has those that were in the index when the head
\* last moved before the anchor was read, unless a full build took them out.
ClosedWritesAreServed ==
    \A r \in Answered : anchor[r] # Genesis => floor[r] \subseteq answer[r]

\* Nor is anything cached under the current head that misses one of them, for
\* whoever asks next.
CachedIsFresh ==
    \A e \in redis \cup UNION {lru[r] : r \in Readers} :
        e.key = head /\ head # Genesis => Promised \subseteq e.answer

\* The rows of the served ledger are linked one to the next, whoever died
\* before its seal and whoever appended next.
RowsAreLinked == \A i \in DOMAIN rows : rows[i].prev = i - 1

\* A recall published with a row number is that row, with that answer and under
\* the anchor it attests, whoever appended or failed to since; and the row can
\* be read, unless it was put on the line of a row that had lost its newline.
ServedAsRecorded ==
    \A s \in served : s.seq # 0 =>
        /\ s.seq \in DOMAIN rows
        /\ rows[s.seq].run = s.run /\ rows[s.seq].answer = s.answer
        /\ rows[s.seq].anchor = s.anchor
        /\ rows[s.seq].form = "line"
        /\ Glued(s.seq) => s.seq - 1 \in unsealed

\* An untouched ledger refuses to be extended only behind the damage of an append
\* that was cut short, after the first row's writer died before the seal, or
\* after two in a row did.
WedgeIsExplained ==
    lock = None /\ NextLink = None =>
        LET n == Len(rows) IN
        \/ rows[n].form = "part" \/ Glued(n)
        \/ rows # <<>> /\ seal = 0 /\ 1 \in unsealed
        \/ {n - 1, n} \subseteq unsealed
=============================================================================
