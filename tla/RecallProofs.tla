---------------------------- MODULE RecallProofs ----------------------------
(* Proofs about Recall: the cache is fresh, and the served ledger linked,  *)
(* for any readers, writes, settings, recalls and faults.                  *)
EXTENDS Recall, SequenceTheorems, TLAPS

-----------------------------------------------------------------------------
(* Type correctness.                                                       *)

\* What a recall leaves behind when it is published.
LEMMA PublishType ==
    ASSUME TypeOK, NEW r \in Readers, NEW seq \in Nat, Publish(r, seq)
    PROVE  /\ pc' = [pc EXCEPT ![r] = "idle"] /\ pc' \in [Readers -> PCs]
           /\ run' \in [Readers -> Nat] /\ anchor' \in [Readers -> Nat]
           /\ answer' \in [Readers -> Answers] /\ attested' \in [Readers -> Nat]
           /\ link' \in [Readers -> Nat] /\ floor' \in [Readers -> Answers]
           /\ served' \subseteq [run : Nat, answer : Answers, anchor : Nat, seq : Nat]
<1>1. pc' = [pc EXCEPT ![r] = "idle"] /\ pc' \in [Readers -> PCs]
  BY DEF TypeOK, Publish, Goto, PCs
<1>2. /\ run' \in [Readers -> Nat] /\ anchor' \in [Readers -> Nat]
      /\ attested' \in [Readers -> Nat] /\ link' \in [Readers -> Nat]
  BY DEF TypeOK, Publish
<1>3. answer' \in [Readers -> Answers] /\ floor' \in [Readers -> Answers]
  BY DEF TypeOK, Publish, Answers
<1>4. served' \subseteq [run : Nat, answer : Answers, anchor : Nat, seq : Nat]
  BY DEF TypeOK, Publish
<1> QED
  BY <1>1, <1>2, <1>3, <1>4

\* An entry that is put in a cache leaves a set of entries.
LEMMA PutType ==
    ASSUME NEW cache \in SUBSET Entries, NEW e \in Entries
    PROVE  Put(cache, e) \subseteq Entries
BY DEF Put

\* The lock is its holder's as long as nobody's step says otherwise.
LEMMA LockKept ==
    ASSUME TypeOK, NEW r \in Readers, NEW there \in PCs, pc' = [pc EXCEPT ![r] = there],
           \/ /\ lock' = lock
              /\ pc[r] \in {"row", "seal"} <=> there \in {"row", "seal"}
           \/ lock = None /\ lock' = r /\ there = "row"
           \/ lock = r /\ lock' = None /\ there = "idle"
    PROVE  \A q \in Readers : lock' = q <=> pc'[q] \in {"row", "seal"}
<1> SUFFICES ASSUME NEW q \in Readers PROVE lock' = q <=> pc'[q] \in {"row", "seal"}
  OBVIOUS
<1>1. None \notin Readers
  BY RecallAssumption
<1>2. CASE q = r
  BY <1>1, <1>2 DEF TypeOK
<1>3. CASE q # r
  <2>1. pc'[q] = pc[q]
    BY <1>3 DEF TypeOK
  <2>2. lock = q <=> pc[q] \in {"row", "seal"}
    BY DEF TypeOK
  <2> QED
    BY <1>1, <1>3, <2>1, <2>2
<1> QED
  BY <1>2, <1>3

\* A link that is not refused is the last row.
LEMMA LinkIsLast ==
    ASSUME TypeOK, NextLink # None
    PROVE  NextLink = Len(rows) /\ NextLink \in Nat
<1>1. Len(rows) \in Nat
  BY LenProperties DEF TypeOK
<1> QED
  BY <1>1 DEF NextLink

\* Every step keeps the types.
LEMMA TypeStep ==
    ASSUME TypeOK, [Next]_vars
    PROVE  TypeOK'
<1>1. ASSUME NEW w \in Writes, Admit(w) \/ Land(w) \/ Close(w) \/ CloseFails(w)
      PROVE  TypeOK'
  <2>1. PICK to \in Stages : stage' = [stage EXCEPT ![w] = to]
    BY <1>1 DEF Admit, Land, Close, CloseFails, WriteStep, Stages
  <2>3. head' \in Nat /\ base' \subseteq Writes
    BY <1>1 DEF TypeOK, Admit, Land, Close, CloseFails, MoveHead
  <2>4. faults' \in Nat
    BY <1>1 DEF TypeOK, Admit, Land, Close, CloseFails
  <2>5. stage' \in [Writes -> Stages]
    BY <2>1 DEF TypeOK
  <2>2. UNCHANGED <<setting, indexed, caches, ledger, runs, pc, locals, served, unsealed>>
    BY <1>1 DEF Admit, Land, Close, CloseFails, WriteStep
  <2> QED
    BY <2>2, <2>3, <2>4, <2>5 DEF TypeOK, caches, ledger, locals
<1>2. ASSUME NEW r \in Readers, Begin(r) PROVE TypeOK'
  <2>1. /\ runs' \in Nat /\ faults' \in Nat /\ run' \in [Readers -> Nat]
        /\ anchor' \in [Readers -> Nat] /\ floor' \in [Readers -> Answers]
    <3>1. runs' \in Nat /\ run' \in [Readers -> Nat]
      BY <1>2 DEF TypeOK, Begin
    <3>2. anchor' \in [Readers -> Nat]
      <4>1. head \in Nat /\ Genesis \in Nat /\ anchor \in [Readers -> Nat]
        BY DEF TypeOK, Genesis
      <4>2. \E k \in {head, Genesis} : anchor' = [anchor EXCEPT ![r] = k]
        BY <1>2 DEF Begin
      <4> QED
        BY <4>1, <4>2
    <3>4. faults' \in Nat
      BY <1>2 DEF TypeOK, Begin
    <3>3. floor' \in [Readers -> Answers]
      BY <1>2 DEF TypeOK, Begin, Answers, Promised, Closed
    <3> QED
      BY <3>1, <3>2, <3>3, <3>4
  <2>2. PICK there \in {"get", "compute"} : pc' = [pc EXCEPT ![r] = there] /\ there \in PCs
    BY <1>2 DEF Begin, Goto, PCs
  <2>3. pc' \in [Readers -> PCs] /\ pc[r] = "idle" /\ lock' = lock
    BY <1>2, <2>2 DEF TypeOK, Begin, ledger
  <2>4. \A q \in Readers : lock' = q <=> pc'[q] \in {"row", "seal"}
    BY <2>2, <2>3, LockKept
  <2> QED
    BY <1>2, <2>1, <2>3, <2>4 DEF TypeOK, Begin, corpus, caches, ledger
<1>3. ASSUME NEW r \in Readers, Hit(r) PROVE TypeOK'
  <2>1. PICK e \in lru[r] \cup redis :
            answer' = [answer EXCEPT ![r] = e.answer] /\ lru' = [lru EXCEPT ![r] = Put(@, e)]
    BY <1>3 DEF Hit, Hits
  <2>2. e \in Entries /\ lru[r] \in SUBSET Entries
    BY <2>1 DEF TypeOK
  <2>3. answer' \in [Readers -> Answers] /\ lru' \in [Readers -> SUBSET Entries]
    BY <2>1, <2>2, PutType DEF TypeOK, Entries
  <2>4. /\ pc' = [pc EXCEPT ![r] = "attest"] /\ pc[r] = "get" /\ lock' = lock
        /\ "attest" \in PCs
    BY <1>3 DEF Hit, Goto, ledger, PCs
  <2>5. pc' \in [Readers -> PCs]
    BY <2>4 DEF TypeOK
  <2>6. \A q \in Readers : lock' = q <=> pc'[q] \in {"row", "seal"}
    BY <2>4, LockKept
  <2> QED
    BY <1>3, <2>3, <2>5, <2>6 DEF TypeOK, Hit, corpus, ledger
<1>4. ASSUME NEW r \in Readers, Miss(r) PROVE TypeOK'
  <2>1. /\ pc' = [pc EXCEPT ![r] = "compute"] /\ pc[r] = "get" /\ lock' = lock
        /\ "compute" \in PCs /\ faults' \in Nat
    BY <1>4 DEF TypeOK, Miss, Goto, ledger, PCs
  <2>2. pc' \in [Readers -> PCs]
    BY <2>1 DEF TypeOK
  <2>3. \A q \in Readers : lock' = q <=> pc'[q] \in {"row", "seal"}
    BY <2>1, LockKept
  <2> QED
    BY <1>4, <2>1, <2>2, <2>3 DEF TypeOK, Miss, corpus, caches, ledger, locals
<1>5. ASSUME NEW r \in Readers, Compute(r) PROVE TypeOK'
  <2>1. PICK there \in {"set", "attest"} : pc' = [pc EXCEPT ![r] = there] /\ there \in PCs
    BY <1>5 DEF Compute, Goto, PCs
  <2>2. answer' \in [Readers -> Answers]
    BY <1>5 DEF TypeOK, Compute, Visible, Landed, Answers
  <2>3. pc' \in [Readers -> PCs] /\ pc[r] = "compute" /\ lock' = lock
    BY <1>5, <2>1 DEF TypeOK, Compute, ledger
  <2>4. \A q \in Readers : lock' = q <=> pc'[q] \in {"row", "seal"}
    BY <2>1, <2>3, LockKept
  <2> QED
    BY <1>5, <2>2, <2>3, <2>4 DEF TypeOK, Compute, corpus, caches, ledger
<1>6. ASSUME NEW r \in Readers, Store(r) PROVE TypeOK'
  <2>1. PICK e \in Entries : /\ lru' = [lru EXCEPT ![r] = Put(@, e)]
                             /\ redis' = Put(redis, e) \/ redis' = redis
    <3> DEFINE new == [key |-> anchor[r], answer |-> answer[r]]
    <3>1. new \in Entries
      BY DEF TypeOK, Entries
    <3>2. lru' = [lru EXCEPT ![r] = Put(@, new)] /\ (redis' = Put(redis, new) \/ redis' = redis)
      BY <1>6 DEF Store
    <3> QED
      BY <3>1, <3>2
  <2>2. lru' \in [Readers -> SUBSET Entries] /\ redis' \subseteq Entries
    BY <2>1, PutType DEF TypeOK
  <2>3. /\ pc' = [pc EXCEPT ![r] = "attest"] /\ pc[r] = "set" /\ lock' = lock
        /\ "attest" \in PCs /\ faults' \in Nat
    BY <1>6 DEF TypeOK, Store, Goto, ledger, PCs
  <2>4. pc' \in [Readers -> PCs]
    BY <2>3 DEF TypeOK
  <2>5. \A q \in Readers : lock' = q <=> pc'[q] \in {"row", "seal"}
    BY <2>3, LockKept
  <2> QED
    BY <1>6, <2>2, <2>3, <2>4, <2>5 DEF TypeOK, Store, corpus, ledger, locals
<1>7. ASSUME Evict PROVE TypeOK'
  <2>1. lru' \in [Readers -> SUBSET Entries] /\ redis' \subseteq Entries
    BY <1>7 DEF TypeOK, Evict
  <2> QED
    BY <1>7, <2>1 DEF TypeOK, Evict, corpus, ledger, locals
<1>8. ASSUME NEW r \in Readers, Attest(r) PROVE TypeOK'
  <2>1. pc[r] = "attest" /\ lock' = lock /\ rows' = rows /\ seal' = seal
    BY <1>8 DEF Attest, ledger
  <2>2. CASE LedgerEnabled
    <3>1. /\ attested' \in [Readers -> Nat] /\ pc' = [pc EXCEPT ![r] = "lock"] /\ "lock" \in PCs
          /\ faults' \in Nat
      <4>1. /\ \E k \in {head, Genesis} : attested' = [attested EXCEPT ![r] = k]
            /\ faults' \in {faults, faults + 1} /\ pc' = [pc EXCEPT ![r] = "lock"]
        BY <1>8, <2>2 DEF Attest, Goto
      <4>2. head \in Nat /\ Genesis \in Nat /\ faults \in Nat
        BY DEF TypeOK, Genesis
      <4> QED
        BY <4>1, <4>2 DEF TypeOK, PCs
    <3>2. \A q \in Readers : lock' = q <=> pc'[q] \in {"row", "seal"}
      BY <2>1, <3>1, LockKept
    <3> QED
      BY <1>8, <2>2, <3>1, <3>2 DEF TypeOK, Attest, corpus, caches, ledger
  <2>3. CASE ~LedgerEnabled
    <3>1. Publish(r, 0) /\ 0 \in Nat /\ "idle" \in PCs /\ faults' = faults
      BY <1>8, <2>3 DEF Attest, PCs
    <3>2. \A q \in Readers : lock' = q <=> pc'[q] \in {"row", "seal"}
      BY <2>1, <3>1, PublishType, LockKept
    <3> QED
      BY <1>8, <3>1, <3>2, PublishType DEF TypeOK, Attest, corpus, caches, ledger
  <2> QED
    BY <2>2, <2>3
<1>9. ASSUME NEW r \in Readers, Link(r) PROVE TypeOK'
  <2>1. /\ link' \in [Readers -> Nat] /\ pc' = [pc EXCEPT ![r] = "row"] /\ "row" \in PCs
        /\ lock = None /\ lock' = r
    BY <1>9, LinkIsLast DEF TypeOK, Link, Goto, PCs
  <2>2. pc' \in [Readers -> PCs] /\ lock' \in Readers \cup {None}
    BY <2>1 DEF TypeOK
  <2>3. \A q \in Readers : lock' = q <=> pc'[q] \in {"row", "seal"}
    BY <2>1, LockKept
  <2> QED
    BY <1>9, <2>1, <2>2, <2>3 DEF TypeOK, Link, corpus, caches
<1>10. ASSUME NEW r \in Readers, Unrecorded(r) PROVE TypeOK'
  <2>1. /\ Publish(r, 0) /\ 0 \in Nat /\ "idle" \in PCs
        /\ pc[r] = "lock" /\ lock' = lock
    BY <1>10 DEF Unrecorded, PCs, ledger
  <2>2. \A q \in Readers : lock' = q <=> pc'[q] \in {"row", "seal"}
    BY <2>1, PublishType, LockKept
  <2> QED
    BY <1>10, <2>1, <2>2, PublishType DEF TypeOK, Unrecorded, corpus, caches, ledger
<1>11. ASSUME NEW r \in Readers, AppendRow(r) PROVE TypeOK'
  <2>1. Row(r, "line") \in Rows
    BY DEF TypeOK, Row, Rows, Forms
  <2>2. rows' \in Seq(Rows)
    BY <1>11, <2>1, AppendProperties DEF TypeOK, AppendRow
  <2>3. /\ pc' = [pc EXCEPT ![r] = "seal"] /\ pc[r] = "row" /\ lock' = lock
        /\ "seal" \in PCs
    BY <1>11 DEF AppendRow, Goto, PCs
  <2>4. pc' \in [Readers -> PCs]
    BY <2>3 DEF TypeOK
  <2>5. \A q \in Readers : lock' = q <=> pc'[q] \in {"row", "seal"}
    BY <2>3, LockKept
  <2> QED
    BY <1>11, <2>2, <2>4, <2>5 DEF TypeOK, AppendRow, corpus, caches, locals
<1>12. ASSUME NEW r \in Readers, AppendFails(r) PROVE TypeOK'
  <2>1. \A form \in Forms : Row(r, form) \in Rows
    BY DEF TypeOK, Row, Rows
  <2>2. rows' \in Seq(Rows) /\ unsealed' \subseteq Nat
    <3>1. /\ rows \in Seq(Rows) /\ Len(rows) \in Nat
          /\ \A form \in {"part", "whole"} : Append(rows, Row(r, form)) \in Seq(Rows)
      BY <2>1, AppendProperties, LenProperties DEF TypeOK, Forms
    <3>2. \/ UNCHANGED <<rows, unsealed>>
          \/ rows' = Append(rows, Row(r, "part")) /\ UNCHANGED unsealed
          \/ /\ rows' = Append(rows, Row(r, "whole"))
             /\ unsealed' = unsealed \cup {Len(rows) + 1}
      BY <1>12 DEF AppendFails
    <3>3. unsealed \subseteq Nat
      BY DEF TypeOK
    <3>4. rows' \in Seq(Rows)
      BY <3>1, <3>2
    <3>5. unsealed' \subseteq Nat
      <4>1. Len(rows) + 1 \in Nat
        BY <3>1
      <4>2. unsealed' \subseteq unsealed \cup {Len(rows) + 1}
        BY <3>2
      <4> QED
        BY <3>3, <4>1, <4>2
    <3> QED
      BY <3>4, <3>5
  <2>5. faults' \in Nat
    BY <1>12 DEF TypeOK, AppendFails
  <2>3. /\ Publish(r, 0) /\ 0 \in Nat /\ "idle" \in PCs
        /\ pc[r] = "row" /\ lock' = None /\ lock = r
    BY <1>12 DEF TypeOK, AppendFails, PCs
  <2>4. \A q \in Readers : lock' = q <=> pc'[q] \in {"row", "seal"}
    BY <2>3, PublishType, LockKept
  <2> QED
    BY <1>12, <2>2, <2>3, <2>4, <2>5, PublishType DEF TypeOK, AppendFails, corpus, caches
<1>13. ASSUME NEW r \in Readers, SealRow(r) \/ SealFails(r) PROVE TypeOK'
  <2>1. Len(rows) \in Nat
    BY LenProperties DEF TypeOK
  <2>2. PICK seq \in Nat : Publish(r, seq)
    BY <1>13, <2>1 DEF SealRow, SealFails
  <2>3. "idle" \in PCs /\ pc[r] = "seal" /\ lock' = None /\ lock = r
    BY <1>13 DEF TypeOK, SealRow, SealFails, PCs
  <2>5. seal' \in Nat /\ unsealed' \subseteq Nat
    BY <1>13, <2>1 DEF TypeOK, SealRow, SealFails
  <2>6. faults' \in Nat
    BY <1>13 DEF TypeOK, SealRow, SealFails
  <2>4. \A q \in Readers : lock' = q <=> pc'[q] \in {"row", "seal"}
    BY <2>2, <2>3, PublishType, LockKept
  <2> QED
    BY <1>13, <2>2, <2>3, <2>4, <2>5, <2>6, PublishType DEF TypeOK, SealRow, SealFails, corpus, caches
<1>14. CASE UNCHANGED vars
  BY <1>14 DEF TypeOK, vars
<1>15. ASSUME NEW w \in Writes, IndexWrite(w) PROVE TypeOK'
  BY <1>15 DEF TypeOK, IndexWrite, Landed, caches, ledger, locals
<1>16. ASSUME Rebuild PROVE TypeOK'
  <2>1. indexed' \subseteq Writes /\ base' \subseteq Writes /\ floor' \in [Readers -> Answers]
    BY <1>16 DEF TypeOK, Rebuild, Answers
  <2> QED
    BY <1>16, <2>1 DEF TypeOK, Rebuild, caches, ledger
<1> QED
  BY <1>1, <1>2, <1>3, <1>4, <1>5, <1>6, <1>7, <1>8, <1>9, <1>10, <1>11, <1>12, <1>13, <1>14,
     <1>15, <1>16
  DEF Next

\* Type correctness of the recall for any readers, writes and settings; it says
\* that the lock of the served ledger is held by whoever appends or seals.
THEOREM TypeCorrectness == Spec => []TypeOK
<1>1. Init => TypeOK
  BY RecallAssumption DEF Init, TypeOK, PCs, Stages, Answers, Entries
<1> QED
  BY <1>1, TypeStep, PTL DEF Spec

-----------------------------------------------------------------------------
(* The cache.  An answer is looked up and stored under the anchor that was *)
(* read first, and what is promised changes only when the head moves: so   *)
(* all who look up one anchor began with the same promise, and what lies   *)
(* under the current head keeps it.  A full build of the index takes the   *)
(* same writes out of every promise.                                       *)

Cached == redis \cup UNION {lru[r] : r \in Readers}

\* Where a reader stands: it has what was promised when it read its anchor.
ReaderFits(r) ==
    /\ floor[r] \subseteq Visible
    /\ anchor[r] <= head
    /\ anchor[r] = head /\ head # Genesis => floor[r] = Promised

\* Readers of one anchor began with the same writes promised, ...
ReadersAgree ==
    \A r, q \in Readers : anchor[r] = anchor[q] /\ anchor[r] # Genesis => floor[r] = floor[q]

\* ... and what is cached under it has them.
EntriesFit ==
    \A e \in Cached :
        /\ e.key <= head
        /\ e.key = head /\ head # Genesis => Promised \subseteq e.answer
        /\ \A r \in Readers : e.key = anchor[r] /\ e.key # Genesis => floor[r] \subseteq e.answer

FreshInv ==
    /\ base \subseteq indexed
    /\ \A r \in Readers : ReaderFits(r)
    /\ ReadersAgree
    /\ EntriesFit
    /\ ClosedWritesAreServed

\* Putting an entry in a cache brings in no other.
LEMMA PutFits ==
    ASSUME NEW cache, NEW e
    PROVE  Put(cache, e) \subseteq cache \cup {e}
BY DEF Put

\* A recall that ends leaves the others, and what is cached, as they were.
LEMMA PublishFresh ==
    ASSUME TypeOK, FreshInv, NEW r \in Readers, NEW seq \in Nat, Publish(r, seq),
           UNCHANGED <<corpus, caches>>
    PROVE  FreshInv'
<1>1. /\ anchor' = [anchor EXCEPT ![r] = 0] /\ floor' = [floor EXCEPT ![r] = {}]
      /\ pc' = [pc EXCEPT ![r] = "idle"] /\ answer' = [answer EXCEPT ![r] = {}]
      /\ head' = head /\ stage' = stage /\ redis' = redis /\ lru' = lru
  BY DEF Publish, Goto, corpus, caches
<1>2. Promised' = Promised /\ Visible' = Visible /\ Cached' = Cached
  BY <1>1 DEF Promised, Visible, HasIndex, Landed, Closed, Cached, corpus
<1>3. \A q \in Readers :
        \/ anchor'[q] = Genesis /\ floor'[q] = {}
        \/ anchor'[q] = anchor[q] /\ floor'[q] = floor[q] /\ answer'[q] = answer[q]
           /\ pc'[q] = pc[q]
  BY <1>1 DEF TypeOK, Genesis
<1>4. ASSUME NEW q \in Readers PROVE ReaderFits(q)'
  <2>1. head \in Nat
    BY DEF TypeOK
  <2> QED
    BY <1>1, <1>2, <1>3, <2>1 DEF ReaderFits, FreshInv, Genesis
<1>5. ReadersAgree'
  BY <1>3 DEF ReadersAgree, FreshInv
<1>6. EntriesFit'
  BY <1>1, <1>2, <1>3 DEF EntriesFit, FreshInv
<1>7. ClosedWritesAreServed'
  BY <1>3, <1>1 DEF ClosedWritesAreServed, Answered, FreshInv
<1> QED
  BY <1>4, <1>5, <1>6, <1>7 DEF FreshInv, corpus

\* A reader that goes on with its answer changes nothing about it.
LEMMA GoesOnFresh ==
    ASSUME TypeOK, FreshInv, NEW r \in Readers, NEW there, pc' = [pc EXCEPT ![r] = there],
           r \in Answered \/ there = "compute",
           UNCHANGED <<corpus, caches, anchor, answer, floor>>
    PROVE  FreshInv'
<1>1. /\ Promised' = Promised /\ Visible' = Visible /\ Cached' = Cached
      /\ UNCHANGED <<head, base, indexed>>
  BY DEF Promised, Visible, HasIndex, Landed, Closed, Cached, corpus, caches
<1>2. Answered' \subseteq Answered
  BY DEF Answered, TypeOK
<1> QED
  BY <1>1, <1>2 DEF FreshInv, ReaderFits, ReadersAgree, EntriesFit, ClosedWritesAreServed

\* Every step keeps the cache fresh.
LEMMA FreshStep ==
    ASSUME TypeOK, FreshInv, [Next]_vars
    PROVE  FreshInv'
<1>0. /\ head \in Nat /\ anchor \in [Readers -> Nat]
      /\ \A e \in Cached : e \in Entries /\ e.key \in Nat
  BY DEF TypeOK, Cached, Entries
<1>1. ASSUME NEW w \in Writes, Admit(w) \/ Land(w) \/ Close(w) \/ CloseFails(w)
      PROVE  FreshInv'
  <2>1. /\ UNCHANGED <<anchor, floor, answer, pc>>
        /\ Cached' = Cached /\ Answered' = Answered
    BY <1>1 DEF Admit, Land, Close, CloseFails, WriteStep, locals, caches, Cached, Answered
  <2>7. UNCHANGED <<setting, indexed>>
    BY <1>1 DEF Admit, Land, Close, CloseFails, WriteStep
  <2>2. Visible \subseteq Visible' /\ base' \subseteq indexed'
    <3>1. Landed \subseteq Landed'
      BY <1>1 DEF TypeOK, Admit, Land, Close, CloseFails, WriteStep, Landed
    <3>2. base' \subseteq indexed
      BY <1>1 DEF Admit, Land, Close, CloseFails, MoveHead, FreshInv
    <3> QED
      BY <2>7, <3>1, <3>2 DEF Visible, HasIndex
  <2>3. head' = head + 1 \/ (head' = head /\ Promised' = Promised)
    <3>1. CASE Admit(w) \/ Close(w)
      BY <3>1 DEF Admit, Close, MoveHead
    <3>2. CASE Land(w) \/ CloseFails(w)
      <4>1. head' = head /\ base' = base
        BY <3>2 DEF Land, CloseFails
      <4>2. Closed' = Closed
        BY <3>2 DEF TypeOK, Land, CloseFails, WriteStep, Closed
      <4> QED
        BY <2>7, <4>1, <4>2 DEF Promised, HasIndex
    <3> QED
      BY <1>1, <3>1, <3>2
  <2>4. ASSUME NEW q \in Readers PROVE ReaderFits(q)'
    BY <1>0, <2>1, <2>2, <2>3 DEF ReaderFits, FreshInv
  <2>5. ReadersAgree' /\ ClosedWritesAreServed'
    BY <2>1 DEF FreshInv, ReadersAgree, ClosedWritesAreServed
  <2>6. EntriesFit'
    <3> SUFFICES ASSUME NEW e \in Cached
                 PROVE  /\ e.key <= head'
                        /\ e.key = head' /\ head' # Genesis => Promised' \subseteq e.answer
                        /\ \A r \in Readers :
                             e.key = anchor[r] /\ e.key # Genesis => floor[r] \subseteq e.answer
      BY <2>1 DEF EntriesFit
    <3>1. e.key \in Nat /\ e.key <= head
      BY <1>0 DEF FreshInv, EntriesFit
    <3>2. e.key <= head'
      BY <1>0, <2>3, <3>1
    <3>3. e.key = head' => head' = head /\ Promised' = Promised
      BY <1>0, <2>3, <3>1
    <3> QED
      BY <3>2, <3>3 DEF FreshInv, EntriesFit
  <2> QED
    BY <2>2, <2>4, <2>5, <2>6 DEF FreshInv
<1>2. ASSUME NEW r \in Readers, Begin(r) PROVE FreshInv'
  <2>1. /\ floor' = [floor EXCEPT ![r] = Promised] /\ answer' = answer
        /\ UNCHANGED <<head, base, indexed>>
        /\ Promised' = Promised /\ Visible' = Visible /\ Cached' = Cached
    BY <1>2 DEF Begin, corpus, caches, Promised, Visible, HasIndex, Landed, Closed, Cached
  <2>0. Promised \subseteq Visible
    BY DEF FreshInv, Promised, Visible, Closed, Landed
  <2>2. PICK key \in {head, Genesis} : anchor' = [anchor EXCEPT ![r] = key]
    BY <1>2 DEF Begin
  <2>3. PICK there \in {"get", "compute"} : pc' = [pc EXCEPT ![r] = there]
    BY <1>2 DEF Begin, Goto
  <2>4. ASSUME NEW q \in Readers
        PROVE  \/ q = r /\ anchor'[q] = key /\ floor'[q] = Promised
               \/ anchor'[q] = anchor[q] /\ floor'[q] = floor[q]
    BY <2>1, <2>2 DEF TypeOK
  <2>5. ASSUME NEW q \in Readers PROVE ReaderFits(q)'
    BY <1>0, <2>0, <2>1, <2>2, <2>4 DEF ReaderFits, FreshInv, Genesis
  <2>6. ReadersAgree'
    BY <2>4 DEF ReadersAgree, ReaderFits, FreshInv
  <2>7. EntriesFit'
    BY <2>1, <2>4 DEF EntriesFit, FreshInv
  <2>8. Answered' \subseteq Answered \ {r}
    BY <2>3 DEF Answered, TypeOK
  <2>9. ClosedWritesAreServed'
    BY <2>1, <2>2, <2>8 DEF ClosedWritesAreServed, FreshInv, TypeOK, Answered
  <2> QED
    BY <2>1, <2>5, <2>6, <2>7, <2>9 DEF FreshInv
<1>3. ASSUME NEW r \in Readers, Hit(r) PROVE FreshInv'
  <2>1. PICK e \in lru[r] \cup redis :
            /\ e.key = anchor[r]
            /\ answer' = [answer EXCEPT ![r] = e.answer]
            /\ lru' = [lru EXCEPT ![r] = Put(@, e)]
    BY <1>3 DEF Hit, Hits
  <2>2. /\ UNCHANGED <<anchor, floor, head, base, indexed, redis>>
        /\ Promised' = Promised /\ Visible' = Visible
        /\ pc' = [pc EXCEPT ![r] = "attest"]
    BY <1>3 DEF Hit, Goto, corpus, Promised, Visible, HasIndex, Landed, Closed
  <2>3. Cached' \subseteq Cached /\ e \in Cached
    BY <2>1, <2>2, PutFits DEF Cached, TypeOK
  <2>4. ReadersAgree' /\ \A q \in Readers : ReaderFits(q)'
    BY <2>2 DEF FreshInv, ReadersAgree, ReaderFits
  <2>5. EntriesFit'
    BY <2>2, <2>3 DEF FreshInv, EntriesFit
  <2>6. anchor[r] # Genesis => floor[r] \subseteq e.answer
    BY <2>1, <2>3 DEF FreshInv, EntriesFit
  <2>7. ASSUME NEW q \in Answered', anchor'[q] # Genesis PROVE floor'[q] \subseteq answer'[q]
    <3>1. CASE q = r
      BY <2>1, <2>2, <2>6, <2>7, <3>1 DEF TypeOK
    <3>2. CASE q # r
      <4>1. q \in Answered /\ answer'[q] = answer[q]
        BY <2>1, <2>2, <2>7, <3>2 DEF TypeOK, Answered
      <4> QED
        BY <2>2, <2>7, <4>1 DEF FreshInv, ClosedWritesAreServed
    <3> QED
      BY <3>1, <3>2
  <2> QED
    BY <2>2, <2>4, <2>5, <2>7 DEF FreshInv, ClosedWritesAreServed
<1>4. ASSUME NEW r \in Readers, Miss(r) PROVE FreshInv'
  <2>1. pc' = [pc EXCEPT ![r] = "compute"] /\ UNCHANGED <<corpus, caches, anchor, answer, floor>>
    BY <1>4 DEF Miss, Goto, locals
  <2> QED
    BY <2>1, GoesOnFresh
<1>5. ASSUME NEW r \in Readers, Compute(r) PROVE FreshInv'
  <2>1. /\ UNCHANGED <<anchor, floor, head, base, indexed>>
        /\ Promised' = Promised /\ Visible' = Visible /\ Cached' = Cached
        /\ answer' = [answer EXCEPT ![r] = Visible]
    BY <1>5 DEF Compute, corpus, caches, Promised, Visible, HasIndex, Landed, Closed, Cached
  <2>2. PICK there : pc' = [pc EXCEPT ![r] = there]
    BY <1>5 DEF Compute, Goto
  <2>3. floor[r] \subseteq Visible
    BY DEF FreshInv, ReaderFits
  <2>4. ReadersAgree' /\ EntriesFit' /\ \A q \in Readers : ReaderFits(q)'
    BY <2>1 DEF FreshInv, ReadersAgree, EntriesFit, ReaderFits
  <2>5. ASSUME NEW q \in Answered', anchor'[q] # Genesis PROVE floor'[q] \subseteq answer'[q]
    <3>1. CASE q = r
      BY <2>1, <2>3, <3>1 DEF TypeOK
    <3>2. CASE q # r
      <4>1. q \in Answered /\ answer'[q] = answer[q]
        BY <2>1, <2>2, <2>5, <3>2 DEF TypeOK, Answered
      <4> QED
        BY <2>1, <2>5, <4>1 DEF FreshInv, ClosedWritesAreServed
    <3> QED
      BY <3>1, <3>2
  <2> QED
    BY <2>1, <2>4, <2>5 DEF FreshInv, ClosedWritesAreServed
<1>6. ASSUME NEW r \in Readers, Store(r) PROVE FreshInv'
  <2> DEFINE e == [key |-> anchor[r], answer |-> answer[r]]
  <2>1. lru' = [lru EXCEPT ![r] = Put(@, e)] /\ (redis' = Put(redis, e) \/ redis' = redis)
    BY <1>6 DEF Store
  <2>2. /\ UNCHANGED <<anchor, floor, answer, head, base, indexed>>
        /\ Promised' = Promised /\ Visible' = Visible
        /\ pc' = [pc EXCEPT ![r] = "attest"] /\ r \in Answered
    BY <1>6 DEF Store, Goto, corpus, locals, Promised, Visible, HasIndex, Landed, Closed, Answered
  <2>3. Cached' \subseteq Cached \cup {e}
    BY <2>1, PutFits DEF Cached, TypeOK
  <2>4. ReadersAgree' /\ \A q \in Readers : ReaderFits(q)'
    BY <2>2 DEF FreshInv, ReadersAgree, ReaderFits
  <2>5. anchor[r] # Genesis => floor[r] \subseteq answer[r]
    BY <2>2 DEF FreshInv, ClosedWritesAreServed
  <2>6. ASSUME NEW d \in Cached'
        PROVE  /\ d.key <= head'
               /\ d.key = head' /\ head' # Genesis => Promised' \subseteq d.answer
               /\ \A q \in Readers :
                    d.key = anchor'[q] /\ d.key # Genesis => floor'[q] \subseteq d.answer
    <3>1. CASE d \in Cached
      BY <2>2, <3>1 DEF FreshInv, EntriesFit
    <3>2. CASE d = e
      <4>1. d.key = anchor[r] /\ d.answer = answer[r]
        BY <3>2
      <4>2. ReaderFits(r) /\ \A q \in Readers :
                 anchor[r] = anchor[q] /\ anchor[r] # Genesis => floor[r] = floor[q]
        BY DEF FreshInv, ReadersAgree
      <4> QED
        BY <2>2, <2>5, <4>1, <4>2 DEF ReaderFits
    <3> QED
      BY <2>3, <3>1, <3>2
  <2>7. ClosedWritesAreServed'
    <3>1. Answered' \subseteq Answered
      BY <2>2 DEF Answered, TypeOK
    <3> QED
      BY <2>2, <3>1 DEF FreshInv, ClosedWritesAreServed
  <2> QED
    BY <2>2, <2>4, <2>6, <2>7 DEF FreshInv, EntriesFit
<1>7. ASSUME Evict PROVE FreshInv'
  <2>1. /\ UNCHANGED <<anchor, floor, answer, head, base, indexed, pc>>
        /\ Promised' = Promised /\ Visible' = Visible /\ Answered' = Answered
    BY <1>7 DEF Evict, corpus, locals, Promised, Visible, HasIndex, Landed, Closed, Answered
  <2>2. Cached' \subseteq Cached
    BY <1>7 DEF Evict, Cached, TypeOK
  <2> QED
    BY <2>1, <2>2 DEF FreshInv, ReaderFits, ReadersAgree, EntriesFit, ClosedWritesAreServed
<1>8. ASSUME NEW r \in Readers,
             Attest(r) \/ Link(r) \/ Unrecorded(r) \/ AppendRow(r) \/ AppendFails(r)
                 \/ SealRow(r) \/ SealFails(r)
      PROVE  FreshInv'
  <2>1. UNCHANGED <<corpus, caches>> /\ r \in Answered
    BY <1>8 DEF Attest, Link, Unrecorded, AppendRow, AppendFails, SealRow, SealFails, Answered
  <2>2. Len(rows) \in Nat /\ 0 \in Nat
    BY LenProperties DEF TypeOK
  <2>3. \/ \E seq \in Nat : Publish(r, seq)
        \/ /\ \E there : pc' = [pc EXCEPT ![r] = there]
           /\ UNCHANGED <<anchor, answer, floor>>
    BY <1>8, <2>2 DEF Attest, Link, Unrecorded, AppendRow, AppendFails, SealRow, SealFails,
                     Goto, locals
  <2> QED
    BY <2>1, <2>3, PublishFresh, GoesOnFresh
<1>9. CASE UNCHANGED vars
  <2>1. /\ UNCHANGED <<anchor, floor, answer, head, base, indexed, pc>>
        /\ Promised' = Promised /\ Visible' = Visible /\ Cached' = Cached
        /\ Answered' = Answered
    BY <1>9 DEF vars, Promised, Visible, HasIndex, Landed, Closed, Cached, Answered
  <2> QED
    BY <2>1 DEF FreshInv, ReaderFits, ReadersAgree, EntriesFit, ClosedWritesAreServed
<1>10. ASSUME NEW w \in Writes, IndexWrite(w) PROVE FreshInv'
  <2>1. /\ UNCHANGED <<anchor, floor, answer, head, base, pc>>
        /\ Promised' = Promised /\ Cached' = Cached /\ Answered' = Answered
    BY <1>10 DEF IndexWrite, caches, locals, Promised, HasIndex, Closed, Cached, Answered
  <2>2. Visible \subseteq Visible' /\ indexed \subseteq indexed'
    BY <1>10 DEF IndexWrite, Visible, HasIndex
  <2> QED
    BY <2>1, <2>2 DEF FreshInv, ReaderFits, ReadersAgree, EntriesFit, ClosedWritesAreServed
<1>11. ASSUME Rebuild PROVE FreshInv'
  <2>1. PICK kept \in SUBSET indexed :
            /\ indexed' = kept /\ base' = base \cap kept
            /\ floor' = [r \in Readers |-> floor[r] \cap kept]
    BY <1>11 DEF Rebuild
  <2>2. /\ UNCHANGED <<anchor, answer, head, pc>> /\ Cached' = Cached /\ Answered' = Answered
    BY <1>11 DEF Rebuild, caches, Cached, Answered
  <2>3. Visible = indexed /\ Visible' = kept /\ Promised = base /\ Promised' = base \cap kept
    BY <1>11, <2>1 DEF Rebuild, Visible, Promised, HasIndex
  <2>4. ASSUME NEW q \in Readers PROVE ReaderFits(q)'
    <3>1. floor'[q] = floor[q] \cap kept
      BY <2>1
    <3> QED
      BY <2>2, <2>3, <3>1 DEF FreshInv, ReaderFits
  <2>5. ReadersAgree' /\ ClosedWritesAreServed'
    BY <2>1, <2>2 DEF FreshInv, ReadersAgree, ClosedWritesAreServed, Answered
  <2>6. EntriesFit'
    BY <2>1, <2>2, <2>3 DEF FreshInv, EntriesFit
  <2> QED
    BY <2>1, <2>4, <2>5, <2>6 DEF FreshInv
<1> QED
  BY <1>1, <1>2, <1>3, <1>4, <1>5, <1>6, <1>7, <1>8, <1>9, <1>10, <1>11 DEF Next

\* The cache is fresh in every reachable state.
LEMMA FreshAlways == Spec => []FreshInv
<1>1. Init => FreshInv
  BY DEF Init, FreshInv, ReaderFits, ReadersAgree, EntriesFit, ClosedWritesAreServed,
         Cached, Answered, Genesis
<1> QED
  BY <1>1, TypeCorrectness, FreshStep, PTL DEF Spec

\* An answer under a real anchor has every write that was closed when its recall
\* began, wherever it came from; in a workspace with an index, every one that was
\* also indexed when the head last moved and that no full build took out since.
THEOREM ClosedWritesAreInTheAnswer == Spec => []ClosedWritesAreServed
<1>1. FreshInv => ClosedWritesAreServed
  BY DEF FreshInv
<1> QED
  BY <1>1, FreshAlways, PTL

\* What is cached under the current head has every closed write; in a workspace
\* with an index, every one that was also indexed when the head moved there.
THEOREM TheCacheIsFresh == Spec => []CachedIsFresh
<1>1. FreshInv => CachedIsFresh
  BY DEF FreshInv, EntriesFit, CachedIsFresh, Cached
<1> QED
  BY <1>1, FreshAlways, PTL

-----------------------------------------------------------------------------
(* The served ledger.  Rows are appended under its lock by whoever linked  *)
(* to the last one; a row is followed only when it can be read.            *)

\* Where the holder of the lock stands.
HolderFits(r) ==
    /\ pc[r] = "row" => link[r] = Len(rows) /\ (rows # <<>> => LastLegible)
    /\ pc[r] = "seal" =>
         /\ Len(rows) # 0
         /\ rows[Len(rows)].run = run[r] /\ rows[Len(rows)].answer = answer[r]
         /\ rows[Len(rows)].anchor = attested[r] /\ rows[Len(rows)].form = "line"

\* A torn row is the last, and any other behind the seal has lost its writer, as
\* has one that lost its newline.
SealFits ==
    /\ seal <= Len(rows)
    /\ \A i \in DOMAIN rows : rows[i].form = "part" => i = Len(rows)
    /\ \A i \in DOMAIN rows : rows[i].form = "whole" => i \in unsealed
    /\ \A i \in DOMAIN rows : seal < i /\ rows[i].form # "part" =>
         \/ i \in unsealed
         \/ i = Len(rows) /\ \E r \in Readers : pc[r] = "seal"

ServedInv ==
    /\ RowsAreLinked
    /\ \A r \in Readers : HolderFits(r)
    /\ ServedAsRecorded
    /\ SealFits

\* The rows are numbered from one on.
LEMMA RowsType ==
    ASSUME TypeOK
    PROVE  DOMAIN rows = 1..Len(rows) /\ Len(rows) \in Nat
BY LenProperties DEF TypeOK

\* A recall that ends without a row leaves the ledger's state in order.
LEMMA UnservedKeeps ==
    ASSUME TypeOK, ServedInv, NEW r \in Readers, Publish(r, 0), pc[r] # "seal",
           UNCHANGED <<rows, seal, unsealed>>
    PROVE  ServedInv'
<1>1. /\ pc' = [pc EXCEPT ![r] = "idle"] /\ served' = served
      /\ \A q \in Readers \ {r} : /\ pc'[q] = pc[q] /\ link'[q] = link[q]
                                  /\ run'[q] = run[q] /\ answer'[q] = answer[q]
                                  /\ attested'[q] = attested[q]
  BY DEF TypeOK, Publish, Goto
<1>2. pc'[r] = "idle"
  BY <1>1 DEF TypeOK
<1>3. ASSUME NEW q \in Readers PROVE HolderFits(q)'
  <2>1. CASE q = r
    BY <1>2, <2>1 DEF HolderFits
  <2>2. CASE q # r
    BY <1>1, <2>2 DEF HolderFits, ServedInv, LastLegible, Glued
  <2> QED
    BY <2>1, <2>2
<1>4. \A q \in Readers : pc[q] = "seal" => pc'[q] = "seal"
  BY <1>1, <1>2
<1>5. SealFits'
  BY <1>4 DEF ServedInv, SealFits
<1> QED
  BY <1>1, <1>3, <1>5 DEF ServedInv, RowsAreLinked, ServedAsRecorded, Glued

\* What an append does to the rows.
LEMMA RowAppended ==
    ASSUME TypeOK, NEW r \in Readers, NEW form \in Forms, rows' = Append(rows, Row(r, form))
    PROVE  /\ Len(rows') = Len(rows) + 1 /\ DOMAIN rows' = 1..(Len(rows) + 1)
           /\ \A i \in DOMAIN rows : rows'[i] = rows[i]
           /\ rows'[Len(rows) + 1] = Row(r, form)
<1>1. rows \in Seq(Rows) /\ Row(r, form) \in Rows
  BY DEF TypeOK, Row, Rows
<1>2. Append(rows, Row(r, form)) \in Seq(Rows) /\ Len(Append(rows, Row(r, form))) = Len(rows) + 1
  BY <1>1, AppendProperties
<1>3. DOMAIN rows' = 1..(Len(rows) + 1)
  BY <1>2, LenProperties
<1> QED
  BY <1>1, <1>2, <1>3, AppendProperties, RowsType

\* A row that is appended links to the one before it, and those that were
\* served are where they were.
LEMMA AppendKeeps ==
    ASSUME TypeOK, ServedInv, NEW r \in Readers, NEW form \in Forms, pc[r] = "row",
           rows' = Append(rows, Row(r, form)), served' = served,
           unsealed \subseteq unsealed'
    PROVE  /\ RowsAreLinked' /\ ServedAsRecorded'
           /\ \A i \in DOMAIN rows : rows[i].form # "part"
<1>1. link[r] = Len(rows) /\ (rows # <<>> => rows[Len(rows)].form # "part")
  BY DEF ServedInv, HolderFits, LastLegible
<1>2. /\ DOMAIN rows = 1..Len(rows) /\ Len(rows) \in Nat
      /\ DOMAIN rows' = 1..(Len(rows) + 1)
      /\ \A i \in DOMAIN rows : rows'[i] = rows[i]
      /\ rows'[Len(rows) + 1].prev = Len(rows)
  BY <1>1, RowAppended, RowsType DEF Row
<1>3. RowsAreLinked'
  <2> SUFFICES ASSUME NEW i \in 1..(Len(rows) + 1) PROVE rows'[i].prev = i - 1
    BY <1>2 DEF RowsAreLinked
  <2>1. CASE i \in DOMAIN rows
    BY <1>2, <2>1 DEF ServedInv, RowsAreLinked
  <2>2. CASE i = Len(rows) + 1
    BY <1>2, <2>2
  <2> QED
    BY <1>2, <2>1, <2>2
<1>4. ServedAsRecorded'
  <2> SUFFICES ASSUME NEW s \in served, s.seq # 0
               PROVE  /\ s.seq \in DOMAIN rows'
                      /\ rows'[s.seq].run = s.run /\ rows'[s.seq].answer = s.answer
                      /\ rows'[s.seq].anchor = s.anchor
                      /\ rows'[s.seq].form = "line"
                      /\ s.seq > 1 /\ rows'[s.seq - 1].form = "whole" => s.seq - 1 \in unsealed'
    BY DEF ServedAsRecorded, Glued
  <2>1. /\ s.seq \in DOMAIN rows
        /\ rows[s.seq].run = s.run /\ rows[s.seq].answer = s.answer
        /\ rows[s.seq].anchor = s.anchor /\ rows[s.seq].form = "line"
        /\ s.seq > 1 /\ rows[s.seq - 1].form = "whole" => s.seq - 1 \in unsealed
    BY DEF ServedInv, ServedAsRecorded, Glued
  <2>2. s.seq > 1 => s.seq - 1 \in DOMAIN rows
    BY <1>2, <2>1
  <2> QED
    BY <1>2, <2>1, <2>2
<1>5. ASSUME NEW i \in DOMAIN rows PROVE rows[i].form # "part"
  <2>1. rows # <<>>
    BY <1>2
  <2>2. rows[i].form = "part" => i = Len(rows)
    BY DEF ServedInv, SealFits
  <2> QED
    BY <1>1, <2>1, <2>2
<1> QED
  BY <1>3, <1>4, <1>5

\* Who is not at the ledger changes nothing about it.
LEMMA ElsewhereKeeps ==
    ASSUME TypeOK, ServedInv, NEW r \in Readers, NEW there,
           pc[r] \notin {"row", "seal"}, pc' = [pc EXCEPT ![r] = there],
           there \notin {"row", "seal"},
           \A q \in Readers \ {r} : /\ run'[q] = run[q] /\ answer'[q] = answer[q]
                                     /\ attested'[q] = attested[q],
           UNCHANGED <<rows, seal, link, served, unsealed>>
    PROVE  ServedInv'
<1>1. \A q \in Readers \ {r} : pc'[q] = pc[q]
  BY DEF TypeOK
<1>2. pc'[r] = there
  BY DEF TypeOK
<1>3. ASSUME NEW q \in Readers PROVE HolderFits(q)'
  <2>1. CASE q = r
    BY <1>2, <2>1 DEF HolderFits
  <2>2. CASE q # r
    BY <1>1, <2>2 DEF HolderFits, ServedInv, LastLegible, Glued
  <2> QED
    BY <2>1, <2>2
<1>4. SealFits'
  BY <1>1 DEF ServedInv, SealFits
<1> QED
  BY <1>3, <1>4 DEF ServedInv, RowsAreLinked, ServedAsRecorded, Glued

\* Every step keeps the served ledger in order.
LEMMA ServedStep ==
    ASSUME TypeOK, ServedInv, [Next]_vars
    PROVE  ServedInv'
<1>0. DOMAIN rows = 1..Len(rows) /\ Len(rows) \in Nat /\ seal \in Nat
  BY RowsType DEF TypeOK
<1>1. ASSUME \/ \E w \in Writes :
                   Admit(w) \/ Land(w) \/ Close(w) \/ CloseFails(w) \/ IndexWrite(w)
             \/ Rebuild \/ Evict
             \/ UNCHANGED vars
      PROVE  ServedInv'
  <2>1. UNCHANGED <<rows, seal, unsealed, served, pc, link, run, answer, attested>>
    BY <1>1 DEF Admit, Land, Close, CloseFails, WriteStep, IndexWrite, Rebuild, Evict,
                ledger, locals, vars
  <2> QED
    BY <2>1 DEF ServedInv, RowsAreLinked, HolderFits, ServedAsRecorded, SealFits, LastLegible,
                Glued
<1>2. ASSUME NEW r \in Readers, Begin(r) \/ Hit(r) \/ Miss(r) \/ Compute(r) \/ Store(r)
      PROVE  ServedInv'
  <2>1. /\ pc[r] \notin {"row", "seal"}
        /\ UNCHANGED <<rows, seal, link, served, unsealed>>
    BY <1>2 DEF Begin, Hit, Miss, Compute, Store, ledger, locals
  <2>2. PICK there \in {"get", "compute", "set", "attest"} : pc' = [pc EXCEPT ![r] = there]
    BY <1>2 DEF Begin, Hit, Miss, Compute, Store, Goto
  <2>3. \A q \in Readers \ {r} : /\ run'[q] = run[q] /\ answer'[q] = answer[q]
                                  /\ attested'[q] = attested[q]
    BY <1>2 DEF TypeOK, Begin, Hit, Miss, Compute, Store, locals
  <2> QED
    BY <2>1, <2>2, <2>3, ElsewhereKeeps
<1>3. ASSUME NEW r \in Readers, Attest(r) PROVE ServedInv'
  <2>1. pc[r] = "attest" /\ UNCHANGED <<rows, seal, unsealed>>
    BY <1>3 DEF Attest, ledger
  <2>2. CASE LedgerEnabled
    <3>1. /\ pc' = [pc EXCEPT ![r] = "lock"]
          /\ UNCHANGED <<run, answer, link, served>>
          /\ \A q \in Readers \ {r} : attested'[q] = attested[q]
      BY <1>3, <2>2 DEF TypeOK, Attest, Goto
    <3> QED
      BY <2>1, <3>1, ElsewhereKeeps
  <2>3. CASE ~LedgerEnabled
    <3>1. Publish(r, 0)
      BY <1>3, <2>3 DEF Attest
    <3> QED
      BY <2>1, <3>1, UnservedKeeps
  <2> QED
    BY <2>2, <2>3
<1>4. ASSUME NEW r \in Readers, Link(r) PROVE ServedInv'
  <2>1. /\ NextLink # None /\ lock = None /\ link' = [link EXCEPT ![r] = NextLink]
        /\ pc' = [pc EXCEPT ![r] = "row"]
        /\ UNCHANGED <<rows, seal, run, answer, attested, served, unsealed>>
    BY <1>4 DEF Link, Goto
  <2>2. NextLink = Len(rows) /\ (rows # <<>> => LastLegible)
    <3>1. NextLink = Len(rows)
      BY <2>1, LinkIsLast
    <3>2. rows # <<>> => Len(rows) # 0
      BY EmptySeq DEF TypeOK
    <3> QED
      BY <1>0, <2>1, <3>1, <3>2 DEF NextLink
  <2>3. \A q \in Readers : pc[q] \notin {"row", "seal"}
    BY <2>1, RecallAssumption DEF TypeOK
  <2>4. ASSUME NEW q \in Readers PROVE HolderFits(q)'
    <3>1. CASE q = r
      <4>1. link'[q] = Len(rows) /\ pc'[q] = "row"
        BY <2>1, <2>2, <3>1 DEF TypeOK
      <4> QED
        BY <2>1, <2>2, <4>1 DEF HolderFits, LastLegible, Glued
    <3>2. CASE q # r
      <4>1. pc'[q] = pc[q]
        BY <2>1, <3>2 DEF TypeOK
      <4> QED
        BY <2>3, <4>1 DEF HolderFits
    <3> QED
      BY <3>1, <3>2
  <2>5. SealFits'
    BY <2>1, <2>3 DEF ServedInv, SealFits
  <2> QED
    BY <2>1, <2>4, <2>5 DEF ServedInv, RowsAreLinked, ServedAsRecorded, Glued
<1>5. ASSUME NEW r \in Readers, Unrecorded(r) PROVE ServedInv'
  BY <1>5, UnservedKeeps DEF Unrecorded, ledger
<1>6. ASSUME NEW r \in Readers, AppendRow(r) PROVE ServedInv'
  <2>1. /\ pc[r] = "row" /\ rows' = Append(rows, Row(r, "line")) /\ "line" \in Forms
        /\ pc' = [pc EXCEPT ![r] = "seal"] /\ served' = served
        /\ UNCHANGED <<seal, unsealed, run, answer, attested, link>>
    BY <1>6 DEF AppendRow, Goto, locals, Forms
  <2>2. \A q \in Readers \ {r} : pc'[q] = pc[q] /\ pc[q] \notin {"row", "seal"}
    BY <2>1 DEF TypeOK
  <2>3. /\ Len(rows') = Len(rows) + 1 /\ DOMAIN rows' = 1..(Len(rows) + 1)
        /\ \A i \in DOMAIN rows : rows'[i] = rows[i]
        /\ rows'[Len(rows) + 1] = Row(r, "line")
    BY <2>1, RowAppended
  <2>4. RowsAreLinked' /\ ServedAsRecorded' /\ \A i \in DOMAIN rows : rows[i].form # "part"
    BY <2>1, AppendKeeps
  <2>5. pc'[r] = "seal"
    BY <2>1 DEF TypeOK
  <2>6. ASSUME NEW q \in Readers PROVE HolderFits(q)'
    <3>1. CASE q = r
      BY <1>0, <2>1, <2>3, <2>5, <3>1 DEF HolderFits, Row
    <3>2. CASE q # r
      BY <2>2, <3>2 DEF HolderFits
    <3> QED
      BY <3>1, <3>2
  <2>7. SealFits'
    <3>1. seal' <= Len(rows')
      BY <1>0, <2>1, <2>3 DEF ServedInv, SealFits
    <3>2. \A i \in DOMAIN rows' : rows'[i].form # "part"
      BY <1>0, <2>3, <2>4 DEF Row
    <3>4. \A i \in DOMAIN rows' : rows'[i].form = "whole" => i \in unsealed
      BY <1>0, <2>3 DEF Row, ServedInv, SealFits
    <3>3. ASSUME NEW i \in DOMAIN rows', seal < i
          PROVE  i \in unsealed \/ i = Len(rows')
      <4>1. CASE i \in DOMAIN rows
        BY <2>1, <2>2, <2>4, <3>3, <4>1 DEF ServedInv, SealFits
      <4>2. CASE i = Len(rows) + 1
        BY <2>3, <4>2
      <4> QED
        BY <1>0, <2>3, <4>1, <4>2
    <3> QED
      BY <2>1, <2>5, <3>1, <3>2, <3>3, <3>4 DEF SealFits
  <2> QED
    BY <2>4, <2>6, <2>7 DEF ServedInv
<1>7. ASSUME NEW r \in Readers, AppendFails(r), UNCHANGED <<rows, unsealed>> PROVE ServedInv'
  BY <1>7, UnservedKeeps DEF AppendFails
<1>9. ASSUME NEW r \in Readers, AppendFails(r), NEW form \in {"part", "whole"},
             rows' = Append(rows, Row(r, form)),
             unsealed' = IF form = "part" THEN unsealed ELSE unsealed \cup {Len(rows) + 1}
      PROVE  ServedInv'
  <2>1. /\ pc[r] = "row" /\ form \in Forms
        /\ pc' = [pc EXCEPT ![r] = "idle"] /\ served' = served
        /\ seal' = seal /\ unsealed \subseteq unsealed'
    BY <1>9 DEF AppendFails, Publish, Goto, Forms
  <2>2. \A q \in Readers \ {r} : pc'[q] = pc[q] /\ pc[q] \notin {"row", "seal"}
    BY <2>1 DEF TypeOK
  <2>3. /\ Len(rows') = Len(rows) + 1 /\ DOMAIN rows' = 1..(Len(rows) + 1)
        /\ \A i \in DOMAIN rows : rows'[i] = rows[i]
        /\ rows'[Len(rows) + 1].form = form
    BY <1>9, <2>1, RowAppended DEF Row
  <2>4. RowsAreLinked' /\ ServedAsRecorded' /\ \A i \in DOMAIN rows : rows[i].form # "part"
    BY <1>9, <2>1, AppendKeeps
  <2>5. pc'[r] = "idle"
    BY <2>1 DEF TypeOK
  <2>6. ASSUME NEW q \in Readers PROVE HolderFits(q)'
    BY <2>2, <2>5 DEF HolderFits
  <2>7. SealFits'
    <3>1. seal' <= Len(rows')
      BY <1>0, <2>1, <2>3 DEF ServedInv, SealFits
    <3>2. \A i \in DOMAIN rows' : rows'[i].form = "part" => i = Len(rows')
      BY <1>0, <2>3, <2>4
    <3>3. ASSUME NEW i \in DOMAIN rows', seal < i, rows'[i].form # "part"
          PROVE  i \in unsealed'
      <4>1. CASE i \in DOMAIN rows
        BY <2>1, <2>2, <2>3, <2>4, <3>3, <4>1 DEF ServedInv, SealFits
      <4>2. CASE i = Len(rows) + 1
        BY <1>9, <2>3, <3>3, <4>2
      <4> QED
        BY <1>0, <2>3, <4>1, <4>2
    <3>4. ASSUME NEW i \in DOMAIN rows', rows'[i].form = "whole"
          PROVE  i \in unsealed'
      <4>1. CASE i \in DOMAIN rows
        BY <2>1, <2>3, <3>4, <4>1 DEF ServedInv, SealFits
      <4>2. CASE i = Len(rows) + 1
        BY <1>9, <2>3, <3>4, <4>2
      <4> QED
        BY <1>0, <2>3, <4>1, <4>2
    <3> QED
      BY <2>1, <3>1, <3>2, <3>3, <3>4 DEF SealFits
  <2> QED
    BY <2>4, <2>6, <2>7 DEF ServedInv
<1>8. ASSUME NEW r \in Readers, SealRow(r) \/ SealFails(r) PROVE ServedInv'
  <2>1. /\ pc[r] = "seal" /\ pc' = [pc EXCEPT ![r] = "idle"] /\ rows' = rows
        /\ \/ seal' = Len(rows) /\ unsealed' = unsealed
           \/ seal' = seal /\ unsealed' = unsealed \cup {Len(rows)}
    BY <1>8 DEF SealRow, SealFails, Publish, Goto
  <2>2. \A q \in Readers : pc'[q] \notin {"row", "seal"}
    <3>1. lock = r
      BY <2>1 DEF TypeOK
    <3> QED
      BY <2>1, <3>1 DEF TypeOK
  <2>3. ServedAsRecorded'
    <3>1. /\ Len(rows) # 0
          /\ rows[Len(rows)].run = run[r] /\ rows[Len(rows)].answer = answer[r]
          /\ rows[Len(rows)].anchor = attested[r] /\ rows[Len(rows)].form = "line"
      BY <2>1 DEF ServedInv, HolderFits
    <3>2. \A s \in served' \ served :
            s = [run |-> run[r], answer |-> answer[r], anchor |-> attested[r],
                 seq |-> Len(rows)]
      BY <1>8 DEF SealRow, SealFails, Publish
    <3>3. Len(rows) \in DOMAIN rows /\ unsealed \subseteq unsealed'
      BY <1>0, <2>1, <3>1
    <3>4. Glued(Len(rows)) => Len(rows) - 1 \in unsealed
      BY <1>0 DEF Glued, ServedInv, SealFits
    <3>5. \A i : Glued(i)' = Glued(i)
      BY <2>1 DEF Glued
    <3> QED
      BY <2>1, <3>1, <3>2, <3>3, <3>4, <3>5 DEF ServedInv, ServedAsRecorded
  <2>4. SealFits'
    <3>1. seal' <= Len(rows')
      BY <1>0, <2>1 DEF ServedInv, SealFits
    <3>2. ASSUME NEW i \in DOMAIN rows, seal' < i, rows[i].form # "part"
          PROVE  i \in unsealed'
      <4>1. CASE seal' = Len(rows)
        BY <1>0, <3>2, <4>1
      <4>2. CASE seal' = seal /\ unsealed' = unsealed \cup {Len(rows)}
        BY <3>2, <4>2 DEF ServedInv, SealFits
      <4> QED
        BY <2>1, <4>1, <4>2
    <3> QED
      BY <2>1, <3>1, <3>2 DEF ServedInv, SealFits
  <2> QED
    BY <2>1, <2>2, <2>3, <2>4 DEF ServedInv, RowsAreLinked, HolderFits
<1> QED
  BY <1>1, <1>2, <1>3, <1>4, <1>5, <1>6, <1>7, <1>8, <1>9 DEF Next, AppendFails

\* The served ledger is in order in every reachable state.
LEMMA ServedAlways == Spec => []ServedInv
<1>1. Init => ServedInv
  <2> SUFFICES ASSUME Init PROVE ServedInv
    OBVIOUS
  <2>1. Len(rows) = 0 /\ DOMAIN rows = {} /\ seal = 0 /\ served = {}
    BY DEF Init
  <2>2. \A r \in Readers : pc[r] = "idle"
    BY DEF Init
  <2> QED
    BY <2>1, <2>2 DEF ServedInv, RowsAreLinked, HolderFits, ServedAsRecorded, SealFits
<1> QED
  BY <1>1, TypeCorrectness, ServedStep, PTL DEF Spec

\* The rows of the served ledger link one to the next.
THEOREM TheRowsAreLinked == Spec => []RowsAreLinked
<1>1. ServedInv => RowsAreLinked
  BY DEF ServedInv
<1> QED
  BY <1>1, ServedAlways, PTL

\* A recall that was published with a row number is that row, whole and in a line
\* of its own, unless it was put on the line of one that had lost its newline.
THEOREM ServedIsRecorded == Spec => []ServedAsRecorded
<1>1. ServedInv => ServedAsRecorded
  BY DEF ServedInv
<1> QED
  BY <1>1, ServedAlways, PTL

\* The served ledger refuses to go on only behind a torn row or one glued to a row
\* without its newline, behind a first row that was never sealed, or behind two in
\* a row that were not.
THEOREM WedgesAreExplained == Spec => []WedgeIsExplained
<1>1. TypeOK /\ ServedInv => WedgeIsExplained
  <2> SUFFICES ASSUME TypeOK, ServedInv, lock = None, NextLink = None,
                      rows[Len(rows)].form # "part", ~Glued(Len(rows))
               PROVE  \/ rows # <<>> /\ seal = 0 /\ 1 \in unsealed
                      \/ {Len(rows) - 1, Len(rows)} \subseteq unsealed
    BY DEF WedgeIsExplained
  <2> DEFINE n == Len(rows)
  <2>1. DOMAIN rows = 1..n /\ n \in Nat /\ seal \in Nat /\ seal <= n
    BY RowsType DEF TypeOK, ServedInv, SealFits
  <2>2. None \notin Nat /\ None \notin Readers
    BY RecallAssumption
  <2>3. n > 0 /\ seal # n /\ (seal = 0 \/ rows[n].prev # seal)
    BY <2>1, <2>2 DEF NextLink, LastLegible
  <2>4. rows[n].prev = n - 1
    BY <2>1, <2>3 DEF ServedInv, RowsAreLinked
  <2>5. \A i \in 1..n : rows[i].form # "part"
    BY <2>1 DEF ServedInv, SealFits
  <2>6. \A r \in Readers : pc[r] # "seal"
    BY <2>2 DEF TypeOK
  <2>7. \A i \in 1..n : seal < i => i \in unsealed
    BY <2>1, <2>5, <2>6 DEF ServedInv, SealFits
  <2>8. CASE seal = 0
    <3>1. 1 \in unsealed /\ rows # <<>>
      BY <2>1, <2>3, <2>7, <2>8
    <3> QED
      BY <2>8, <3>1
  <2>9. CASE seal # 0
    <3>0. seal # n /\ seal # n - 1
      BY <2>3, <2>4, <2>9
    <3> HIDE DEF n
    <3>1. seal < n - 1
      BY <2>1, <3>0
    <3>2. n - 1 \in unsealed /\ n \in unsealed
      BY <2>1, <2>7, <3>1
    <3> QED
      BY <3>2 DEF n
  <2> QED
    BY <2>8, <2>9
<1> QED
  BY <1>1, TypeCorrectness, ServedAlways, PTL
=============================================================================
