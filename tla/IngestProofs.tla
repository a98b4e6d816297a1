---------------------------- MODULE IngestProofs ----------------------------
(***************************************************************************)
(* Proofs about Ingest for any handlers, events, bounds and faults.  A     *)
(* failed append may leave a line or part of one here, never a record that *)
(* lacks only its newline.                                                 *)
(***************************************************************************)
EXTENDS Ingest, FiniteSetTheorems, SequenceTheorems, TLAPS

\* What is in a log is a line or part of one.
Plain(w) == \A i \in DOMAIN w : w[i].form \in {"line", "part"}

\* The records replay() returns are numbered from one on, without a gap.
Ranked(w) ==
    /\ \A i \in Read(w) : Rank(w, i) \in 1..Count(w)
    /\ \A i, j \in Read(w) : Rank(w, i) = Rank(w, j) => i = j
    /\ \A k \in 1..Count(w) : \E i \in Read(w) : Rank(w, i) = k

\* There are finitely many records to read.
LEMMA ReadIsFinite ==
    ASSUME NEW w \in Seq(Lines)
    PROVE  /\ DOMAIN w = 1..Len(w) /\ Len(w) \in Nat
           /\ IsFiniteSet(Read(w)) /\ Count(w) \in Nat
<1>1. DOMAIN w = 1..Len(w) /\ Len(w) \in Nat
  BY LenProperties
<1>2. IsFiniteSet(1..Len(w))
  BY <1>1, FS_Interval
<1>3. Read(w) \subseteq 1..Len(w)
  BY <1>1 DEF Read
<1>4. IsFiniteSet(Read(w))
  BY <1>2, <1>3, FS_Subset
<1>5. QED
  BY <1>1, <1>4, FS_CardinalityType DEF Count

\* The number of a record names it.
LEMMA NthIs ==
    ASSUME NEW w \in Seq(Lines), Ranked(w), NEW i \in Read(w)
    PROVE  Nth(w, Rank(w, i)) = w[i].event
<1> DEFINE c == CHOOSE j \in Read(w) : Rank(w, j) = Rank(w, i)
<1>1. c \in Read(w) /\ Rank(w, c) = Rank(w, i)
  OBVIOUS
<1>2. c = i
  BY <1>1 DEF Ranked
<1>3. QED
  BY <1>2 DEF Nth

\* Every number up to the last is an event's.
LEMMA NthType ==
    ASSUME NEW w \in Seq(Lines), Ranked(w), NEW k \in 1..Count(w)
    PROVE  Nth(w, k) \in Events
<1>1. PICK i \in Read(w) : Rank(w, i) = k
  BY DEF Ranked
<1>2. w[i] \in Lines
  BY ElementOfSeq, ReadIsFinite DEF Read
<1>3. QED
  BY <1>1, <1>2, NthIs DEF Lines

\* Appending keeps the records that can be read, and adds at most itself.
LEMMA ReadGrows ==
    ASSUME NEW w \in Seq(Lines), Plain(w), NEW l \in Lines, NEW v, v = Append(w, l)
    PROVE  /\ v \in Seq(Lines) /\ Len(v) = Len(w) + 1 /\ DOMAIN v = 1..(Len(w) + 1)
           /\ v[Len(w) + 1] = l /\ \A i \in 1..Len(w) : v[i] = w[i]
           /\ \A i \in 1..Len(w) : Legible(v, i) <=> Legible(w, i)
           /\ Read(w) \subseteq Read(v) /\ Read(v) \subseteq Read(w) \cup {Len(w) + 1}
           /\ Len(w) + 1 \notin Read(w)
<1>1. /\ Len(w) \in Nat /\ DOMAIN w = 1..Len(w)
      /\ v \in Seq(Lines) /\ Len(v) = Len(w) + 1 /\ v[Len(w) + 1] = l
      /\ \A i \in 1..Len(w) : v[i] = w[i]
      /\ DOMAIN v = 1..(Len(w) + 1)
  BY AppendProperties, LenProperties
<1>2. ASSUME NEW i \in 1..Len(w) PROVE Legible(v, i) <=> Legible(w, i)
  <2>1. i # Len(w) => i < Len(w)
    <3>1. Len(w) \in Nat /\ i \in Nat /\ i <= Len(w)
      BY <1>1
    <3>2. QED
      BY <3>1
  <2>2. v[i] = w[i] /\ (i > 1 => v[i - 1] = w[i - 1])
    BY <1>1
  <2>3. w[i].form \in {"line", "part"}
    BY <1>1 DEF Plain
  <2>4. i < Len(w) + 1 /\ Len(v) = Len(w) + 1
    BY <1>1
  <2>5. QED
    BY <2>1, <2>2, <2>3, <2>4 DEF Legible
<1>3. \A i \in 1..(Len(w) + 1) : i \in 1..Len(w) \/ i = Len(w) + 1
  BY <1>1
<1>4. 1..Len(w) \subseteq 1..(Len(w) + 1) /\ Len(w) + 1 \notin 1..Len(w)
  BY <1>1
<1>5. QED
  BY <1>1, <1>2, <1>3, <1>4 DEF Read

\* It keeps their numbers, too, and what they name.
LEMMA LogGrows ==
    ASSUME NEW w \in Seq(Lines), Plain(w), Ranked(w),
           NEW l \in Lines, l.form \in {"line", "part"}, NEW v, v = Append(w, l)
    PROVE  /\ v \in Seq(Lines) /\ Plain(v) /\ Ranked(v)
           /\ Count(v) \in Nat /\ Count(w) <= Count(v)
           /\ \A k \in 1..Count(w) : Nth(v, k) = Nth(w, k)
           /\ Read(w) \subseteq Read(v)
<1> DEFINE n == Len(w)
<1>1. /\ n \in Nat /\ DOMAIN w = 1..n /\ DOMAIN v = 1..(n + 1)
      /\ v \in Seq(Lines) /\ v[n + 1] = l /\ \A i \in 1..n : v[i] = w[i]
  BY ReadGrows, ReadIsFinite
<1>2. Plain(v)
  BY <1>1 DEF Plain
<1>3. /\ \A i \in 1..n : Legible(v, i) <=> Legible(w, i)
      /\ Read(w) \subseteq Read(v) /\ Read(v) \subseteq Read(w) \cup {n + 1}
      /\ n + 1 \notin Read(w)
  BY ReadGrows
<1>4. /\ Count(w) \in Nat
      /\ Count(v) = IF n + 1 \in Read(v) THEN Count(w) + 1 ELSE Count(w)
  <2>1. IsFiniteSet(Read(w)) /\ Count(w) \in Nat
    BY ReadIsFinite
  <2>2. CASE n + 1 \in Read(v)
    <3>1. Read(v) = Read(w) \cup {n + 1}
      BY <1>3, <2>2
    <3>2. QED
      BY <1>3, <2>1, <2>2, <3>1, FS_AddElement DEF Count
  <2>3. CASE n + 1 \notin Read(v)
    <3>1. Read(v) = Read(w)
      BY <1>3, <2>3
    <3>2. QED
      BY <2>1, <2>3, <3>1 DEF Count
  <2>4. QED
    BY <2>2, <2>3
<1>5. ASSUME NEW i \in 1..n PROVE Rank(v, i) = Rank(w, i)
  <2>1. 1..i \subseteq 1..n
    BY <1>1
  <2>2. {j \in 1..i : Legible(v, j)} = {j \in 1..i : Legible(w, j)}
    BY <1>3, <2>1
  <2>3. QED
    BY <2>2 DEF Rank
<1>6. Rank(v, n + 1) = Count(v)
  BY <1>1 DEF Rank, Count, Read
<1>7. Read(w) \subseteq 1..n
  BY <1>1 DEF Read
<1>8. \A i \in Read(w) : Rank(v, i) = Rank(w, i) /\ Rank(w, i) \in 1..Count(w)
  BY <1>5, <1>7 DEF Ranked
<1>9. \A i \in Read(v) : Rank(v, i) \in 1..Count(v)
  <2>1. 1..Count(w) \subseteq 1..Count(v)
    BY <1>4
  <2>2. n + 1 \in Read(v) => Count(v) \in 1..Count(v)
    BY <1>4
  <2>3. QED
    BY <1>3, <1>6, <1>8, <2>1, <2>2
<1>10. \A i, j \in Read(v) : Rank(v, i) = Rank(v, j) => i = j
  <2>1. \A i, j \in Read(w) : Rank(v, i) = Rank(v, j) => i = j
    BY <1>8 DEF Ranked
  <2>2. n + 1 \in Read(v) => Count(v) \notin 1..Count(w)
    BY <1>4
  <2>3. QED
    BY <1>3, <1>6, <1>8, <2>1, <2>2
<1>11. \A k \in 1..Count(w) : \E i \in Read(w) : Rank(w, i) = k /\ Rank(v, i) = k
  BY <1>8 DEF Ranked
<1>12. \A k \in 1..Count(v) : \E i \in Read(v) : Rank(v, i) = k
  <2>1. ASSUME NEW k \in 1..Count(v), k \notin 1..Count(w)
        PROVE  n + 1 \in Read(v) /\ k = Count(v)
    BY <1>4, <2>1
  <2>2. QED
    BY <1>3, <1>6, <1>11, <2>1
<1>13. Ranked(v)
  BY <1>9, <1>10, <1>12 DEF Ranked
<1>14. ASSUME NEW k \in 1..Count(w) PROVE Nth(v, k) = Nth(w, k)
  <2>1. PICK i \in Read(w) : Rank(w, i) = k /\ Rank(v, i) = k
    BY <1>11
  <2>2. v[i] = w[i] /\ i \in Read(v)
    BY <1>1, <1>3, <1>7
  <2>3. Nth(w, k) = w[i].event
    BY <2>1, NthIs
  <2>4. Nth(v, k) = v[i].event
    BY <1>1, <1>13, <2>1, <2>2, NthIs
  <2>5. QED
    BY <2>2, <2>3, <2>4
<1>15. Count(v) \in Nat /\ Count(w) <= Count(v)
  BY <1>4
<1>16. QED
  BY <1>1, <1>2, <1>3, <1>13, <1>14, <1>15

-----------------------------------------------------------------------------
(* Types.                                                                  *)

LogIsPlain == Plain(wal) /\ Ranked(wal)

\* A drain at rest has no batch; one that writes has the events that follow
\* the checkpoint.
PassFits ==
    /\ step = "rest" => batch = <<>>
    /\ step \in {"write", "raise"} =>
         /\ checkpoint + Len(batch) <= Count(wal)
         /\ \A j \in 1..Len(batch) : batch[j] = Nth(wal, checkpoint + j)

\* An append to the log, successful or not.
Logs(e, form) ==
    /\ UNCHANGED <<checkpoint, blocks, depth, mode, step, batch, done>>
    /\ wal' = Append(wal, [event |-> e, form |-> form])
    /\ acked' = acked \/ (acked' = acked \cup {e} /\ form = "line")
    /\ \/ posted' = posted
       \/ \E h \in Handlers : posted' = [posted EXCEPT ![h] = e]
    /\ faults' \in {faults, faults + 1}

Others ==
    \/ \E h \in Handlers : Offer(h)
    \/ Start \/ Take \/ TakeNothing \/ Write \/ Advance \/ Release
    \/ WriteFails \/ Stop \/ Crash
    \/ UNCHANGED vars

\* Every step appends to the log or leaves it alone.
LEMMA LogSteps ==
    ASSUME [Next]_vars
    PROVE  \/ \E e \in Events, form \in Tears \cup {"line"} : Logs(e, form)
           \/ Others /\ wal' = wal
<1>1. ASSUME NEW h \in Handlers, NEW e \in Events, Post(h, e) PROVE Logs(e, "line")
  BY <1>1 DEF Post, Logs, pass
<1>2. ASSUME NEW h \in Handlers, NEW e \in Events, NEW form \in Tears,
             PostFails(h, e, form)
      PROVE  Logs(e, form)
  BY <1>2 DEF PostFails, Logs, pass
<1>3. Others => wal' = wal
  BY DEF Others, Offer, Start, Take, TakeNothing, Write, Advance, Release,
     WriteFails, Stop, Crash, files, vars
<1>4. ASSUME NEW h \in Handlers, NEW e \in Events,
             Post(h, e) \/ \E form \in Tears : PostFails(h, e, form)
      PROVE  \E d \in Events, form \in Tears \cup {"line"} : Logs(d, form)
  BY <1>1, <1>2, <1>4
<1>5. QED
  BY <1>3, <1>4 DEF Next, Drain, Others

\* The log stays plain.
LEMMA LogStep ==
    ASSUME wal \in Seq(Lines), LogIsPlain, [Next]_vars, "whole" \notin Tears
    PROVE  /\ wal' \in Seq(Lines) /\ LogIsPlain'
           /\ Count(wal) <= Count(wal') /\ Count(wal) \in Nat /\ Count(wal') \in Nat
           /\ \A k \in 1..Count(wal) : Nth(wal', k) = Nth(wal, k)
           /\ Read(wal) \subseteq Read(wal')
<1>1. CASE wal' = wal
  <2>1. Count(wal) \in Nat
    BY ReadIsFinite
  <2>2. QED
    BY <1>1, <2>1 DEF LogIsPlain
<1>2. ASSUME NEW e \in Events, NEW form \in Tears \cup {"line"}, Logs(e, form)
      PROVE  /\ wal' \in Seq(Lines) /\ LogIsPlain'
             /\ Count(wal) <= Count(wal') /\ Count(wal) \in Nat /\ Count(wal') \in Nat
             /\ \A k \in 1..Count(wal) : Nth(wal', k) = Nth(wal, k)
             /\ Read(wal) \subseteq Read(wal')
  <2>1. form \in {"line", "part"} /\ form \in Forms
    BY IngestAssumption DEF Forms
  <2>2. PICK l \in Lines : l = [event |-> e, form |-> form]
    BY <2>1 DEF Lines
  <2>3. l.form \in {"line", "part"}
    BY <2>1, <2>2
  <2>4. wal' = Append(wal, l)
    BY <1>2, <2>2 DEF Logs
  <2>5. Plain(wal) /\ Ranked(wal) /\ Count(wal) \in Nat
    BY ReadIsFinite DEF LogIsPlain
  <2>6. /\ wal' \in Seq(Lines) /\ Plain(wal') /\ Ranked(wal')
        /\ Count(wal') \in Nat /\ Count(wal) <= Count(wal')
        /\ \A k \in 1..Count(wal) : Nth(wal', k) = Nth(wal, k)
        /\ Read(wal) \subseteq Read(wal')
    BY <2>3, <2>4, <2>5, LogGrows
  <2>7. QED
    BY <2>5, <2>6 DEF LogIsPlain
<1>3. QED
  BY <1>1, <1>2, LogSteps

\* What pending() returns.
LEMMA PendingIs ==
    ASSUME TypeOK, LogIsPlain, NEW limit \in Nat
    PROVE  /\ Pending(limit) \in Seq(Events)
           /\ Pending(limit) # <<>> => checkpoint + Len(Pending(limit)) <= Count(wal)
           /\ \A j \in 1..Len(Pending(limit)) :
                Pending(limit)[j] = Nth(wal, checkpoint + j)
<1> DEFINE k == Least(limit, Backlog)
<1>1. Count(wal) \in Nat /\ checkpoint \in Nat
  BY ReadIsFinite DEF TypeOK
<1>2. k \in Nat /\ (k > 0 => checkpoint + k <= Count(wal))
  BY <1>1 DEF Least, Backlog
<1>3. \A i \in 1..k : Nth(wal, checkpoint + i) \in Events
  <2>1. ASSUME NEW i \in 1..k PROVE checkpoint + i \in 1..Count(wal)
    BY <1>1, <1>2
  <2>2. QED
    BY <2>1, NthType DEF TypeOK, LogIsPlain
<1>4. Pending(limit) \in [1..k -> Events]
  BY <1>3 DEF Pending
<1>5. Pending(limit) \in Seq(Events)
  BY <1>2, <1>4, SeqDef
<1>6. Len(Pending(limit)) = k
  <2>1. DOMAIN Pending(limit) = 1..k
    BY <1>4
  <2>2. DOMAIN Pending(limit) = 1..Len(Pending(limit)) /\ Len(Pending(limit)) \in Nat
    BY <1>5, LenProperties
  <2>3. QED
    BY <1>2, <2>1, <2>2
<1>7. Pending(limit) # <<>> => k > 0
  BY <1>2, <1>5, <1>6, EmptySeq
<1>8. \A j \in 1..k : Pending(limit)[j] = Nth(wal, checkpoint + j)
  BY DEF Pending
<1>9. QED
  BY <1>2, <1>5, <1>6, <1>7, <1>8

\* How a pass ends.
LEMMA EndPassType ==
    ASSUME TypeOK, NEW ok \in BOOLEAN, NEW released \in Nat, EndPass(ok, released)
    PROVE  /\ mode' \in Modes /\ depth' \in 0..Capacity
           /\ step' = "rest" /\ batch' = <<>> /\ done' = 0
           /\ posted' \in [Handlers -> Events \cup {None}]
<1>1. mode' \in Modes
  BY DEF EndPass, AfterPass, Modes
<1>2. depth' \in 0..Capacity
  <2>1. depth \in 0..Capacity /\ Capacity \in Nat
    BY IngestAssumption DEF TypeOK
  <2>2. Least(depth, released) \in 0..depth
    BY <2>1 DEF Least
  <2>3. QED
    BY <2>1, <2>2 DEF EndPass, Gone
<1>3. QED
  BY <1>1, <1>2 DEF EndPass, Gone, Idle, TypeOK

\* Every step keeps the types.
LEMMA TypeStep ==
    ASSUME TypeOK, LogIsPlain, PassFits, [Next]_vars, "whole" \notin Tears
    PROVE  TypeOK'
<1>0. wal' \in Seq(Lines) /\ Capacity \in Nat /\ MaxItems \in Nat
  BY LogStep, IngestAssumption DEF TypeOK
<1>1. ASSUME NEW e \in Events, NEW form \in Tears \cup {"line"}, Logs(e, form)
      PROVE  TypeOK'
  <2>1. posted' \in [Handlers -> Events \cup {None}]
    BY <1>1 DEF Logs, TypeOK
  <2>2. acked' \subseteq Events
    BY <1>1 DEF Logs, TypeOK
  <2>3. faults' \in Nat
    BY <1>1 DEF Logs, TypeOK
  <2>4. QED
    BY <1>0, <1>1, <2>1, <2>2, <2>3 DEF Logs, TypeOK
<1>2. ASSUME NEW h \in Handlers, Offer(h) PROVE TypeOK'
  <2>1. depth' \in 0..Capacity
    BY <1>0, <1>2 DEF Offer, Least, TypeOK
  <2>2. QED
    BY <1>0, <1>2, <2>1 DEF Offer, TypeOK, files, pass
<1>3. CASE Start
  BY <1>3 DEF Start, TypeOK, Modes, files, pass
<1>4. CASE Take
  <2>1. PICK limit \in Nat : batch' = Pending(limit)
    <3>1. Len(wal) \in Nat
      BY LenProperties DEF TypeOK
    <3>2. QED
      BY <1>0, <1>4, <3>1 DEF Take
  <2>2. batch' \in Seq(Events) /\ Len(batch') \in Nat
    BY <2>1, PendingIs, LenProperties
  <2>3. done' = 0
    <3>1. Len(batch) = 0
      BY <1>4 DEF Take, PassFits
    <3>2. QED
      BY <1>4, <3>1 DEF Take, TypeOK
  <2>4. QED
    BY <1>4, <2>2, <2>3 DEF Take, TypeOK, Steps, files
<1>5. CASE TakeNothing
  <2>1. EndPass(TRUE, 0) /\ 0 \in Nat
    BY <1>5 DEF TakeNothing
  <2>2. /\ mode' \in Modes /\ depth' \in 0..Capacity
        /\ step' = "rest" /\ batch' = <<>> /\ done' = 0
        /\ posted' \in [Handlers -> Events \cup {None}]
    BY <2>1, EndPassType
  <2>3. QED
    BY <1>5, <2>2, EmptySeq DEF TakeNothing, TypeOK, Steps, files
<1>6. CASE Write
  <2>1. Len(batch) \in Nat
    BY LenProperties DEF TypeOK
  <2>2. done' \in 0..Len(batch')
    BY <1>6, <2>1 DEF Write, TypeOK
  <2>3. blocks' \subseteq Events
    <3>1. done + 1 \in 1..Len(batch)
      BY <1>6, <2>1 DEF Write, TypeOK
    <3>2. batch[done + 1] \in Events
      BY <3>1, ElementOfSeq DEF TypeOK
    <3>3. QED
      BY <1>6, <3>2 DEF Write, TypeOK
  <2>4. QED
    BY <1>6, <2>2, <2>3 DEF Write, TypeOK
<1>7. CASE WriteFails
  <2>1. faults' \in Nat
    BY <1>7 DEF WriteFails, TypeOK
  <2>2. QED
    BY <1>7, <2>1 DEF WriteFails, TypeOK, Steps, files
<1>8. CASE Advance
  <2>1. checkpoint' \in Nat
    <3>1. done \in Nat
      BY LenProperties DEF TypeOK
    <3>2. QED
      BY <1>8, <3>1 DEF Advance, TypeOK
  <2>2. CASE step = "raise"
    <3>1. EndPass(FALSE, 0) /\ 0 \in Nat
      BY <1>8, <2>2 DEF Advance
    <3>2. /\ mode' \in Modes /\ depth' \in 0..Capacity
          /\ step' = "rest" /\ batch' = <<>> /\ done' = 0
          /\ posted' \in [Handlers -> Events \cup {None}]
      BY <3>1, EndPassType
    <3>3. QED
      BY <1>8, <2>1, <3>2, EmptySeq DEF Advance, TypeOK, Steps
  <2>3. CASE step # "raise"
    BY <1>8, <2>1, <2>3 DEF Advance, TypeOK, Steps
  <2>4. QED
    BY <2>2, <2>3
<1>9. CASE Release
  <2>1. EndPass(TRUE, done) /\ done \in Nat
    <3>1. Len(batch) \in Nat
      BY LenProperties DEF TypeOK
    <3>2. done \in Nat
      BY <3>1 DEF TypeOK
    <3>3. EndPass(TRUE, done)
      BY <1>9 DEF Release
    <3>4. QED
      BY <3>2, <3>3
  <2>2. /\ mode' \in Modes /\ depth' \in 0..Capacity
        /\ step' = "rest" /\ batch' = <<>> /\ done' = 0
        /\ posted' \in [Handlers -> Events \cup {None}]
    BY <2>1, EndPassType
  <2>3. QED
    BY <1>9, <2>2, EmptySeq DEF Release, TypeOK, Steps, files
<1>10. CASE Stop
  <2>1. faults' \in Nat
    BY <1>10 DEF Stop, TypeOK
  <2>2. QED
    BY <1>10, <2>1 DEF Stop, TypeOK, Modes, files, pass
<1>11. CASE Crash
  <2>1. faults' \in Nat /\ depth' \in 0..Capacity
    BY <1>0, <1>11 DEF Crash, Gone, TypeOK
  <2>2. posted' \in [Handlers -> Events \cup {None}]
    BY <1>11 DEF Crash, Gone, Idle
  <2>3. QED
    BY <1>11, <2>1, <2>2, EmptySeq DEF Crash, Gone, TypeOK, Modes, Steps, files
<1>12. CASE UNCHANGED vars
  BY <1>12 DEF vars, TypeOK
<1>13. QED
  BY <1>1, <1>2, <1>3, <1>4, <1>5, <1>6, <1>7, <1>8, <1>9, <1>10, <1>11, <1>12,
     LogSteps DEF Others

\* Every step keeps the batch at the checkpoint.
LEMMA PassStep ==
    ASSUME TypeOK, LogIsPlain, PassFits, [Next]_vars, "whole" \notin Tears
    PROVE  PassFits'
<1>0. /\ Count(wal) <= Count(wal') /\ Count(wal) \in Nat /\ Count(wal') \in Nat
      /\ \A k \in 1..Count(wal) : Nth(wal', k) = Nth(wal, k)
      /\ checkpoint \in Nat /\ Len(batch) \in Nat
  BY LogStep, LenProperties DEF TypeOK
<1>1. ASSUME UNCHANGED <<checkpoint, batch>>, step' # "rest" \/ step = "rest",
             step' \in {"write", "raise"} => step \in {"write", "raise"}
      PROVE  PassFits'
  <2>1. ASSUME step \in {"write", "raise"}
        PROVE  /\ checkpoint + Len(batch) <= Count(wal')
               /\ \A j \in 1..Len(batch) : batch[j] = Nth(wal', checkpoint + j)
    <3>1. checkpoint + Len(batch) <= Count(wal)
      BY <2>1 DEF PassFits
    <3>2. \A j \in 1..Len(batch) : checkpoint + j \in 1..Count(wal)
      BY <1>0, <3>1
    <3>3. QED
      BY <1>0, <2>1, <3>1, <3>2 DEF PassFits
  <2>2. QED
    BY <1>1, <2>1 DEF PassFits
<1>2. ASSUME NEW e \in Events, NEW form \in Tears \cup {"line"}, Logs(e, form)
      PROVE  PassFits'
  BY <1>1, <1>2 DEF Logs
<1>3. ASSUME NEW h \in Handlers, Offer(h) PROVE PassFits'
  BY <1>1, <1>3 DEF Offer, files, pass
<1>4. CASE Start \/ Write \/ WriteFails \/ Stop \/ UNCHANGED vars
  BY <1>1, <1>4 DEF Start, Write, WriteFails, Stop, vars, files, pass
<1>5. CASE Take
  <2>1. PICK limit \in Nat : batch' = Pending(limit)
    <3>1. Len(wal) \in Nat /\ MaxItems \in Nat
      BY LenProperties, IngestAssumption DEF TypeOK
    <3>2. QED
      BY <1>5, <3>1 DEF Take
  <2>2. wal' = wal /\ checkpoint' = checkpoint /\ step' = "write" /\ batch' # <<>>
    BY <1>5 DEF Take, files
  <2>3. QED
    BY <2>1, <2>2, PendingIs DEF PassFits
<1>6. ASSUME NEW ok \in BOOLEAN, NEW released \in Nat, EndPass(ok, released)
      PROVE  PassFits'
  BY <1>6, EndPassType DEF PassFits
<1>7. CASE TakeNothing
  BY <1>6, <1>7 DEF TakeNothing
<1>8. CASE Advance
  BY <1>6, <1>8 DEF Advance, PassFits
<1>9. CASE Release
  <2>1. done \in Nat
    BY <1>0 DEF TypeOK
  <2>2. QED
    BY <1>6, <1>9, <2>1 DEF Release
<1>10. CASE Crash
  BY <1>10 DEF Crash, Gone, PassFits
<1>11. QED
  BY <1>2, <1>3, <1>4, <1>5, <1>7, <1>8, <1>9, <1>10, LogSteps DEF Others

-----------------------------------------------------------------------------
(* What is applied.                                                        *)

\* How many events of the pass are blocks and not yet behind the checkpoint.
Finished == IF step \in {"write", "raise"} THEN done ELSE 0

\* The blocks are those of the first k records.
AppliedTo(k) == blocks = {Nth(wal, i) : i \in 1..k} \ Textless

Applied == \E k \in Nat : k <= Count(wal) /\ checkpoint + Finished <= k /\ AppliedTo(k)

\* A checkpoint and a batch that end within the log stay within it with a shorter batch.
LEMMA SumBound ==
    \A a, b, c, d, n \in Nat : a + b <= c + d /\ c + d <= n => a + b <= n
OBVIOUS

\* Every step applies nothing or the next record.
LEMMA AppliedStep ==
    ASSUME TypeOK, LogIsPlain, PassFits, Applied, [Next]_vars, "whole" \notin Tears
    PROVE  Applied'
<1>0. /\ Count(wal) <= Count(wal') /\ Count(wal) \in Nat /\ Count(wal') \in Nat
      /\ \A k \in 1..Count(wal) : Nth(wal', k) = Nth(wal, k)
      /\ checkpoint \in Nat /\ Len(batch) \in Nat /\ done \in 0..Len(batch)
  BY LogStep, LenProperties DEF TypeOK
<1>1. PICK k \in Nat : k <= Count(wal) /\ checkpoint + Finished <= k /\ AppliedTo(k)
  BY DEF Applied
<1>2. Finished \in Nat
  BY <1>0 DEF Finished
<1>3. ASSUME blocks' = blocks, checkpoint' + Finished' <= checkpoint + Finished,
             checkpoint' \in Nat, Finished' \in Nat
      PROVE  Applied'
  <2>1. \A i \in 1..k : Nth(wal', i) = Nth(wal, i)
    BY <1>0, <1>1
  <2>2. AppliedTo(k)'
    BY <1>1, <1>3, <2>1 DEF AppliedTo
  <2>3. k <= Count(wal')
    BY <1>0, <1>1
  <2>4. checkpoint' + Finished' <= k
    <3>1. checkpoint + Finished <= k
      BY <1>1
    <3>2. checkpoint \in Nat /\ Finished \in Nat /\ checkpoint' \in Nat /\ Finished' \in Nat
      BY <1>0, <1>2, <1>3
    <3>3. checkpoint' + Finished' <= checkpoint + Finished
      BY <1>3
    <3>4. QED
      BY <3>1, <3>2, <3>3, SumBound
  <2>5. QED
    BY <2>2, <2>3, <2>4 DEF Applied
<1>4. ASSUME blocks' = blocks, checkpoint' = checkpoint, Finished' = Finished
      PROVE  Applied'
  BY <1>0, <1>2, <1>3, <1>4
<1>5. ASSUME blocks' = blocks, checkpoint' = checkpoint, Finished' = 0
      PROVE  Applied'
  BY <1>0, <1>2, <1>3, <1>5
<1>6. ASSUME NEW e \in Events, NEW form \in Tears \cup {"line"}, Logs(e, form)
      PROVE  Applied'
  BY <1>4, <1>6 DEF Logs, Finished
<1>7. ASSUME NEW h \in Handlers, Offer(h) PROVE Applied'
  BY <1>4, <1>7 DEF Offer, files, pass, Finished
<1>8. CASE Start \/ WriteFails \/ Stop \/ UNCHANGED vars
  BY <1>4, <1>8 DEF Start, WriteFails, Stop, vars, files, pass, Finished
<1>9. CASE Take
  <2>1. Len(batch) = 0
    BY <1>9 DEF Take, PassFits
  <2>2. done' = 0
    BY <1>0, <1>9, <2>1 DEF Take
  <2>3. QED
    BY <1>5, <1>9, <2>2 DEF Take, files, Finished
<1>10. ASSUME NEW ok \in BOOLEAN, NEW released \in Nat, EndPass(ok, released)
       PROVE  Finished' = 0
  BY <1>10, EndPassType DEF Finished
<1>11. CASE TakeNothing
  BY <1>5, <1>10, <1>11 DEF TakeNothing, files
<1>12. CASE Release
  <2>1. Finished' = 0
    <3>1. done \in Nat
      BY <1>0
    <3>2. EndPass(TRUE, done)
      BY <1>12 DEF Release
    <3>3. QED
      BY <1>10, <3>1, <3>2
  <2>2. QED
    BY <1>5, <1>12, <2>1 DEF Release, files
<1>13. CASE Crash
  BY <1>5, <1>13 DEF Crash, Gone, files, Finished
<1>14. CASE Advance
  <2>1. Finished = done /\ checkpoint' = checkpoint + done /\ blocks' = blocks
    BY <1>14 DEF Advance, Finished
  <2>2. Finished' = 0
    <3>1. CASE step = "raise"
      BY <1>10, <1>14, <3>1 DEF Advance
    <3>2. CASE step # "raise"
      BY <1>14, <3>2 DEF Advance, Finished
    <3>3. QED
      BY <3>1, <3>2
  <2>3. QED
    BY <1>0, <1>3, <2>1, <2>2
<1>15. CASE Write
  <2>1. /\ Finished = done /\ Finished' = done + 1 /\ checkpoint' = checkpoint
        /\ wal' = wal /\ done < Len(batch)
        /\ blocks' = blocks \cup ({batch[done + 1]} \ Textless)
    BY <1>15 DEF Write, Finished
  <2>2. checkpoint + done + 1 <= Count(wal)
    BY <1>0, <1>15, <2>1 DEF Write, PassFits
  <2>3. batch[done + 1] = Nth(wal, checkpoint + done + 1)
    <3>1. done + 1 \in 1..Len(batch) /\ checkpoint + (done + 1) = checkpoint + done + 1
      BY <1>0, <2>1
    <3>2. QED
      BY <1>15, <3>1 DEF Write, PassFits
  <2>4. CASE checkpoint + done + 1 <= k
    <3>1. checkpoint + done + 1 \in 1..k
      BY <1>0, <2>4
    <3>2. blocks' = blocks
      BY <1>1, <2>1, <2>3, <3>1 DEF AppliedTo
    <3>3. AppliedTo(k)'
      BY <1>1, <2>1, <3>2 DEF AppliedTo
    <3>4. checkpoint' + Finished' <= k
      BY <1>0, <2>1, <2>4
    <3>5. QED
      BY <1>1, <2>1, <3>3, <3>4 DEF Applied
  <2>5. CASE ~(checkpoint + done + 1 <= k)
    <3>1. k + 1 = checkpoint + done + 1
      BY <1>0, <1>1, <2>1, <2>5
    <3>2. 1..(k + 1) = 1..k \cup {k + 1} /\ k + 1 \in Nat
      BY <1>1
    <3>3. AppliedTo(k + 1)'
      BY <1>1, <2>1, <2>3, <3>1, <3>2 DEF AppliedTo
    <3>4. k + 1 <= Count(wal') /\ checkpoint' + Finished' <= k + 1
      BY <1>0, <2>1, <2>2, <3>1
    <3>5. QED
      BY <3>2, <3>3, <3>4 DEF Applied
  <2>6. QED
    BY <2>4, <2>5
<1>16. QED
  BY <1>6, <1>7, <1>8, <1>9, <1>11, <1>12, <1>13, <1>14, <1>15, LogSteps DEF Others

\* The inductive invariant.
DrainInv == TypeOK /\ LogIsPlain /\ PassFits /\ Applied

\* The drain's invariant holds in every reachable state where no append ends
\* between a record and its newline.
LEMMA DrainInvAlways ==
    ASSUME "whole" \notin Tears
    PROVE  Spec => []DrainInv
<1>1. Init => DrainInv
  <2> SUFFICES ASSUME Init PROVE DrainInv
    OBVIOUS
  <2>1. wal = <<>> /\ batch = <<>> /\ wal \in Seq(Lines) /\ batch \in Seq(Events)
        /\ Len(batch) = 0 /\ DOMAIN wal = {}
    BY EmptySeq DEF Init
  <2>2. Read(wal) = {} /\ Count(wal) = 0
    BY <2>1, FS_EmptySet DEF Read, Count
  <2>3. TypeOK
    BY <2>1, IngestAssumption DEF Init, TypeOK, Modes, Steps, Idle
  <2>4. LogIsPlain
    BY <2>1, <2>2 DEF LogIsPlain, Plain, Ranked
  <2>5. PassFits
    BY <2>1 DEF Init, PassFits
  <2>6. Applied
    <3>1. 1..0 = {} /\ checkpoint + Finished = 0
      BY DEF Init, Finished
    <3>2. AppliedTo(0)
      BY <3>1 DEF Init, AppliedTo
    <3>3. QED
      BY <2>2, <3>1, <3>2 DEF Applied
  <2>7. QED
    BY <2>3, <2>4, <2>5, <2>6 DEF DrainInv
<1>2. DrainInv /\ [Next]_vars => DrainInv'
  <2> SUFFICES ASSUME DrainInv, [Next]_vars PROVE DrainInv'
    OBVIOUS
  <2>1. TypeOK /\ LogIsPlain /\ PassFits /\ Applied /\ wal \in Seq(Lines)
    BY DEF DrainInv, TypeOK
  <2>2. TypeOK' /\ LogIsPlain' /\ PassFits' /\ Applied'
    BY <2>1, TypeStep, LogStep, PassStep, AppliedStep
  <2>3. QED
    BY <2>2 DEF DrainInv
<1>3. QED
  BY <1>1, <1>2, PTL DEF Spec

\* Type correctness of the ingest door for any handlers, events and bounds, when
\* no append loses just its newline.
THEOREM TypeCorrectness ==
    ASSUME "whole" \notin Tears
    PROVE  Spec => []TypeOK
<1>1. DrainInv => TypeOK
  BY DEF DrainInv
<1>2. QED
  BY <1>1, DrainInvAlways, PTL

\* The drain leaves no gap and never runs ahead, whoever dies when.
THEOREM NoGap ==
    ASSUME "whole" \notin Tears
    PROVE  Spec => []AppliedIsAPrefix
<1>1. DrainInv => AppliedIsAPrefix
  <2> SUFFICES ASSUME DrainInv PROVE AppliedIsAPrefix
    OBVIOUS
  <2>1. PICK k \in Nat : k <= Count(wal) /\ checkpoint + Finished <= k /\ AppliedTo(k)
    BY DEF DrainInv, Applied
  <2>2. checkpoint \in Nat /\ Count(wal) \in Nat /\ Finished \in Nat
    BY ReadIsFinite, LenProperties DEF DrainInv, TypeOK, Finished
  <2>3. k \in checkpoint..Count(wal)
    BY <2>1, <2>2
  <2>4. QED
    BY <2>1, <2>3 DEF AppliedTo, AppliedIsAPrefix
<1>2. QED
  BY <1>1, DrainInvAlways, PTL

\* What was acknowledged is in the log as a line.
AcksAreLogged ==
    \A e \in acked : \E i \in DOMAIN wal : wal[i].event = e /\ wal[i].form = "line"

\* Every step keeps the acknowledged events in the log (WriteAheadLog.append).
LEMMA AcksStep ==
    ASSUME wal \in Seq(Lines), AcksAreLogged, [Next]_vars
    PROVE  AcksAreLogged'
<1>1. ASSUME NEW e \in Events, NEW form \in Tears \cup {"line"}, Logs(e, form)
      PROVE  AcksAreLogged'
  <2>1. PICK l \in Lines : l = [event |-> e, form |-> form]
    BY IngestAssumption DEF Lines, Forms
  <2>2. /\ wal' = Append(wal, l)
        /\ acked' = acked \/ (acked' = acked \cup {e} /\ form = "line")
    BY <1>1, <2>1 DEF Logs
  <2>3. /\ Len(wal) \in Nat /\ DOMAIN wal = 1..Len(wal)
        /\ DOMAIN wal' = 1..(Len(wal) + 1) /\ wal'[Len(wal) + 1] = l
        /\ \A i \in 1..Len(wal) : wal'[i] = wal[i]
    BY <2>2, AppendProperties, LenProperties
  <2>4. /\ 1..Len(wal) \subseteq 1..(Len(wal) + 1)
        /\ Len(wal) + 1 \in 1..(Len(wal) + 1)
    BY <2>3
  <2>5. \A d \in acked' : \E i \in DOMAIN wal' :
            wal'[i].event = d /\ wal'[i].form = "line"
    BY <2>1, <2>2, <2>3, <2>4 DEF AcksAreLogged
  <2>6. QED
    BY <2>5 DEF AcksAreLogged
<1>2. CASE Others /\ wal' = wal
  <2>1. acked' = acked
    BY <1>2 DEF Others, Offer, Start, Take, TakeNothing, Write, Advance, Release,
       WriteFails, Stop, Crash, vars
  <2>2. QED
    BY <1>2, <2>1 DEF AcksAreLogged
<1>3. QED
  BY <1>1, <1>2, LogSteps

\* No kill at any point loses an event whose append has returned: it is applied,
\* or replay() returns it behind the checkpoint, or it was logged behind a torn
\* record.
THEOREM NothingIsLost ==
    ASSUME "whole" \notin Tears
    PROVE  Spec => []NothingLost
<1>1. Init => AcksAreLogged
  BY DEF Init, AcksAreLogged
<1>2. TypeOK /\ AcksAreLogged /\ [Next]_vars => AcksAreLogged'
  BY AcksStep DEF TypeOK
<1>3. DrainInv /\ AcksAreLogged => NothingLost
  <2> SUFFICES ASSUME DrainInv, AcksAreLogged, NEW e \in acked, ~Swallowed(e),
                      \A i \in Read(wal) : wal[i].event = e => ~(Rank(wal, i) > checkpoint)
               PROVE  Settled(e)
    BY DEF NothingLost
  <2>1. PICK i \in DOMAIN wal : wal[i].event = e /\ wal[i].form = "line"
    BY DEF AcksAreLogged
  <2>2. i \in Read(wal)
    BY <2>1 DEF Read, Legible, Swallowed
  <2>3. PICK k \in Nat : k <= Count(wal) /\ checkpoint + Finished <= k /\ AppliedTo(k)
    BY DEF DrainInv, Applied
  <2>4. checkpoint \in Nat /\ Count(wal) \in Nat /\ Finished \in Nat
    BY ReadIsFinite, LenProperties DEF DrainInv, TypeOK, Finished
  <2>5. Rank(wal, i) \in 1..Count(wal) /\ ~(Rank(wal, i) > checkpoint)
    BY <2>1, <2>2 DEF DrainInv, LogIsPlain, Ranked
  <2>6. Rank(wal, i) \in 1..k
    BY <2>3, <2>4, <2>5
  <2>7. Nth(wal, Rank(wal, i)) = e
    BY <2>1, <2>2, NthIs DEF DrainInv, LogIsPlain, TypeOK
  <2>8. QED
    BY <2>3, <2>6, <2>7 DEF AppliedTo, Settled
<1>4. QED
  BY <1>1, <1>2, <1>3, DrainInvAlways, TypeCorrectness, PTL DEF Spec
=============================================================================
