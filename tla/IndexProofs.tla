----------------------------- MODULE IndexProofs -----------------------------
(***************************************************************************)
(* Proofs about Index for any files, builders, recalls, edits and faults.  *)
(***************************************************************************)
EXTENDS Index, TLAPS

\* A line of the tables that concerns one file, for the statements below: its
\* status rw in blocks, n and m rows in the two search tables, its mark mk, and
\* what was odd about it.
Lines(rw, n, m, mk, od) ==
    /\ rw \in Statuses \cup {None} /\ n \in Nat /\ m \in Nat
    /\ mk \in Marks \cup {None} /\ od \subseteq Reasons

\* What a connection sees of the tables is of their types.
LEMMA ViewType ==
    ASSUME TypeOK, NEW b \in Builders, NEW f \in Files
    PROVE  /\ Lines(View(b, row, None)[f], View(b, served, 0)[f], View(b, withheld, 0)[f],
                    View(b, meta, None)[f], View(b, odd, {})[f])
           /\ View(b, row, None) \in [Files -> Statuses \cup {None}]
           /\ View(b, served, 0) \in [Files -> Nat]
           /\ View(b, withheld, 0) \in [Files -> Nat]
           /\ View(b, meta, None) \in [Files -> Marks \cup {None}]
           /\ View(b, state, None) \in [Files -> Nat \cup {None}]
           /\ View(b, odd, {}) \in [Files -> SUBSET Reasons]
<1>1. /\ View(b, row, None) \in [Files -> Statuses \cup {None}]
      /\ View(b, served, 0) \in [Files -> Nat]
      /\ View(b, withheld, 0) \in [Files -> Nat]
      /\ View(b, meta, None) \in [Files -> Marks \cup {None}]
      /\ View(b, state, None) \in [Files -> Nat \cup {None}]
      /\ View(b, odd, {}) \in [Files -> SUBSET Reasons]
  BY DEF View, TypeOK
<1>2. QED
  BY <1>1 DEF Lines

\* The ways a pass leaves the line of its file (the end of _index_file).
Outcome(b, rw, n, m, mk, od) ==
    LET f    == file[b]
        k    == IF Mark(b).admitted THEN 1 ELSE 0
        kept == (View(b, odd, {})[f] \ {"stamp", "unread"}) \cup Late(b)
    IN  \/ /\ got[b] = "absent" /\ base[b] # None
           /\ rw = None /\ n = 0 /\ m = 0 /\ mk = View(b, meta, None)[f]
           /\ od = {"left"} \cup Late(b)
        \/ /\ rw = View(b, row, None)[f] /\ n = View(b, served, 0)[f]
           /\ m = View(b, withheld, 0)[f] /\ mk = View(b, meta, None)[f]
           /\ \/ got[b] \in {"absent", "empty"} /\ base[b] = None /\ od = kept
              \/ got[b] = "unread" /\ od = kept \cup {"unread"}
              \/ got[b] \in Statuses /\ base[b] = Mark(b) /\ od = kept
        \/ /\ got[b] = "empty" /\ base[b] # None
           /\ rw = None /\ n = 0 /\ m = 0 /\ mk = None /\ od = Late(b)
        \/ /\ got[b] \in Statuses /\ base[b] = None
           /\ rw = got[b] /\ n = View(b, served, 0)[f] + k
           /\ m = View(b, withheld, 0)[f] + 1 - k
           /\ mk = Mark(b) /\ od = (View(b, odd, {})[f] \cap {"clash"}) \cup Late(b)
        \/ /\ got[b] \in Statuses /\ base[b] # None
           /\ rw = got[b] /\ n = k /\ m = 1 - k /\ mk = Mark(b) /\ od = Late(b)

\* What a commit does to the tables.
Writes(b) ==
    LET f == file[b] IN
    /\ at[b] = "write" /\ f \in Files
    /\ \A g \in Files \ {f} :
         /\ row'[g] = View(b, row, None)[g]
         /\ served'[g] = View(b, served, 0)[g]
         /\ withheld'[g] = View(b, withheld, 0)[g]
         /\ meta'[g] = View(b, meta, None)[g]
         /\ state'[g] = View(b, state, None)[g]
         /\ odd'[g] = View(b, odd, {})[g]
    /\ state'[f] = Stamp(f)
    /\ row' = [g \in Files |-> row'[g]] /\ served' = [g \in Files |-> served'[g]]
    /\ withheld' = [g \in Files |-> withheld'[g]] /\ meta' = [g \in Files |-> meta'[g]]
    /\ state' = [g \in Files |-> state'[g]] /\ odd' = [g \in Files |-> odd'[g]]
    /\ at' = [at EXCEPT ![b] = "next"] /\ todo' = [todo EXCEPT ![b] = @ \ {f}]
    /\ Over(b) /\ open' = [open EXCEPT ![b] = None]
    /\ UNCHANGED <<corpus, stamp, rel, force, cut, recall, edits, faults>>
    /\ Watch

LEMMA CommitIs ==
    ASSUME TypeOK, NEW b \in Builders, NEW rw, NEW n, NEW m, NEW mk, NEW why,
           Commit(b, rw, n, m, mk, why)
    PROVE  /\ Writes(b)
           /\ row'[file[b]] = rw /\ served'[file[b]] = n /\ withheld'[file[b]] = m
           /\ meta'[file[b]] = mk /\ odd'[file[b]] = why \cup Late(b)
<1>1. at[b] = "write" /\ file[b] \in Files
  BY DEF Commit, TypeOK
<1>2. \A g \in Files :
         /\ row'[g] = IF g = file[b] THEN rw ELSE View(b, row, None)[g]
         /\ served'[g] = IF g = file[b] THEN n ELSE View(b, served, 0)[g]
         /\ withheld'[g] = IF g = file[b] THEN m ELSE View(b, withheld, 0)[g]
         /\ meta'[g] = IF g = file[b] THEN mk ELSE View(b, meta, None)[g]
         /\ state'[g] = IF g = file[b] THEN Stamp(g) ELSE View(b, state, None)[g]
         /\ odd'[g] = IF g = file[b] THEN why \cup Late(b) ELSE View(b, odd, {})[g]
  BY <1>1, ViewType DEF Commit
<1>3. /\ row' = [g \in Files |-> row'[g]] /\ served' = [g \in Files |-> served'[g]]
      /\ withheld' = [g \in Files |-> withheld'[g]] /\ meta' = [g \in Files |-> meta'[g]]
      /\ state' = [g \in Files |-> state'[g]] /\ odd' = [g \in Files |-> odd'[g]]
  BY <1>1, ViewType DEF Commit
<1>4. QED
  BY <1>1, <1>2, <1>3 DEF Commit, Writes

\* Every pass commits one of them.
LEMMA WriteIs ==
    ASSUME TypeOK, NEW b \in Builders, Write(b)
    PROVE  /\ Writes(b)
           /\ LET f == file[b] IN
              Outcome(b, row'[f], served'[f], withheld'[f], meta'[f], odd'[f])
<1>0. {} \cup Late(b) = Late(b)
  OBVIOUS
<1>1. CASE Missing(b)
  BY <1>1, CommitIs DEF Missing, Keep, Outcome
<1>2. CASE Unread(b)
  BY <1>2, CommitIs DEF Unread, Keep, Outcome
<1>3. CASE Empty(b)
  <2>1. CASE base[b] = None
    BY <1>3, <2>1, CommitIs DEF Empty, Keep, Outcome
  <2>2. CASE base[b] # None
    BY <1>0, <1>3, <2>2, CommitIs DEF Empty, Outcome
  <2>3. QED
    BY <2>1, <2>2
<1>4. CASE New(b)
  BY <1>4, CommitIs DEF New, Insert, Outcome
<1>5. CASE Modified(b)
  <2> DEFINE k == IF Mark(b).admitted THEN 1 ELSE 0
  <2>1. Commit(b, got[b], 0 + k, 0 + 1 - k, Mark(b), {})
    BY <1>5 DEF Modified, IsModified, Insert
  <2>2. got[b] \in Statuses /\ base[b] # None
    BY <1>5 DEF Modified, IsModified
  <2>3. k \in Nat
    OBVIOUS
  <2>4. /\ Writes(b)
        /\ row'[file[b]] = got[b] /\ meta'[file[b]] = Mark(b)
        /\ served'[file[b]] = k /\ withheld'[file[b]] = 1 - k
        /\ odd'[file[b]] = Late(b)
    <3> HIDE DEF k
    <3>1. 0 + k = k /\ 0 + 1 - k = 1 - k
      BY <2>3
    <3>2. Commit(b, got[b], k, 1 - k, Mark(b), {})
      BY <2>1, <3>1
    <3>3. QED
      BY <1>0, <3>2, CommitIs
  <2>5. QED
    BY <2>2, <2>4 DEF Outcome
<1>6. CASE Unchanged(b)
  BY <1>6, CommitIs DEF Unchanged, IsModified, Keep, Outcome
<1>7. QED
  BY <1>1, <1>2, <1>3, <1>4, <1>5, <1>6 DEF Write

\* The line a pass leaves is of the types.
LEMMA LineType ==
    ASSUME TypeOK, NEW b \in Builders, Write(b)
    PROVE  LET f == file[b] IN
           Lines(row'[f], served'[f], withheld'[f], meta'[f], odd'[f])
<1> DEFINE f == file[b]
           k == IF Mark(b).admitted THEN 1 ELSE 0
<1>1. /\ f \in Files
      /\ Outcome(b, row'[f], served'[f], withheld'[f], meta'[f], odd'[f])
  BY WriteIs DEF Writes
<1>2. Lines(View(b, row, None)[f], View(b, served, 0)[f], View(b, withheld, 0)[f],
            View(b, meta, None)[f], View(b, odd, {})[f])
  BY <1>1, ViewType
<1>3. Late(b) \subseteq Reasons
  BY DEF Late, Reasons
<1>4. got[b] \in Statuses => Mark(b) \in Marks
  BY DEF Mark, Marks, TypeOK
<1>5. k \in {0, 1}
  OBVIOUS
<1> HIDE DEF k
<1>6. odd'[f] \subseteq Reasons
  BY <1>1, <1>2, <1>3 DEF Outcome, Lines, Reasons
<1>7. served'[f] \in Nat /\ withheld'[f] \in Nat
  BY <1>1, <1>2, <1>5 DEF Outcome, Lines, k
<1>8. row'[f] \in Statuses \cup {None} /\ meta'[f] \in Marks \cup {None}
  BY <1>1, <1>2, <1>4 DEF Outcome, Lines
<1>9. QED
  BY <1>6, <1>7, <1>8 DEF Lines

\* At a build's first step each line is left alone, empties or loses its block.
LEMMA CommitsIs ==
    ASSUME TypeOK, NEW b \in Builders, Commits(b), NEW f \in Files
    PROVE  \/ /\ f \notin Left(b)
              /\ row'[f] = row[f] /\ served'[f] = served[f] /\ withheld'[f] = withheld[f]
              /\ meta'[f] = meta[f] /\ state'[f] = state[f] /\ odd'[f] = odd[f]
           \/ /\ f \in Left(b)
              /\ row'[f] = None /\ served'[f] = 0 /\ withheld'[f] = 0
              /\ \/ meta'[f] = None /\ state'[f] = None /\ odd'[f] = {}
                 \/ /\ meta'[f] = meta[f] /\ state'[f] = state[f]
                    /\ odd'[f] = (odd[f] \ {"clash"}) \cup {"half"}
<1>1. CASE open[b] = All
  BY <1>1 DEF Commits, View, Left, TypeOK
<1>2. CASE open[b] # All
  BY <1>2 DEF Commits, View, Left, TypeOK
<1>3. QED
  BY <1>1, <1>2

LEMMA CommitsType ==
    ASSUME TypeOK, NEW b \in Builders, Commits(b)
    PROVE  /\ row' \in [Files -> Statuses \cup {None}]
           /\ served' \in [Files -> Nat] /\ withheld' \in [Files -> Nat]
           /\ meta' \in [Files -> Marks \cup {None}] /\ state' \in [Files -> Nat \cup {None}]
           /\ odd' \in [Files -> SUBSET Reasons]
<1>1. /\ row' \in [Files -> Statuses \cup {None}]
      /\ served' \in [Files -> Nat] /\ withheld' \in [Files -> Nat]
      /\ odd' \in [Files -> SUBSET Reasons]
  BY DEF Commits, View, Reasons, TypeOK
<1>2. meta' \in [Files -> Marks \cup {None}] /\ state' \in [Files -> Nat \cup {None}]
  BY DEF Commits, View, TypeOK
<1>3. QED
  BY <1>1, <1>2

\* Which steps touch the tables.
LEMMA TableSteps ==
    ASSUME [Next]_vars
    PROVE  \/ \E b \in Builders : Commits(b) \/ Write(b)
           \/ UNCHANGED <<row, served, withheld, meta, state, odd>>
  BY DEF Next, vars, Edit, Decide, Begin, Look, Scan, Parse, End, Dies, Raises, RaisesHalf,
     Stops, Query, QueryWithheld, Live, Admit, tables

-----------------------------------------------------------------------------

\* What recalls may serve and have to find are sets of files.
LEMMA WatchType ==
    ASSUME TypeOK, Watch
    PROVE  /\ excused' \in [Readers -> SUBSET Files]
           /\ due' \in [Readers -> SUBSET Files]
  BY DEF Watch, TypeOK

LEMMA TypeStep == TypeOK /\ [Next]_vars => TypeOK'
<1> SUFFICES ASSUME TypeOK, [Next]_vars PROVE TypeOK'
  OBVIOUS
<1> USE DEF corpus, tables, builds, recall, All
<1>1. ASSUME NEW f \in Files, NEW c \in Contents, Edit(f, c) PROVE TypeOK'
  <2>1. excused' \in [Readers -> SUBSET Files] /\ due' \in [Readers -> SUBSET Files]
    BY <1>1, WatchType DEF Edit
  <2>2. QED
    BY <1>1, <2>1 DEF Edit, TypeOK
<1>2. ASSUME NEW f \in Files, Decide(f) PROVE TypeOK'
  <2>1. excused' \in [Readers -> SUBSET Files] /\ due' \in [Readers -> SUBSET Files]
    BY <1>2, WatchType DEF Decide
  <2>2. QED
    BY <1>2, <2>1 DEF Decide, TypeOK
<1>3. ASSUME NEW b \in Builders, NEW full \in BOOLEAN, Begin(b, full) PROVE TypeOK'
  <2>1. excused' \in [Readers -> SUBSET Files] /\ due' \in [Readers -> SUBSET Files]
    BY <1>3, WatchType DEF Begin
  <2>2. QED
    BY <1>3, <2>1, CommitsType DEF Begin, TypeOK
<1>4. ASSUME NEW b \in Builders, Scan(b) PROVE TypeOK'
  <2>1. Discovered \subseteq Files /\ Changed \subseteq Files
    BY IndexAssumption DEF Discovered, Changed
  <2>2. QED
    BY <1>4, <2>1 DEF Scan, TypeOK
<1>5. ASSUME NEW b \in Builders, NEW f \in Files, Look(b, f) PROVE TypeOK'
  <2>1. View(b, meta, None)[f] \in Marks \cup {None} /\ Stamp(f) \in Nat \cup {None}
    BY ViewType DEF Stamp, TypeOK
  <2>2. QED
    <3>1. /\ at' \in [Builders -> {"rest", "scan", "next", "parse", "write"}]
          /\ got' \in [Builders -> Statuses \cup {"absent", "empty", "unread", "there"}]
          /\ file' \in [Builders -> Files \cup {None}]
          /\ base' \in [Builders -> Marks \cup {None}]
          /\ seen' \in [Builders -> Nat \cup {None}]
      BY <1>5, <2>1 DEF Look, TypeOK
    <3>2. /\ \A c \in Builders : at'[c] \in {"parse", "write"} => file'[c] \in Files
          /\ \A c \in Builders : at'[c] = "write" => got'[c] # "there"
      <4>1. ASSUME NEW c \in Builders, c # b
            PROVE  at'[c] = at[c] /\ file'[c] = file[c] /\ got'[c] = got[c]
        BY <1>5, <4>1 DEF Look, TypeOK
      <4>2. /\ file'[b] = f
            /\ at'[b] = "write" => got'[b] # "there"
        BY <1>5 DEF Look, TypeOK
      <4>3. QED
        BY <4>1, <4>2 DEF TypeOK
    <3>3. QED
      BY <1>5, <3>1, <3>2 DEF Look, TypeOK
<1>6. ASSUME NEW b \in Builders, Parse(b) PROVE TypeOK'
  <2>1. file[b] \in Files
    BY <1>6 DEF Parse, TypeOK
  <2>2. Stamp(file[b]) \in Nat \cup {None} /\ content[file[b]] \in Contents
    BY <2>1 DEF Stamp, TypeOK
  <2>3. QED
    BY <1>6, <2>1, <2>2 DEF Parse, TypeOK, Contents, Statuses
<1>7. ASSUME NEW b \in Builders, Write(b) PROVE TypeOK'
  <2>1. Writes(b) /\ file[b] \in Files
    BY <1>7, WriteIs DEF Writes
  <2>2. excused' \in [Readers -> SUBSET Files] /\ due' \in [Readers -> SUBSET Files]
    BY <2>1, WatchType DEF Writes
  <2>3. \A g \in Files : Lines(row'[g], served'[g], withheld'[g], meta'[g], odd'[g])
    <3>1. ASSUME NEW g \in Files, g # file[b]
          PROVE  Lines(row'[g], served'[g], withheld'[g], meta'[g], odd'[g])
      BY <2>1, <3>1, ViewType DEF Writes
    <3>2. QED
      BY <1>7, <3>1, LineType
  <2>4. \A g \in Files : state'[g] \in Nat \cup {None}
    <3>1. Stamp(file[b]) \in Nat \cup {None}
      BY <2>1 DEF Stamp, TypeOK
    <3>2. QED
      BY <2>1, <3>1, ViewType DEF Writes
  <2>5. /\ row' \in [Files -> Statuses \cup {None}]
        /\ served' \in [Files -> Nat] /\ withheld' \in [Files -> Nat]
        /\ meta' \in [Files -> Marks \cup {None}]
        /\ state' \in [Files -> Nat \cup {None}] /\ odd' \in [Files -> SUBSET Reasons]
    BY <2>1, <2>3, <2>4 DEF Writes, Lines
  <2>6. QED
    BY <2>1, <2>2, <2>5 DEF Writes, Over, TypeOK
<1>8. ASSUME NEW b \in Builders, End(b) PROVE TypeOK'
  <2>1. excused' \in [Readers -> SUBSET Files] /\ due' \in [Readers -> SUBSET Files]
    BY <1>8, WatchType DEF End
  <2>2. QED
    BY <1>8, <2>1, CommitsType DEF End, Rests, Over, TypeOK
<1>9. ASSUME NEW b \in Builders, Dies(b) \/ Raises(b) \/ RaisesHalf(b) PROVE TypeOK'
  <2>1. PICK what \in Files \cup {None, All} : Stops(b, what)
    BY <1>9 DEF Dies, Raises, RaisesHalf, TypeOK
  <2>2. QED
    BY <2>1 DEF Stops, Rests, Over, TypeOK
<1>10. ASSUME NEW r \in Readers, Query(r) \/ QueryWithheld(r) \/ Live(r) \/ Admit(r)
       PROVE  TypeOK'
  <2>1. hits' \in [Readers -> [Files -> Statuses \cup {None}]]
    <3>1. CASE Query(r)
      BY <3>1 DEF Query, TypeOK
    <3>2. CASE QueryWithheld(r)
      BY <3>2 DEF QueryWithheld, TypeOK
    <3>3. CASE Live(r)
      BY <3>3 DEF Live, TypeOK
    <3>4. CASE Admit(r)
      BY <3>4 DEF Admit, TypeOK
    <3>5. QED
      BY <1>10, <3>1, <3>2, <3>3, <3>4
  <2>2. /\ step' \in [Readers -> {"rest", "served", "withheld", "live"}]
        /\ excused' \in [Readers -> SUBSET Files] /\ due' \in [Readers -> SUBSET Files]
    <3>1. CASE Query(r)
      BY <3>1 DEF Query, TypeOK
    <3>2. CASE QueryWithheld(r)
      BY <3>2 DEF QueryWithheld, TypeOK
    <3>3. CASE Live(r)
      BY <3>3 DEF Live, TypeOK
    <3>4. CASE Admit(r)
      BY <3>4 DEF Admit, TypeOK
    <3>5. QED
      BY <1>10, <3>1, <3>2, <3>3, <3>4
  <2>3. UNCHANGED <<content, mtime, releases, row, served, withheld, meta, state, stamp,
                    at, rel, force, todo, file, base, got, seen, open, odd, cut, edits,
                    faults>>
    BY <1>10 DEF Query, QueryWithheld, Live, Admit
  <2>4. QED
    BY <2>1, <2>2, <2>3 DEF TypeOK
<1>11. CASE UNCHANGED vars
  BY <1>11 DEF vars, TypeOK
<1>12. QED
  BY <1>1, <1>2, <1>3, <1>4, <1>5, <1>6, <1>7, <1>8, <1>9, <1>10, <1>11 DEF Next

LEMMA TypeInit == Init => TypeOK
<1> SUFFICES ASSUME Init PROVE TypeOK
  OBVIOUS
<1>1. hits \in [Readers -> [Files -> Statuses \cup {None}]]
  BY DEF Init
<1>2. /\ at \in [Builders -> {"rest", "scan", "next", "parse", "write"}]
      /\ got \in [Builders -> Statuses \cup {"absent", "empty", "unread", "there"}]
      /\ \A b \in Builders : at[b] = "rest"
  BY DEF Init
<1>3. QED
  BY <1>1, <1>2 DEF Init, TypeOK

\* Every reachable state has its types.
THEOREM TypeCorrectness == Spec => []TypeOK
  BY TypeInit, TypeStep, PTL DEF Spec

-----------------------------------------------------------------------------
(* The lines of the tables.                                                *)

\* A block's row has the mark's content.  Without a mark there is nothing in the
\* search tables.  Where no two passes met, a block has one row there, in the
\* table the mark says; and where a mark has lost its row, a pass has left the
\* mark or was cut in half.
Fits(rw, n, m, mk, od) ==
    /\ rw # None => mk # None /\ mk.content = rw
    /\ mk = None => n = 0 /\ m = 0
    /\ "clash" \notin od => /\ n + m = (IF rw = None THEN 0 ELSE 1)
                            /\ rw # None => mk.admitted = (n > 0)
    /\ mk # None /\ rw = None => od \cap {"left", "half", "clash"} # {}
    /\ mk # None => (mk.content = "active" => mk.admitted)

TablesFit == \A f \in Files : Fits(row[f], served[f], withheld[f], meta[f], odd[f])

LEMMA ViewFits ==
    ASSUME TypeOK, TablesFit, NEW b \in Builders, NEW f \in Files
    PROVE  Fits(View(b, row, None)[f], View(b, served, 0)[f], View(b, withheld, 0)[f],
                View(b, meta, None)[f], View(b, odd, {})[f])
<1>1. CASE open[b] = All
  BY <1>1 DEF View, Fits
<1>2. CASE open[b] # All
  BY <1>2 DEF View, TablesFit
<1>3. QED
  BY <1>1, <1>2

\* A commit leaves a line that fits (_index_file, _insert_block, _delete_blocks).
LEMMA CommitFits ==
    ASSUME TypeOK, TablesFit, NEW b \in Builders, Write(b)
    PROVE  LET f == file[b] IN Fits(row'[f], served'[f], withheld'[f], meta'[f], odd'[f])
<1> DEFINE f  == file[b]
           k  == IF Mark(b).admitted THEN 1 ELSE 0
           rw == View(b, row, None)[f]
           n  == View(b, served, 0)[f]
           m  == View(b, withheld, 0)[f]
           mk == View(b, meta, None)[f]
           od == View(b, odd, {})[f]
<1> SUFFICES Fits(row'[f], served'[f], withheld'[f], meta'[f], odd'[f])
  OBVIOUS
<1>1. /\ f \in Files
      /\ Outcome(b, row'[f], served'[f], withheld'[f], meta'[f], odd'[f])
  BY WriteIs DEF Writes
<1>2. Lines(rw, n, m, mk, od) /\ Fits(rw, n, m, mk, od)
  BY <1>1, ViewType, ViewFits
<1>3. None \notin Statuses /\ None \notin Marks
  BY IndexAssumption
<1>4. "clash" \notin Late(b) => base[b] = mk
  BY DEF Late
<1>5. Late(b) \subseteq {"stamp", "clash"}
  BY DEF Late
<1>6. ASSUME got[b] \in Statuses
      PROVE  /\ Mark(b) \in Marks /\ Mark(b).content = got[b]
             /\ Mark(b).admitted \in BOOLEAN
             /\ got[b] = "active" => Mark(b).admitted
             /\ k = IF Mark(b).admitted THEN 1 ELSE 0
  BY <1>6 DEF Mark, Marks
<1> HIDE DEF f, k, rw, n, m, mk, od
<1>7. CASE /\ got[b] = "absent" /\ base[b] # None
           /\ row'[f] = None /\ served'[f] = 0 /\ withheld'[f] = 0 /\ meta'[f] = mk
           /\ odd'[f] = {"left"} \cup Late(b)
  BY <1>2, <1>7 DEF Fits
<1>8. CASE /\ row'[f] = rw /\ served'[f] = n /\ withheld'[f] = m /\ meta'[f] = mk
           /\ (od \ {"stamp", "unread"}) \cup Late(b) \subseteq odd'[f]
  BY <1>2, <1>8 DEF Fits
<1>9. CASE /\ row'[f] = None /\ served'[f] = 0 /\ withheld'[f] = 0 /\ meta'[f] = None
  BY <1>9 DEF Fits
<1>10. CASE /\ got[b] \in Statuses /\ base[b] = None
            /\ row'[f] = got[b] /\ served'[f] = n + k /\ withheld'[f] = m + 1 - k
            /\ meta'[f] = Mark(b) /\ odd'[f] = (od \cap {"clash"}) \cup Late(b)
  <2>1. "clash" \notin odd'[f] => n = 0 /\ m = 0
    BY <1>2, <1>4, <1>10 DEF Fits
  <2>2. QED
    BY <1>2, <1>3, <1>6, <1>10, <2>1 DEF Fits, Lines
<1>11. CASE /\ got[b] \in Statuses /\ base[b] # None
            /\ row'[f] = got[b] /\ served'[f] = k /\ withheld'[f] = 1 - k
            /\ meta'[f] = Mark(b) /\ odd'[f] = Late(b)
  BY <1>3, <1>6, <1>11 DEF Fits
<1>12. QED
  BY <1>1, <1>7, <1>8, <1>9, <1>10, <1>11 DEF Outcome, f, k, rw, n, m, mk, od

LEMMA TablesStep == TypeOK /\ TablesFit /\ [Next]_vars => TablesFit'
<1> SUFFICES ASSUME TypeOK, TablesFit, [Next]_vars, NEW f \in Files
             PROVE  Fits(row'[f], served'[f], withheld'[f], meta'[f], odd'[f])
  BY DEF TablesFit
<1>1. ASSUME NEW b \in Builders, Commits(b)
      PROVE  Fits(row'[f], served'[f], withheld'[f], meta'[f], odd'[f])
  BY <1>1, CommitsIs DEF TablesFit, Fits
<1>2. ASSUME NEW b \in Builders, Write(b)
      PROVE  Fits(row'[f], served'[f], withheld'[f], meta'[f], odd'[f])
  <2>1. CASE f = file[b]
    BY <1>2, <2>1, CommitFits
  <2>2. CASE f # file[b]
    <3>1. /\ row'[f] = View(b, row, None)[f] /\ served'[f] = View(b, served, 0)[f]
          /\ withheld'[f] = View(b, withheld, 0)[f]
          /\ meta'[f] = View(b, meta, None)[f] /\ odd'[f] = View(b, odd, {})[f]
      BY <1>2, <2>2, WriteIs DEF Writes
    <3>2. QED
      BY <3>1, ViewFits
  <2>3. QED
    BY <2>1, <2>2
<1>3. CASE UNCHANGED <<row, served, withheld, meta, state, odd>>
  BY <1>3 DEF TablesFit
<1>4. QED
  BY <1>1, <1>2, <1>3, TableSteps

LEMMA TablesAlwaysFit == Spec => [](TypeOK /\ TablesFit)
<1>1. Init => TablesFit
  <2> SUFFICES ASSUME Init, NEW f \in Files
               PROVE  Fits(row[f], served[f], withheld[f], meta[f], odd[f])
    BY DEF TablesFit
  <2>1. row[f] = None /\ served[f] = 0 /\ withheld[f] = 0 /\ meta[f] = None
    BY DEF Init
  <2>2. QED
    BY <2>1 DEF Fits
<1>2. QED
  BY <1>1, TablesStep, TypeInit, TypeStep, PTL DEF Spec

\* Each block is in one search table, once, whatever died or was released; unless
\* two processes have indexed its file at the same time.
THEOREM EachInOneTable == Spec => []OneTable
<1>1. TypeOK /\ TablesFit => OneTable
  BY DEF TablesFit, Fits, OneTable
<1>2. QED
  BY <1>1, TablesAlwaysFit, PTL

-----------------------------------------------------------------------------
(* The index and the corpus.                                               *)

\* Row rw, recorded time st and oddities od of file f, beside the corpus.
Agrees(f, rw, st, od) ==
    /\ st = Stamp(f) /\ od = {} => rw = Indexed(content[f])
    /\ st = Stamp(f) /\ od \cap {"stamp", "clash"} = {} /\ content[f] \in Statuses =>
         rw \in {None, content[f]}
    /\ st # None => st <= mtime[f]
    /\ st = None /\ od = {} => rw = None

\* What a build has seen of its file, it has seen at the time it says.
LooksFit(b) ==
    /\ at[b] \in {"parse", "write"} => (seen[b] # None => seen[b] <= mtime[file[b]])
    /\ at[b] = "write" =>
         /\ got[b] = "absent" => seen[b] = None
         /\ got[b] \in Statuses \cup {"empty"} => seen[b] # None
         /\ seen[b] = Stamp(file[b]) =>
              \/ got[b] = content[file[b]]
              \/ got[b] = "unread" /\ content[file[b]] \in {"absent", "garbled"}

AgreeInv ==
    /\ \A f \in Files : Agrees(f, row[f], state[f], odd[f])
    /\ \A b \in Builders : LooksFit(b)

\* The steps that leave the files alone are all but edits.
LEMMA CorpusSteps ==
    ASSUME [Next]_vars
    PROVE  \/ \E f \in Files, c \in Contents : Edit(f, c)
           \/ content' = content /\ mtime' = mtime
<1>1. ASSUME NEW b \in Builders, Write(b) PROVE content' = content /\ mtime' = mtime
  BY <1>1 DEF Write, Missing, Unread, Empty, New, Modified, Unchanged, Keep, Insert,
     Commit, corpus
<1>2. QED
  BY <1>1 DEF Next, vars, Decide, Begin, Look, Scan, Parse, End, Dies, Raises,
     RaisesHalf, Stops, Query, QueryWithheld, Live, Admit, corpus

\* An edit leaves the index behind, unless the file is gone and was not there.
LEMMA EditAgrees ==
    ASSUME TypeOK, AgreeInv, NEW e \in Files, NEW c \in Contents, Edit(e, c)
    PROVE  AgreeInv'
<1>1. UNCHANGED <<row, state, odd, at, file, got, seen>>
  BY DEF Edit, tables, builds
<1>2. \A f \in Files \ {e} : content'[f] = content[f] /\ mtime'[f] = mtime[f] /\ Stamp(f)' = Stamp(f)
  BY DEF Edit, TypeOK, Stamp
<1>3. /\ content'[e] = c /\ mtime'[e] = mtime[e] + 1 /\ mtime[e] \in Nat
      /\ Stamp(e)' = IF c = "absent" THEN None ELSE mtime[e] + 1
  BY DEF Edit, TypeOK, Stamp
<1>4. None \notin Nat
  BY IndexAssumption
<1>5. ASSUME NEW f \in Files PROVE Agrees(f, row[f], state[f], odd[f])'
  <2>1. Agrees(f, row[f], state[f], odd[f])
    BY DEF AgreeInv
  <2>2. CASE f # e
    BY <1>1, <1>2, <2>1, <2>2 DEF Agrees
  <2>3. CASE f = e
    <3>1. state[e] \in Nat \cup {None}
      BY DEF TypeOK
    <3>2. CASE c = "absent"
      BY <1>1, <1>3, <1>4, <2>1, <2>3, <3>1, <3>2 DEF Agrees, Indexed, Statuses
    <3>3. CASE c # "absent"
      BY <1>1, <1>3, <1>4, <2>1, <2>3, <3>1, <3>3 DEF Agrees
    <3>4. QED
      BY <3>2, <3>3
  <2>4. QED
    BY <2>2, <2>3
<1>6. ASSUME NEW b \in Builders PROVE LooksFit(b)'
  <2>1. LooksFit(b) /\ seen[b] \in Nat \cup {None} /\ got[b] # "garbled"
        /\ (at[b] \in {"parse", "write"} => file[b] \in Files)
        /\ got[b] \in Statuses \cup {"absent", "empty", "unread", "there"}
        /\ (at[b] = "write" => got[b] # "there")
    BY DEF AgreeInv, TypeOK, Statuses
  <2>2. CASE file[b] # e
    BY <1>1, <1>2, <2>1, <2>2 DEF LooksFit
  <2>3. CASE file[b] = e
    <3>1. CASE c = "absent"
      BY <1>1, <1>3, <1>4, <2>1, <2>3, <3>1 DEF LooksFit
    <3>2. CASE c # "absent"
      BY <1>1, <1>3, <1>4, <2>1, <2>3, <3>2 DEF LooksFit
    <3>3. QED
      BY <3>1, <3>2
  <2>4. QED
    BY <2>2, <2>3
<1>7. QED
  BY <1>5, <1>6 DEF AgreeInv

\* An empty line agrees with every corpus.
LEMMA EmptyAgrees ==
    ASSUME TypeOK, NEW f \in Files
    PROVE  Agrees(f, None, None, {})
<1>1. mtime[f] \in Nat /\ None \notin Nat
  BY IndexAssumption DEF TypeOK
<1>2. QED
  BY <1>1 DEF Agrees, Stamp, Indexed, Statuses

LEMMA ViewAgrees ==
    ASSUME TypeOK, AgreeInv, NEW b \in Builders, NEW f \in Files
    PROVE  Agrees(f, View(b, row, None)[f], View(b, state, None)[f], View(b, odd, {})[f])
<1>1. CASE open[b] = All
  BY <1>1, EmptyAgrees DEF View
<1>2. CASE open[b] # All
  BY <1>2 DEF View, AgreeInv
<1>3. QED
  BY <1>1, <1>2

\* What a pass commits of its file agrees with the corpus, but for what is odd.
LEMMA CommitAgrees ==
    ASSUME TypeOK, TablesFit, AgreeInv, NEW b \in Builders, Write(b)
    PROVE  LET f == file[b] IN Agrees(f, row'[f], Stamp(f), odd'[f])
<1> DEFINE f  == file[b]
           rw == View(b, row, None)[f]
           n  == View(b, served, 0)[f]
           m  == View(b, withheld, 0)[f]
           mk == View(b, meta, None)[f]
           od == View(b, odd, {})[f]
<1>1. /\ f \in Files /\ at[b] = "write"
      /\ Outcome(b, row'[f], served'[f], withheld'[f], meta'[f], odd'[f])
  BY WriteIs DEF Writes
<1>2. Lines(rw, n, m, mk, od) /\ Fits(rw, n, m, mk, od)
  BY <1>1, ViewType, ViewFits
<1>3. /\ None \notin Statuses /\ None \notin Marks /\ None \notin Nat
      /\ content[f] \in Contents /\ mtime[f] \in Nat
      /\ got[b] \in Statuses \cup {"absent", "empty", "unread"}
  BY <1>1, IndexAssumption DEF TypeOK
<1>4. Late(b) \subseteq odd'[f]
  BY <1>1 DEF Outcome
<1>5. /\ "clash" \notin Late(b) => base[b] = mk
      /\ "stamp" \notin Late(b) => seen[b] = Stamp(f)
  BY DEF Late
<1>6. LooksFit(b)
  BY DEF AgreeInv
<1>7. got[b] \in Statuses => Mark(b).content = got[b]
  BY DEF Mark
<1>8. ASSUME odd'[f] \cap {"stamp", "clash"} = {}
      PROVE  /\ base[b] = mk
             /\ \/ got[b] = content[f]
                \/ got[b] = "unread" /\ content[f] \in {"absent", "garbled"}
  BY <1>1, <1>4, <1>5, <1>6, <1>8 DEF LooksFit
<1>9. ASSUME odd'[f] \cap {"stamp", "clash"} = {}, content[f] \in Statuses
      PROVE  row'[f] \in {None, content[f]}
  <2>1. got[b] = content[f] /\ base[b] = mk
    BY <1>8, <1>9 DEF Statuses
  <2>2. CASE row'[f] = got[b]
    BY <2>1, <2>2
  <2>3. CASE row'[f] = rw /\ base[b] = Mark(b)
    BY <1>2, <1>7, <1>9, <2>1, <2>3 DEF Fits
  <2>4. QED
    BY <1>1, <1>9, <2>1, <2>2, <2>3 DEF Outcome, Statuses
<1>10. ASSUME odd'[f] = {} PROVE row'[f] = Indexed(content[f])
  <2>1. base[b] = mk
    BY <1>8, <1>10
  <2>2. CASE got[b] \in Statuses
    <3>1. content[f] = got[b] /\ Indexed(content[f]) = got[b]
      BY <1>8, <1>10, <2>2 DEF Statuses, Indexed
    <3>2. CASE row'[f] = rw /\ base[b] = Mark(b) /\ od \ {"stamp", "unread"} \subseteq odd'[f]
      <4>1. mk # None /\ od \cap {"left", "half", "clash"} = {}
        <5>1. Mark(b) \in Marks
          BY <2>2 DEF Mark, Marks
        <5>2. mk # None
          BY <1>3, <2>1, <3>2, <5>1
        <5>3. od \cap {"left", "half", "clash"} = {}
          BY <1>10, <3>2
        <5>4. QED
          BY <5>2, <5>3
      <4>2. QED
        BY <1>2, <1>7, <2>1, <2>2, <3>1, <3>2, <4>1 DEF Fits
    <3>3. QED
      BY <1>1, <2>2, <3>1, <3>2 DEF Outcome, Statuses
  <2>3. CASE got[b] \in {"absent", "empty"}
    <3>1. Indexed(content[f]) = None
      BY <1>8, <1>10, <2>3 DEF Statuses, Indexed
    <3>2. CASE row'[f] = rw /\ base[b] = None
      BY <1>2, <2>1, <3>1, <3>2 DEF Fits
    <3>3. QED
      BY <1>1, <2>3, <3>1, <3>2 DEF Outcome, Statuses
  <2>4. got[b] # "unread"
    BY <1>1, <1>10 DEF Outcome, Statuses
  <2>5. QED
    BY <1>3, <2>2, <2>3, <2>4
<1>11. Stamp(f) # None => Stamp(f) <= mtime[f]
  BY <1>3 DEF Stamp
<1>12. Stamp(f) = None => Indexed(content[f]) = None
  BY <1>3 DEF Stamp, Indexed, Statuses
<1>13. QED
  BY <1>9, <1>10, <1>11, <1>12 DEF Agrees

\* How a build comes to know what it knows of its file.
LEMMA LookSteps ==
    ASSUME TypeOK, [Next]_vars, NEW b \in Builders
    PROVE  \/ at'[b] = at[b] /\ file'[b] = file[b] /\ got'[b] = got[b] /\ seen'[b] = seen[b]
           \/ Parse(b) \/ \E f \in Files : Look(b, f)
           \/ at'[b] \notin {"parse", "write"}
<1> DEFINE Kept == at'[b] = at[b] /\ file'[b] = file[b] /\ got'[b] = got[b] /\ seen'[b] = seen[b]
           Away == at'[b] \notin {"parse", "write"}
<1>1. ASSUME NEW c \in Builders,
             Write(c) \/ End(c) \/ Scan(c) \/ Dies(c) \/ Raises(c) \/ RaisesHalf(c)
                \/ \E full \in BOOLEAN : Begin(c, full)
      PROVE  Kept \/ Away
  <2>1. ASSUME Write(c) PROVE Kept \/ Away
    <3>1. Writes(c)
      BY <2>1, WriteIs
    <3>2. CASE c = b
      BY <3>1, <3>2 DEF Writes, TypeOK
    <3>3. CASE c # b
      BY <3>1, <3>3 DEF Writes, Over, TypeOK
    <3>4. QED
      BY <3>2, <3>3
  <2>2. ASSUME End(c) \/ \E what : Stops(c, what) PROVE Kept \/ Away
    <3>1. CASE c = b
      BY <2>2, <3>1 DEF End, Stops, Rests, TypeOK
    <3>2. CASE c # b
      BY <2>2, <3>2 DEF End, Stops, Rests, Over, TypeOK
    <3>3. QED
      BY <3>1, <3>2
  <2>3. ASSUME Scan(c) \/ \E full \in BOOLEAN : Begin(c, full) PROVE Kept \/ Away
    <3>1. CASE c = b
      BY <2>3, <3>1 DEF Scan, Begin, TypeOK
    <3>2. CASE c # b
      BY <2>3, <3>2 DEF Scan, Begin, TypeOK
    <3>3. QED
      BY <3>1, <3>2
  <2>4. QED
    BY <1>1, <2>1, <2>2, <2>3 DEF Dies, Raises, RaisesHalf
<1>2. ASSUME NEW c \in Builders, NEW f \in Files, Parse(c) \/ Look(c, f), c # b PROVE Kept
  BY <1>2 DEF Parse, Look, TypeOK
<1>3. ASSUME \/ UNCHANGED vars
             \/ \E f \in Files : Decide(f) \/ \E c \in Contents : Edit(f, c)
             \/ \E r \in Readers : Query(r) \/ QueryWithheld(r) \/ Live(r) \/ Admit(r)
      PROVE  Kept
  BY <1>3 DEF vars, Decide, Edit, Query, QueryWithheld, Live, Admit, builds
<1>4. Parse(b) => file[b] \in Files
  BY DEF Parse, TypeOK
<1>5. ASSUME NEW c \in Builders, Parse(c), c # b PROVE Kept
  BY <1>5 DEF Parse, TypeOK
<1>6. QED
  BY <1>1, <1>2, <1>3, <1>5 DEF Next

LEMMA AgreeStep ==
    TypeOK /\ TablesFit /\ AgreeInv /\ [Next]_vars => AgreeInv'
<1> SUFFICES ASSUME TypeOK, TablesFit, AgreeInv, [Next]_vars PROVE AgreeInv'
  OBVIOUS
<1>1. CASE \E f \in Files, c \in Contents : Edit(f, c)
  BY <1>1, EditAgrees
<1>2. CASE content' = content /\ mtime' = mtime
  <2>1. \A f : Stamp(f)' = Stamp(f)
    BY <1>2 DEF Stamp
  <2>2. ASSUME NEW f \in Files PROVE Agrees(f, row'[f], state'[f], odd'[f])
    <3>1. Agrees(f, row[f], state[f], odd[f])
      BY DEF AgreeInv
    <3>2. ASSUME NEW b \in Builders, Commits(b)
          PROVE  Agrees(f, row'[f], state'[f], odd'[f])
      <4>1. ASSUME row'[f] = None, state'[f] = state[f],
                   odd'[f] = (odd[f] \ {"clash"}) \cup {"half"}
            PROVE  Agrees(f, row'[f], state'[f], odd'[f])
        <5>1. odd'[f] # {}
          BY <4>1
        <5>2. QED
          BY <3>1, <4>1, <5>1 DEF Agrees
      <4>2. QED
        BY <3>1, <3>2, <4>1, CommitsIs, EmptyAgrees
    <3>3. ASSUME NEW b \in Builders, Write(b)
          PROVE  Agrees(f, row'[f], state'[f], odd'[f])
      <4>1. Writes(b)
        BY <3>3, WriteIs
      <4>2. CASE f = file[b]
        BY <3>3, <4>1, <4>2, CommitAgrees DEF Writes
      <4>3. CASE f # file[b]
        <5>1. /\ row'[f] = View(b, row, None)[f] /\ state'[f] = View(b, state, None)[f]
              /\ odd'[f] = View(b, odd, {})[f]
          BY <4>1, <4>3 DEF Writes
        <5>2. QED
          BY <5>1, ViewAgrees
      <4>4. QED
        BY <4>2, <4>3
    <3>4. CASE UNCHANGED <<row, served, withheld, meta, state, odd>>
      BY <3>1, <3>4
    <3>5. QED
      BY <3>2, <3>3, <3>4, TableSteps
  <2>3. ASSUME NEW f \in Files PROVE Agrees(f, row[f], state[f], odd[f])'
    BY <1>2, <2>1, <2>2 DEF Agrees
  <2>4. ASSUME NEW b \in Builders PROVE LooksFit(b)'
    <3>1. CASE at'[b] = at[b] /\ file'[b] = file[b] /\ got'[b] = got[b] /\ seen'[b] = seen[b]
      <4>1. LooksFit(b)
        BY DEF AgreeInv
      <4>2. QED
        BY <1>2, <2>1, <3>1, <4>1 DEF LooksFit
    <3>2. CASE at'[b] \notin {"parse", "write"}
      BY <3>2 DEF LooksFit
    <3>3. ASSUME NEW f \in Files, Look(b, f) PROVE LooksFit(b)'
      <4>1. file'[b] = f /\ seen'[b] = Stamp(f)
        BY <3>3 DEF Look, TypeOK
      <4>2. /\ at'[b] = "write" => got'[b] = "absent" /\ content[f] = "absent"
        BY <3>3 DEF Look, TypeOK
      <4>3. Stamp(f) # None => Stamp(f) <= mtime[f]
        BY DEF Stamp, TypeOK
      <4>4. QED
        BY <1>2, <2>1, <4>1, <4>2, <4>3 DEF LooksFit, Stamp, Statuses
    <3>4. ASSUME Parse(b) PROVE LooksFit(b)'
      <4>1. /\ file'[b] = file[b] /\ seen'[b] = Stamp(file[b]) /\ file[b] \in Files
            /\ got'[b] = IF content[file[b]] \in {"absent", "garbled"}
                           THEN "unread" ELSE content[file[b]]
        BY <3>4 DEF Parse, TypeOK
      <4>2. Stamp(file[b]) # None => Stamp(file[b]) <= mtime[file[b]]
        BY <4>1 DEF Stamp, TypeOK
      <4>3. content[file[b]] # "absent" => Stamp(file[b]) # None
        BY <4>1, IndexAssumption DEF Stamp, TypeOK
      <4>4. QED
        BY <1>2, <2>1, <4>1, <4>2, <4>3 DEF LooksFit, Statuses
    <3>5. QED
      BY <3>1, <3>2, <3>3, <3>4, LookSteps
  <2>5. QED
    BY <2>3, <2>4 DEF AgreeInv
<1>3. QED
  BY <1>1, <1>2, CorpusSteps

LEMMA AgreeAlways == Spec => [](TypeOK /\ TablesFit /\ AgreeInv)
<1>1. Init => AgreeInv
  <2> SUFFICES ASSUME Init PROVE AgreeInv
    OBVIOUS
  <2>1. ASSUME NEW f \in Files PROVE Agrees(f, row[f], state[f], odd[f])
    <3>1. row[f] = None /\ state[f] = None /\ odd[f] = {}
      BY DEF Init
    <3>2. QED
      BY <3>1, TypeInit, EmptyAgrees
  <2>2. ASSUME NEW b \in Builders PROVE LooksFit(b)
    BY DEF Init, LooksFit
  <2>3. QED
    BY <2>1, <2>2 DEF AgreeInv
<1>2. QED
  BY <1>1, AgreeStep, TablesAlwaysFit, PTL DEF Spec

\* An index that says it is current agrees with the corpus, but for what was odd.
THEOREM CurrentMeansRight == Spec => []CurrentAgrees
<1>1. AgreeInv => CurrentAgrees
  BY DEF AgreeInv, Agrees, CurrentAgrees, Current
<1>2. QED
  BY <1>1, AgreeAlways, PTL

-----------------------------------------------------------------------------
(* The index and the releases.                                             *)

\* The n served rows of f are those of a build that went by the releases rs, if
\* its line, of status rw, time st and oddities od, is current.
Follows(f, rw, n, st, od, rs) ==
    st = Stamp(f) /\ od = {} /\ rw # None => (n > 0 <=> rw = "active" \/ f \in rs)

\* What is open has been cleared by the one build there is.
OneBuild ==
    /\ \A b, c \in Builders : at[b] # "rest" /\ at[c] # "rest" => b = c
    /\ \A b \in Builders : open[b] # None => open[b] = All /\ at[b] \notin {"rest", "scan"}

\* Between builds the tables follow the releases of the last one.
Settled ==
    (\A b \in Builders : at[b] \in {"rest", "scan"}) =>
        \A f \in Files : Follows(f, row[f], served[f], state[f], odd[f], UNION stamp)

\* A build has brought what it is through with in line with its own.
Under(b) ==
    at[b] \in {"next", "parse", "write"} => \A f \in Files \ todo[b] :
        Follows(f, View(b, row, None)[f], View(b, served, 0)[f], View(b, state, None)[f],
                View(b, odd, {})[f], rel[b])

FollowInv == ~cut => OneBuild /\ Settled /\ \A b \in Builders : Under(b)

\* What a pass commits of its file follows the releases the build goes by.
LEMMA CommitFollows ==
    ASSUME TypeOK, TablesFit, NEW b \in Builders, Write(b)
    PROVE  LET f == file[b] IN
           odd'[f] = {} /\ row'[f] # None =>
               (served'[f] > 0 <=> row'[f] = "active" \/ f \in rel[b])
<1> DEFINE f  == file[b]
           rw == View(b, row, None)[f]
           n  == View(b, served, 0)[f]
           m  == View(b, withheld, 0)[f]
           mk == View(b, meta, None)[f]
           od == View(b, odd, {})[f]
<1> SUFFICES ASSUME odd'[f] = {}, row'[f] # None
             PROVE  served'[f] > 0 <=> row'[f] = "active" \/ f \in rel[b]
  OBVIOUS
<1>1. /\ f \in Files
      /\ Outcome(b, row'[f], served'[f], withheld'[f], meta'[f], odd'[f])
  BY WriteIs DEF Writes
<1>2. Lines(rw, n, m, mk, od) /\ Fits(rw, n, m, mk, od)
  BY <1>1, ViewType, ViewFits
<1>3. base[b] = mk
  <2>1. Late(b) \subseteq odd'[f]
    BY <1>1 DEF Outcome
  <2>2. QED
    BY <2>1 DEF Late
<1>4. got[b] \in Statuses =>
        /\ Mark(b).content = got[b]
        /\ Mark(b).admitted <=> got[b] = "active" \/ f \in rel[b]
  BY DEF Mark
<1>5. None \notin Statuses
  BY IndexAssumption
<1> HIDE DEF f, rw, n, m, mk, od
<1>6. CASE row'[f] = rw /\ base[b] = None
  BY <1>2, <1>3, <1>6 DEF Fits
<1>7. CASE /\ row'[f] = rw /\ served'[f] = n /\ got[b] \in Statuses /\ base[b] = Mark(b)
           /\ odd'[f] = (od \ {"stamp", "unread"}) \cup Late(b)
  <2>1. "clash" \notin od
    BY <1>7
  <2>2. rw = got[b] /\ (Mark(b).admitted = (n > 0))
    BY <1>2, <1>3, <1>4, <1>7, <2>1 DEF Fits
  <2>3. QED
    BY <1>4, <1>7, <2>2
<1>8. CASE /\ row'[f] = got[b] /\ got[b] \in Statuses
           /\ served'[f] = IF Mark(b).admitted THEN 1 ELSE 0
  BY <1>4, <1>8
<1>9. CASE /\ row'[f] = got[b] /\ got[b] \in Statuses /\ base[b] = None
           /\ served'[f] = n + (IF Mark(b).admitted THEN 1 ELSE 0)
  <2>1. n = 0
    BY <1>2, <1>3, <1>9 DEF Fits
  <2>2. QED
    BY <1>4, <1>9, <2>1
<1>10. QED
  BY <1>1, <1>6, <1>7, <1>8, <1>9 DEF Outcome, f, rw, n, m, mk, od

\* A line with a row that is current after an edit was current before it.
LEMMA EditStales ==
    ASSUME TypeOK, NEW e \in Files, NEW c \in Contents, Edit(e, c), NEW f \in Files,
           NEW rw, NEW st \in Nat \cup {None}, NEW od, Agrees(f, rw, st, od),
           od = {}, rw # None, st = Stamp(f)'
    PROVE  st = Stamp(f)
<1>1. CASE f # e
  BY <1>1 DEF Edit, TypeOK, Stamp
<1>2. CASE f = e
  <2>1. st # None /\ st <= mtime[f] /\ mtime[f] \in Nat
    BY DEF Agrees, TypeOK
  <2>2. Stamp(f)' \in {None, mtime[f] + 1}
    BY <1>2 DEF Edit, TypeOK, Stamp
  <2>3. QED
    BY <2>1, <2>2
<1>3. QED
  BY <1>1, <1>2

LEMMA EditFollows ==
    ASSUME TypeOK, AgreeInv, FollowInv, NEW e \in Files, NEW c \in Contents, Edit(e, c)
    PROVE  FollowInv'
<1>1. UNCHANGED <<row, served, state, odd, stamp, at, open, todo, rel, cut>>
  BY DEF Edit, tables, builds
<1> SUFFICES ASSUME ~cut PROVE OneBuild' /\ Settled' /\ \A b \in Builders : Under(b)'
  BY <1>1 DEF FollowInv
<1>2. OneBuild /\ Settled /\ \A b \in Builders : Under(b)
  BY DEF FollowInv
<1>3. OneBuild'
  BY <1>1, <1>2 DEF OneBuild
<1>4. Settled'
  <2> SUFFICES ASSUME \A b \in Builders : at[b] \in {"rest", "scan"}, NEW f \in Files
               PROVE  Follows(f, row[f], served[f], state[f], odd[f], UNION stamp)'
    BY <1>1 DEF Settled
  <2>1. /\ Follows(f, row[f], served[f], state[f], odd[f], UNION stamp)
        /\ Agrees(f, row[f], state[f], odd[f]) /\ state[f] \in Nat \cup {None}
    BY <1>2 DEF Settled, AgreeInv, TypeOK
  <2>2. odd[f] = {} /\ row[f] # None /\ state[f] = Stamp(f)' => state[f] = Stamp(f)
    BY <2>1, EditStales
  <2>3. QED
    BY <1>1, <2>1, <2>2 DEF Follows
<1>5. ASSUME NEW b \in Builders PROVE Under(b)'
  <2> DEFINE rw(f) == View(b, row, None)[f]
             n(f)  == View(b, served, 0)[f]
             st(f) == View(b, state, None)[f]
             od(f) == View(b, odd, {})[f]
  <2> SUFFICES ASSUME at[b] \in {"next", "parse", "write"}, NEW f \in Files \ todo[b]
               PROVE  Follows(f, rw(f), n(f), st(f), od(f), rel[b])'
    BY <1>1 DEF Under
  <2>1. /\ Follows(f, rw(f), n(f), st(f), od(f), rel[b])
        /\ Agrees(f, rw(f), st(f), od(f)) /\ st(f) \in Nat \cup {None}
    BY <1>2, ViewAgrees, ViewType DEF Under
  <2>2. rw(f)' = rw(f) /\ n(f)' = n(f) /\ st(f)' = st(f) /\ od(f)' = od(f)
    BY <1>1 DEF View
  <2> HIDE DEF rw, n, st, od
  <2>3. od(f) = {} /\ rw(f) # None /\ st(f) = Stamp(f)' => st(f) = Stamp(f)
    BY <2>1, EditStales
  <2>4. QED
    BY <1>1, <2>1, <2>2, <2>3 DEF Follows
<1>6. QED
  BY <1>3, <1>4, <1>5

\* A build looks at all files, or at the changed ones when the releases are those
\* of the last one; one that is not there has no row.
LEMMA ScanFollows ==
    ASSUME TypeOK, AgreeInv, ~cut, OneBuild, Settled, NEW b \in Builders, Scan(b)
    PROVE  Under(b)'
<1>1. /\ at[b] = "scan" /\ at'[b] = "next" /\ rel'[b] = rel[b]
      /\ UNCHANGED <<content, mtime, row, served, state, odd, stamp>>
      /\ \/ open'[b] = All
         \/ /\ open' = open /\ stamp # {}
            /\ todo'[b] = IF stamp = {rel[b]} THEN Changed ELSE Discovered
  BY DEF Scan, Full, TypeOK, corpus, tables
<1> SUFFICES ASSUME NEW f \in Files \ todo'[b]
             PROVE  Follows(f, View(b, row, None)[f], View(b, served, 0)[f],
                            View(b, state, None)[f], View(b, odd, {})[f], rel[b])'
  BY DEF Under
<1>2. CASE open'[b] = All
  <2>1. View(b, row, None)'[f] = None
    BY <1>1, <1>2 DEF View
  <2>2. QED
    BY <2>1 DEF Follows
<1>3. CASE open' = open
  <2>1. /\ View(b, row, None)' = row /\ View(b, served, 0)' = served
        /\ View(b, state, None)' = state /\ View(b, odd, {})' = odd
    <3>1. open[b] = None /\ open'[b] # All
      BY <1>1, <1>3, IndexAssumption DEF OneBuild, All
    <3>2. QED
      BY <1>1, <1>3, <3>1 DEF View
  <2>2. Follows(f, row[f], served[f], state[f], odd[f], UNION stamp) /\ Stamp(f)' = Stamp(f)
    BY <1>1 DEF Settled, OneBuild, TypeOK, Stamp
  <2>3. CASE stamp = {rel[b]}
    <3>1. UNION stamp = rel[b]
      BY <2>3
    <3>2. QED
      BY <1>1, <2>1, <2>2, <3>1 DEF Follows
  <2>4. CASE stamp # {rel[b]}
    <3>1. content[f] = "absent" /\ Stamp(f) = None
      <4>1. open'[b] # All
        BY <1>1, <1>3, IndexAssumption DEF OneBuild, All
      <4>2. f \in Files \ Discovered
        BY <1>1, <2>4, <4>1
      <4>3. QED
        BY <4>2 DEF Discovered, Stamp
    <3>2. state[f] = Stamp(f) /\ odd[f] = {} => row[f] = None
      BY <3>1 DEF AgreeInv, Agrees
    <3>3. QED
      BY <1>1, <2>1, <2>2, <3>2 DEF Follows
  <2>5. QED
    BY <2>3, <2>4
<1>4. QED
  BY <1>1, <1>2, <1>3

\* A commit of a build leaves its file in line with the releases, and the others
\* as they were to it.
LEMMA WriteFollows ==
    ASSUME TypeOK, TablesFit, NEW b \in Builders, Under(b), Write(b)
    PROVE  Under(b)'
<1>1. Writes(b)
  BY WriteIs
<1>2. /\ at[b] = "write" /\ at'[b] = "next" /\ rel'[b] = rel[b]
      /\ todo'[b] = todo[b] \ {file[b]} /\ open'[b] = None /\ None # All
      /\ UNCHANGED <<content, mtime>>
  BY <1>1, IndexAssumption DEF Writes, TypeOK, corpus, All
<1>3. /\ View(b, row, None)' = row' /\ View(b, served, 0)' = served'
      /\ View(b, state, None)' = state' /\ View(b, odd, {})' = odd'
  BY <1>2 DEF View
<1> SUFFICES ASSUME NEW f \in Files \ todo'[b]
             PROVE  Follows(f, View(b, row, None)[f], View(b, served, 0)[f],
                            View(b, state, None)[f], View(b, odd, {})[f], rel[b])'
  BY DEF Under
<1>4. Stamp(f)' = Stamp(f)
  BY <1>2 DEF Stamp
<1>5. CASE f = file[b]
  BY <1>2, <1>3, <1>5, CommitFollows DEF Follows
<1>6. CASE f # file[b]
  <2>1. f \in Files \ todo[b]
    BY <1>2, <1>6
  <2>2. Follows(f, View(b, row, None)[f], View(b, served, 0)[f], View(b, state, None)[f],
                View(b, odd, {})[f], rel[b])
    BY <1>2, <2>1 DEF Under
  <2>3. /\ row'[f] = View(b, row, None)[f] /\ served'[f] = View(b, served, 0)[f]
        /\ state'[f] = View(b, state, None)[f] /\ odd'[f] = View(b, odd, {})[f]
    BY <1>1, <1>6 DEF Writes
  <2>4. QED
    BY <1>2, <1>3, <1>4, <2>2, <2>3 DEF Follows
<1>7. QED
  BY <1>5, <1>6

\* The end of a build makes its releases those of the tables.
LEMMA EndFollows ==
    ASSUME TypeOK, NEW b \in Builders, OneBuild, Under(b), End(b)
    PROVE  Settled'
<1>1. /\ at[b] = "next" /\ todo[b] = {} /\ stamp' = {rel[b]} /\ Commits(b)
      /\ UNCHANGED <<content, mtime>>
  BY DEF End, corpus
<1> SUFFICES ASSUME NEW f \in Files
             PROVE  Follows(f, row[f], served[f], state[f], odd[f], UNION stamp)'
  BY DEF Settled
<1>2. Follows(f, View(b, row, None)[f], View(b, served, 0)[f], View(b, state, None)[f],
              View(b, odd, {})[f], rel[b])
  BY <1>1 DEF Under
<1>3. UNION stamp' = rel[b] /\ Stamp(f)' = Stamp(f)
  BY <1>1 DEF Stamp
<1>4. CASE open[b] = All
  <2>1. row'[f] = None
    BY <1>1, <1>4, CommitsIs DEF Left
  <2>2. QED
    BY <2>1 DEF Follows
<1>5. CASE open[b] = None /\ None # All
  <2>1. /\ row'[f] = row[f] /\ served'[f] = served[f] /\ state'[f] = state[f]
        /\ odd'[f] = odd[f]
    BY <1>1, <1>5, CommitsIs, IndexAssumption DEF Left
  <2>2. QED
    BY <1>2, <1>3, <1>5, <2>1 DEF View, Follows
<1>6. QED
  BY <1>4, <1>5, IndexAssumption DEF OneBuild, All

LEMMA BuildFollows ==
    ASSUME TypeOK, TablesFit, AgreeInv, FollowInv, ~cut', NEW b \in Builders,
           \/ Scan(b) \/ Parse(b) \/ Write(b) \/ End(b)
           \/ \E f \in Files : Look(b, f)
           \/ \E full \in BOOLEAN : Begin(b, full)
    PROVE  FollowInv'
<1> SUFFICES OneBuild' /\ Settled' /\ \A c \in Builders : Under(c)'
  BY DEF FollowInv
<1>1. ASSUME NEW full \in BOOLEAN, Begin(b, full)
      PROVE  OneBuild' /\ Settled' /\ \A c \in Builders : Under(c)'
  <2>1. /\ ~cut /\ \A c \in Builders : at[c] = "rest"
        /\ at' = [at EXCEPT ![b] = "scan"] /\ open' = [open EXCEPT ![b] = None]
        /\ Commits(b) /\ UNCHANGED <<content, mtime, stamp>>
    BY <1>1 DEF Begin, Resting, corpus
  <2>2. OneBuild /\ Settled
    BY <2>1 DEF FollowInv
  <2>3. OneBuild'
    BY <2>1, <2>2 DEF OneBuild, TypeOK
  <2>4. \A c \in Builders : Under(c)'
    BY <2>1 DEF Under, TypeOK
  <2>5. Settled'
    <3>1. open[b] = None /\ Left(b) = {}
      BY <2>1, <2>2, IndexAssumption DEF OneBuild, Left, All
    <3>2. ASSUME NEW f \in Files
          PROVE  /\ row'[f] = row[f] /\ served'[f] = served[f] /\ state'[f] = state[f]
                 /\ odd'[f] = odd[f] /\ Stamp(f)' = Stamp(f)
      BY <2>1, <3>1, CommitsIs DEF Stamp
    <3>3. QED
      BY <2>1, <2>2, <3>2 DEF Settled, Follows
  <2>6. QED
    BY <2>3, <2>4, <2>5
<1>2. CASE Scan(b)
  <2>1. /\ ~cut /\ at[b] = "scan" /\ at' = [at EXCEPT ![b] = "next"]
        /\ open' = [open EXCEPT ![b] = All] \/ open' = open
    BY <1>2 DEF Scan
  <2>2. OneBuild /\ Settled
    BY <2>1 DEF FollowInv
  <2>3. OneBuild'
    BY <2>1, <2>2 DEF OneBuild, TypeOK
  <2>4. Under(b)'
    BY <1>2, <2>1, <2>2, ScanFollows
  <2>5. ASSUME NEW c \in Builders, c # b PROVE Under(c)'
    <3>1. at'[c] = "rest"
      BY <2>1, <2>2, <2>5 DEF OneBuild, TypeOK
    <3>2. QED
      BY <3>1 DEF Under
  <2>6. Settled'
    BY <2>1 DEF Settled, TypeOK
  <2>7. QED
    BY <2>3, <2>4, <2>5, <2>6
<1>3. CASE Parse(b) \/ Write(b) \/ \E f \in Files : Look(b, f)
  <2>1. /\ ~cut /\ at[b] \in {"next", "parse", "write"}
        /\ \E p \in {"next", "parse", "write"} : at' = [at EXCEPT ![b] = p]
        /\ open' = [open EXCEPT ![b] = None] \/ open' = open
    <3>1. CASE Write(b)
      BY <3>1, WriteIs DEF Writes
    <3>2. CASE Parse(b)
      BY <3>2 DEF Parse
    <3>3. ASSUME NEW f \in Files, Look(b, f)
          PROVE  /\ ~cut /\ at[b] = "next" /\ open' = open
                 /\ \E p \in {"next", "parse", "write"} : at' = [at EXCEPT ![b] = p]
      BY <3>3 DEF Look
    <3>4. QED
      BY <1>3, <3>1, <3>2, <3>3
  <2>2. OneBuild /\ Under(b)
    BY <2>1 DEF FollowInv
  <2>3. OneBuild'
    BY <2>1, <2>2 DEF OneBuild, TypeOK
  <2>4. Under(b)'
    <3>1. CASE Write(b)
      BY <2>2, <3>1, WriteFollows
    <3>2. CASE Parse(b) \/ \E f \in Files : Look(b, f)
      <4>1. UNCHANGED <<content, mtime, row, served, state, odd, open, todo, rel>>
        BY <3>2 DEF Parse, Look, corpus, tables
      <4>2. /\ View(b, row, None)' = View(b, row, None)
            /\ View(b, served, 0)' = View(b, served, 0)
            /\ View(b, state, None)' = View(b, state, None)
            /\ View(b, odd, {})' = View(b, odd, {})
        BY <4>1 DEF View
      <4>3. QED
        BY <2>1, <2>2, <4>1, <4>2 DEF Under, Follows, Stamp
    <3>3. QED
      BY <1>3, <3>1, <3>2
  <2>5. ASSUME NEW c \in Builders, c # b PROVE Under(c)'
    <3>1. at'[c] = "rest"
      BY <2>1, <2>2, <2>5 DEF OneBuild, TypeOK
    <3>2. QED
      BY <3>1 DEF Under
  <2>6. Settled'
    BY <2>1 DEF Settled, TypeOK
  <2>7. QED
    BY <2>3, <2>4, <2>5, <2>6
<1>4. CASE End(b)
  <2>1. /\ ~cut /\ at[b] = "next" /\ at' = [at EXCEPT ![b] = "rest"]
        /\ open' = [open EXCEPT ![b] = None]
    BY <1>4 DEF End, Rests
  <2>2. OneBuild /\ Under(b)
    BY <2>1 DEF FollowInv
  <2>3. OneBuild' /\ \A c \in Builders : at'[c] = "rest"
    BY <2>1, <2>2 DEF OneBuild, TypeOK
  <2>4. QED
    BY <1>4, <2>2, <2>3, EndFollows DEF Under
<1>5. QED
  BY <1>1, <1>2, <1>3, <1>4

\* A build that dies or meets another is the end of what is shown here.
LEMMA FollowStep == TypeOK /\ TablesFit /\ AgreeInv /\ FollowInv /\ [Next]_vars => FollowInv'
<1> SUFFICES ASSUME TypeOK, TablesFit, AgreeInv, FollowInv, [Next]_vars, ~cut'
             PROVE  FollowInv'
  BY DEF FollowInv
<1>1. CASE UNCHANGED <<content, mtime, row, served, state, odd, stamp, at, open, todo, rel, cut>>
  BY <1>1 DEF FollowInv, OneBuild, Settled, Under, Follows, View, Stamp
<1>2. ASSUME NEW b \in Builders, Dies(b) \/ Raises(b) \/ RaisesHalf(b) PROVE FALSE
  BY <1>2 DEF Dies, Raises, RaisesHalf, Stops
<1>3. ASSUME NEW f \in Files, Decide(f) PROVE FollowInv'
  BY <1>1, <1>3 DEF Decide, tables, builds
<1>4. ASSUME NEW r \in Readers, Query(r) \/ QueryWithheld(r) \/ Live(r) \/ Admit(r)
      PROVE  FollowInv'
  BY <1>1, <1>4 DEF Query, QueryWithheld, Live, Admit, corpus, tables, builds
<1>5. CASE UNCHANGED vars
  BY <1>1, <1>5 DEF vars
<1>6. ASSUME NEW f \in Files, NEW c \in Contents, Edit(f, c) PROVE FollowInv'
  BY <1>6, EditFollows
<1>7. ASSUME NEW b \in Builders,
             \/ Scan(b) \/ Parse(b) \/ Write(b) \/ End(b)
             \/ \E f \in Files : Look(b, f)
             \/ \E full \in BOOLEAN : Begin(b, full)
      PROVE  FollowInv'
  BY <1>7, BuildFollows
<1>8. QED
  BY <1>2, <1>3, <1>4, <1>5, <1>6, <1>7 DEF Next

LEMMA FollowAlways == Spec => [](TypeOK /\ FollowInv)
<1>1. Init => FollowInv
  BY DEF Init, FollowInv, OneBuild, Settled, Under, Follows
<1>2. QED
  BY <1>1, FollowStep, AgreeAlways, PTL DEF Spec

\* A release, or its withdrawal, reaches the search table of a block with the next
\* build, though its file has not changed, if no build died or met another.
THEOREM ReleasesReachTheTables == Spec => []MembershipFollows
<1>1. FollowInv => MembershipFollows
  BY DEF FollowInv, Settled, Follows, MembershipFollows, Resting, Current
<1>2. QED
  BY <1>1, FollowAlways, PTL

-----------------------------------------------------------------------------
(* The recalls.                                                            *)

\* A hit that is served as active and should not be is of a file the index knows
\* to be behind, until that is looked at.
ServeFits(r, f) ==
    f \notin excused[r] =>
      /\ step[r] \in {"served", "withheld"} =>
           Held(f) /\ (hits[r][f] = "active" => ~Current(f))
      /\ step[r] = "live" => Held(f) /\ hits[r][f] # "active"

\* What is due has been found in the first table, or is in the second.
FindFits(r, f) ==
    f \in due[r] =>
      /\ step[r] # "rest" => Findable(f)
      /\ step[r] = "served" => \/ hits[r][f] = content[f]
                               \/ hits[r][f] = None /\ served[f] = 0
      /\ step[r] \in {"withheld", "live"} => hits[r][f] = content[f]

RecallInv == \A r \in Readers, f \in Files : ServeFits(r, f) /\ FindFits(r, f)

\* A step beside the recalls leaves a file alone, or leaves the index behind it.
LEMMA WatchFits ==
    ASSUME TypeOK, RecallInv, Watch, step' = step, hits' = hits,
           NEW r \in Readers, NEW f \in Files, served'[f] \in Nat,
           \/ Stamp(f)' = Stamp(f) /\ content'[f] = content[f]
           \/ content'[f] \in Statuses => ~Current(f)'
    PROVE  ServeFits(r, f)' /\ FindFits(r, f)'
<1>1. /\ f \notin excused'[r] =>
           /\ f \notin excused[r] /\ Held(f)'
           /\ step[r] \in {"served", "withheld"} => Current(f) \/ ~Current(f)'
      /\ f \in due'[r] =>
           /\ f \in due[r] /\ Findable(f)'
           /\ step[r] = "served" => ~(served[f] = 0 /\ served'[f] > 0)
  BY DEF Watch
<1>2. ServeFits(r, f) /\ FindFits(r, f)
  BY DEF RecallInv
<1>3. ServeFits(r, f)'
  <2>1. ASSUME f \notin excused'[r], step[r] \in {"served", "withheld"}, hits[r][f] = "active"
        PROVE  ~Current(f)'
    BY <1>1, <1>2, <2>1 DEF ServeFits, Held, Statuses
  <2>2. QED
    BY <1>1, <1>2, <2>1 DEF ServeFits
<1>4. FindFits(r, f)'
  <2>1. ASSUME f \in due'[r] PROVE content'[f] = content[f]
    BY <1>1, <2>1 DEF Findable, Statuses
  <2>2. ASSUME f \in due'[r], step[r] = "served", served[f] = 0 PROVE served'[f] = 0
    BY <1>1, <2>2
  <2>3. QED
    BY <1>1, <1>2, <2>1, <2>2 DEF FindFits
<1>5. QED
  BY <1>3, <1>4

LEMMA EditRecalls ==
    ASSUME TypeOK, AgreeInv, RecallInv, NEW e \in Files, NEW c \in Contents, Edit(e, c)
    PROVE  RecallInv'
<1> SUFFICES ASSUME NEW r \in Readers, NEW f \in Files
             PROVE  ServeFits(r, f)' /\ FindFits(r, f)'
  BY DEF RecallInv
<1>1. /\ Watch /\ step' = step /\ hits' = hits
      /\ state' = state /\ served'[f] \in Nat
  BY DEF Edit, tables, recall, TypeOK
<1>2. CASE f # e
  <2>1. Stamp(f)' = Stamp(f) /\ content'[f] = content[f]
    BY <1>2 DEF Edit, Stamp, TypeOK
  <2>2. QED
    BY <1>1, <2>1, WatchFits
<1>3. CASE f = e
  <2>1. content'[f] \in Statuses => Stamp(f)' = mtime[f] + 1
    BY <1>3 DEF Edit, Stamp, Statuses, TypeOK
  <2>2. /\ state[f] # None => state[f] <= mtime[f]
        /\ mtime[f] \in Nat /\ state[f] \in Nat \cup {None} /\ None \notin Nat
    BY IndexAssumption DEF AgreeInv, Agrees, TypeOK
  <2>3. content'[f] \in Statuses => ~Current(f)'
    BY <1>1, <2>1, <2>2 DEF Current
  <2>4. QED
    BY <1>1, <2>3, WatchFits
<1>4. QED
  BY <1>2, <1>3

LEMMA BuildRecalls ==
    ASSUME TypeOK, TypeOK', RecallInv, NEW b \in Builders,
           Write(b) \/ End(b) \/ \E full \in BOOLEAN : Begin(b, full)
    PROVE  RecallInv'
<1> SUFFICES ASSUME NEW r \in Readers, NEW f \in Files
             PROVE  ServeFits(r, f)' /\ FindFits(r, f)'
  BY DEF RecallInv
<1>1. /\ Watch /\ step' = step /\ hits' = hits
      /\ Stamp(f)' = Stamp(f) /\ content'[f] = content[f]
  <2>1. CASE Write(b)
    <3>1. Writes(b)
      BY <2>1, WriteIs
    <3>2. QED
      BY <3>1 DEF Writes, recall, corpus, Stamp
  <2>2. CASE End(b) \/ \E full \in BOOLEAN : Begin(b, full)
    BY <2>2 DEF Begin, End, recall, corpus, Stamp
  <2>3. QED
    BY <2>1, <2>2
<1>2. served'[f] \in Nat
  BY DEF TypeOK
<1>3. QED
  BY <1>1, <1>2, WatchFits

\* query_index and _withhold_inadmissible.
LEMMA ReaderStep ==
    ASSUME TypeOK, TablesFit, AgreeInv, RecallInv, NEW r \in Readers,
           Query(r) \/ QueryWithheld(r) \/ Live(r) \/ Admit(r)
    PROVE  RecallInv'
<1> SUFFICES ASSUME NEW q \in Readers, NEW f \in Files
             PROVE  ServeFits(q, f)' /\ FindFits(q, f)'
  BY DEF RecallInv
<1>1. /\ UNCHANGED <<content, mtime, releases, served, withheld, row, meta, state, odd>>
      /\ (Held(f)' <=> Held(f)) /\ (Findable(f)' <=> Findable(f))
      /\ (Current(f)' <=> Current(f))
  <2>1. UNCHANGED <<content, mtime, releases, served, withheld, row, meta, state, odd>>
    BY DEF Query, QueryWithheld, Live, Admit, corpus, tables
  <2>2. QED
    BY <2>1 DEF Held, Findable, Current, Stamp
<1>2. ServeFits(q, f) /\ FindFits(q, f)
  BY DEF RecallInv
<1>3. CASE q # r
  <2>1. /\ step'[q] = step[q] /\ hits'[q] = hits[q]
        /\ excused'[q] = excused[q] /\ due'[q] = due[q]
    BY <1>3 DEF Query, QueryWithheld, Live, Admit, TypeOK
  <2>2. QED
    BY <1>1, <1>2, <2>1 DEF ServeFits, FindFits
<1>4. CASE q = r /\ Query(r)
  <2>1. /\ step'[r] = "served" /\ hits'[r][f] = IF served[f] > 0 THEN row[f] ELSE None
        /\ f \notin excused'[r] => Held(f) /\ ~Misled(f)
        /\ f \in due'[r] => Findable(f)
    BY <1>4 DEF Query, TypeOK
  <2>2. Agrees(f, row[f], state[f], odd[f])
    BY DEF AgreeInv
  <2>3. Held(f) /\ ~Misled(f) /\ Current(f) => row[f] # "active"
    BY <2>2, IndexAssumption DEF Agrees, Held, Misled, Current, Statuses
  <2>4. Findable(f) => row[f] = content[f] /\ served[f] \in Nat
    BY <2>2 DEF Agrees, Findable, Current, Indexed, Statuses, TypeOK
  <2>5. None # "active"
    BY IndexAssumption DEF Statuses
  <2>6. ServeFits(r, f)'
    BY <1>1, <2>1, <2>3, <2>5 DEF ServeFits
  <2>7. FindFits(r, f)'
    BY <1>1, <2>1, <2>4 DEF FindFits
  <2>8. QED
    BY <1>4, <2>6, <2>7
<1>5. CASE q = r /\ QueryWithheld(r)
  <2>1. /\ step[r] = "served" /\ step'[r] = "withheld"
        /\ hits'[r][f] = IF hits[r][f] = None /\ withheld[f] > 0 /\ f \in releases
                           THEN row[f] ELSE hits[r][f]
        /\ excused' = excused /\ due' = due
    BY <1>5 DEF QueryWithheld, TypeOK
  <2>2. ServeFits(r, f)'
    BY <1>1, <1>2, <1>5, <2>1 DEF ServeFits, Held
  <2>3. ASSUME Findable(f),
               hits[r][f] = content[f] \/ (hits[r][f] = None /\ served[f] = 0)
        PROVE  hits'[r][f] = content[f]
    <3>1. /\ Agrees(f, row[f], state[f], odd[f])
          /\ Fits(row[f], served[f], withheld[f], meta[f], odd[f])
          /\ served[f] \in Nat /\ withheld[f] \in Nat /\ None \notin Statuses
      BY IndexAssumption DEF AgreeInv, TablesFit, TypeOK
    <3>2. row[f] = content[f] /\ row[f] # None /\ content[f] \in Statuses
      BY <2>3, <3>1 DEF Agrees, Findable, Current, Indexed, Statuses
    <3>3. CASE hits[r][f] = content[f]
      BY <2>1, <3>1, <3>2, <3>3
    <3>4. CASE hits[r][f] = None /\ served[f] = 0
      <4>0. odd[f] = {} /\ (content[f] = "active" \/ f \in releases)
        BY <2>3 DEF Findable
      <4>3. /\ served[f] + withheld[f] = 1
            /\ meta[f].content = row[f] /\ meta[f].admitted = (served[f] > 0)
            /\ row[f] = "active" => meta[f].admitted
        BY <3>1, <3>2, <4>0 DEF Fits, Marks, Statuses
      <4>1. withheld[f] > 0
        BY <3>1, <3>4, <4>3
      <4>5. ~(served[f] > 0)
        BY <3>4
      <4>2. f \in releases
        BY <3>2, <4>0, <4>3, <4>5
      <4>4. QED
        BY <2>1, <2>3, <3>1, <3>2, <3>4, <4>1, <4>2
    <3>5. QED
      BY <2>3, <3>3, <3>4
  <2>4. FindFits(r, f)'
    BY <1>1, <1>2, <1>5, <2>1, <2>3 DEF FindFits
  <2>5. QED
    BY <1>5, <2>2, <2>4
<1>6. CASE q = r /\ Live(r)
  <2>1. /\ step[r] = "withheld" /\ step'[r] = "live"
        /\ hits'[r][f] = IF Changed # {} /\ hits[r][f] # None /\ content[f] \in Statuses
                           THEN content[f] ELSE hits[r][f]
        /\ excused' = excused /\ due' = due
    BY <1>6 DEF Live, TypeOK
  <2>2. Changed = {} => Current(f)
    BY DEF Changed
  <2>3. None # "active" /\ None \notin Statuses
    BY IndexAssumption DEF Statuses
  <2>4. ServeFits(r, f)'
    BY <1>1, <1>2, <1>6, <2>1, <2>2, <2>3 DEF ServeFits, Held, Statuses
  <2>5. FindFits(r, f)'
    BY <1>1, <1>2, <1>6, <2>1 DEF FindFits
  <2>6. QED
    BY <1>6, <2>4, <2>5
<1>7. CASE q = r /\ Admit(r)
  <2>1. step'[r] = "rest"
    BY <1>7 DEF Admit, TypeOK
  <2>2. QED
    BY <1>7, <2>1 DEF ServeFits, FindFits
<1>8. QED
  BY <1>3, <1>4, <1>5, <1>6, <1>7

\* The other steps of a build, and decisions.
LEMMA OtherRecalls ==
    ASSUME TypeOK, AgreeInv, RecallInv,
           \/ UNCHANGED vars \/ \E f \in Files : Decide(f)
           \/ \E b \in Builders : \/ Scan(b) \/ Parse(b) \/ Dies(b) \/ Raises(b)
                                  \/ RaisesHalf(b) \/ \E f \in Files : Look(b, f)
    PROVE  RecallInv'
<1> SUFFICES ASSUME NEW r \in Readers, NEW f \in Files
             PROVE  ServeFits(r, f)' /\ FindFits(r, f)'
  BY DEF RecallInv
<1>1. ASSUME NEW e \in Files, Decide(e) PROVE ServeFits(r, f)' /\ FindFits(r, f)'
  <2>1. /\ Watch /\ step' = step /\ hits' = hits /\ served'[f] \in Nat
        /\ Stamp(f)' = Stamp(f) /\ content'[f] = content[f]
    BY <1>1 DEF Decide, tables, recall, Stamp, TypeOK
  <2>2. QED
    BY <2>1, WatchFits
<1>2. ASSUME \/ UNCHANGED vars
             \/ \E b \in Builders : \/ Scan(b) \/ Parse(b) \/ Dies(b) \/ Raises(b)
                                    \/ RaisesHalf(b) \/ \E e \in Files : Look(b, e)
      PROVE  ServeFits(r, f)' /\ FindFits(r, f)'
  <2>1. UNCHANGED <<content, mtime, releases, served, state, odd, step, hits, excused, due>>
    BY <1>2 DEF vars, Scan, Parse, Dies, Raises, RaisesHalf, Stops, Look, corpus,
       tables, recall
  <2>2. ServeFits(r, f) /\ FindFits(r, f)
    BY DEF RecallInv
  <2>3. QED
    BY <2>1, <2>2 DEF ServeFits, FindFits, Held, Findable, Current, Stamp
<1>3. QED
  BY <1>1, <1>2

LEMMA RecallAlways == Spec => []RecallInv
<1>1. Init => RecallInv
  BY DEF Init, RecallInv, ServeFits, FindFits
<1>2. TypeOK /\ TypeOK' /\ TablesFit /\ AgreeInv /\ RecallInv /\ [Next]_vars => RecallInv'
  BY EditRecalls, BuildRecalls, ReaderStep, OtherRecalls DEF Next
<1>3. QED
  BY <1>1, <1>2, AgreeAlways, PTL DEF Spec

\* However old the index is and whatever the builds do, no recall serves a block
\* that was held all through it, but for three cases: a pass caught up with the
\* block's file between query_index and live_statuses, file_state had a newer mtime
\* of the file than was read, or two passes had met at it.
THEOREM OnlyAdmissibleIsServed == Spec => []ServedIsAdmissible
<1>1. TypeOK /\ RecallInv => ServedIsAdmissible
  BY DEF RecallInv, ServeFits, ServedIsAdmissible, Serves, Held
<1>2. QED
  BY <1>1, RecallAlways, AgreeAlways, PTL

\* Every recall finds the blocks it may serve all along and the index agrees on,
\* also those released since the last build and those whose rows a build rewrites
\* under it, but for a block that is moved into blocks_fts between the queries of
\* blocks_fts and of blocks_fts_withheld.
THEOREM WhatIsReleasedIsFound == Spec => []ReleasedIsFound
<1>1. TypeOK /\ RecallInv => ReleasedIsFound
  <2> SUFFICES ASSUME TypeOK, RecallInv, NEW r \in Readers, step[r] = "live", NEW f \in Files,
                      f \in due[r]
               PROVE  f \in Serves(r)
    BY DEF ReleasedIsFound, TypeOK
  <2>1. Findable(f) /\ hits[r][f] = content[f]
    BY DEF RecallInv, FindFits
  <2>2. None # "held"
    BY IndexAssumption DEF Statuses
  <2>3. QED
    BY <2>1, <2>2 DEF Findable, Serves
<1>2. QED
  BY <1>1, RecallAlways, AgreeAlways, PTL
=============================================================================
