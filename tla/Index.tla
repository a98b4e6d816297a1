-------------------------------- MODULE Index --------------------------------
(***************************************************************************)
(* The recall index of mind-mem (sqlite_index.py) and the admission of its *)
(* hits (admissibility.py).  Passes of build_index, one at a time in each  *)
(* process, compare the corpus with what file_state and index_meta say of  *)
(* the last pass, and commit one file after the other; recalls read the    *)
(* tables, ask whether the index is stale, and withhold what the corpus or *)
(* the releases do not admit.  Nobody locks the files: they change between *)
(* any two looks.                                                          *)
(*                                                                         *)
(* A file holds at most one block, which is named like it.  A new mtime    *)
(* comes with every write.                                                 *)
(***************************************************************************)
EXTENDS Integers

CONSTANTS Files,
          Named,     \* the files of the corpus table, looked for by name
          Builders,  \* processes that build the index
          Readers,   \* recalls
          None,
          MaxEdits,  \* how often the corpus changes
          MaxFaults  \* how often a build dies or raises

Statuses == {"active", "held"}  \* held: any status that is not servable
Contents == Statuses \cup {"absent", "empty", "garbled"}
Marks    == [content : Statuses, admitted : BOOLEAN]
Reasons  == {"stamp", "clash", "unread", "left", "half"}

ASSUME IndexAssumption ==
    /\ Named \subseteq Files
    /\ "all" \notin Files /\ None \notin Files \cup Statuses \cup {"all"}
    /\ None \notin Nat /\ None \notin Marks
    /\ MaxEdits \in Nat /\ MaxFaults \in Nat

VARIABLES content,   \* the corpus: what each file holds,
          mtime,     \* when it was written,
          releases,  \* and the ids decisions/DECISIONS.md releases
          row,       \* blocks: the status of each block there
          served,    \* blocks_fts: how many rows of it there are
          withheld,  \* blocks_fts_withheld, likewise
          meta,      \* index_meta
          state,     \* file_state
          stamp,     \* the release set meta.release_set_hash is of, once there is one
          at,        \* where each build is
          rel,       \* the release set it goes by
          force,     \* whether it is a full one
          todo,      \* the files it has not come to
          file,      \* the one it is at,
          base,      \* what index_meta said of it,
          got,       \* what was read from it,
          seen,      \* and when that was written
          open,      \* what each process has changed and not committed
          step,      \* where each recall is
          hits,      \* the status of each of its hits
          excused,   \* history: what it may serve,
          due,       \* history: what it has to find
          odd,       \* history: what was odd about the last pass over a file
          cut,       \* history: a build has died, or has overlapped another
          edits, faults

corpus == <<content, mtime, releases>>
tables == <<row, served, withheld, meta, state, stamp, odd>>
builds == <<at, rel, force, todo, file, base, got, seen, open, cut>>
recall == <<step, hits>>
vars   == <<content, mtime, releases, row, served, withheld, meta, state, stamp,
            at, rel, force, todo, file, base, got, seen, open, step, hits,
            excused, due, odd, cut, edits, faults>>

All == "all"  \* of open: every table was cleared

TypeOK ==
    /\ content \in [Files -> Contents] /\ mtime \in [Files -> Nat]
    /\ releases \subseteq Files
    /\ row \in [Files -> Statuses \cup {None}]
    /\ served \in [Files -> Nat]
    /\ withheld \in [Files -> Nat]
    /\ meta \in [Files -> Marks \cup {None}]
    /\ state \in [Files -> Nat \cup {None}]
    /\ stamp \subseteq SUBSET Files
    /\ at \in [Builders -> {"rest", "scan", "next", "parse", "write"}]
    /\ rel \in [Builders -> SUBSET Files] /\ force \in [Builders -> BOOLEAN]
    /\ todo \in [Builders -> SUBSET Files]
    /\ file \in [Builders -> Files \cup {None}]
    /\ base \in [Builders -> Marks \cup {None}]
    /\ got \in [Builders -> Statuses \cup {"absent", "empty", "unread", "there"}]
    /\ seen \in [Builders -> Nat \cup {None}]
    /\ open \in [Builders -> Files \cup {None, All}]
    /\ \A b \in Builders :
         /\ at[b] \in {"parse", "write"} => file[b] \in Files
         /\ at[b] = "write" => got[b] # "there"
    /\ step \in [Readers -> {"rest", "served", "withheld", "live"}]
    /\ hits \in [Readers -> [Files -> Statuses \cup {None}]]
    /\ excused \in [Readers -> SUBSET Files] /\ due \in [Readers -> SUBSET Files]
    /\ odd \in [Files -> SUBSET Reasons] /\ cut \in BOOLEAN
    /\ edits \in Nat /\ faults \in Nat

Init ==
    /\ content \in [Files -> Contents] /\ mtime = [f \in Files |-> 0]
    /\ releases = {}
    /\ row = [f \in Files |-> None] /\ meta = [f \in Files |-> None]
    /\ served = [f \in Files |-> 0] /\ withheld = [f \in Files |-> 0]
    /\ state = [f \in Files |-> None] /\ stamp = {}
    /\ at = [b \in Builders |-> "rest"]
    /\ rel = [b \in Builders |-> {}] /\ todo = [b \in Builders |-> {}]
    /\ force = [b \in Builders |-> FALSE]
    /\ file = [b \in Builders |-> None] /\ base = [b \in Builders |-> None]
    /\ got = [b \in Builders |-> "absent"] /\ seen = [b \in Builders |-> None]
    /\ open = [b \in Builders |-> None]
    /\ step = [r \in Readers |-> "rest"]
    /\ hits = [r \in Readers |-> [f \in Files |-> None]]
    /\ excused = [r \in Readers |-> {}] /\ due = [r \in Readers |-> {}]
    /\ odd = [f \in Files |-> {}] /\ cut = FALSE
    /\ edits = 0 /\ faults = 0

-----------------------------------------------------------------------------
(* What the checks look at.                                                *)

\* The mtime of a file, if it is there.
Stamp(f) == IF content[f] = "absent" THEN None ELSE mtime[f]

Current(f) == state[f] = Stamp(f)
Changed    == {f \in Files : ~Current(f)}

\* The block is in the corpus, and recall must not serve it.
Held(f) == content[f] = "held" /\ f \notin releases

\* The block is in the corpus, recall may serve it, and the index knows.
Findable(f) ==
    /\ content[f] = "active" \/ (content[f] = "held" /\ f \in releases)
    /\ Current(f) /\ odd[f] = {}

\* The last pass over the file has recorded more than it has read, or has
\* worked on what another one had changed.
Misled(f) == odd[f] \cap {"stamp", "clash"} # {}

\* At a step of somebody else: what a recall under way may serve from now on, and
\* what it still has to find.  A pass that catches up with a file between the
\* query and live_statuses hides from it that the status of the hit is an old one;
\* one that moves a block from the second table to the first, after the first and
\* before the second is queried, takes it away under the recall.
Watch ==
    /\ excused' = [r \in Readers |-> excused[r] \cup {f \in Files :
                     \/ ~Held(f)'
                     \/ step[r] \in {"served", "withheld"} /\ ~Current(f) /\ Current(f)'}]
    /\ due' = [r \in Readers |-> {f \in due[r] :
                     /\ Findable(f)'
                     /\ ~(step[r] = "served" /\ served[f] = 0 /\ served'[f] > 0)}]

-----------------------------------------------------------------------------
(* The corpus: edits, governed changes of status, deletions, moves; and    *)
(* the decisions that release a block or take that back.                   *)

Edit(f, c) ==
    /\ c # "absent" \/ content[f] # "absent"
    /\ edits < MaxEdits /\ edits' = edits + 1
    /\ content' = [content EXCEPT ![f] = c]
    /\ mtime' = [mtime EXCEPT ![f] = @ + 1]
    /\ UNCHANGED <<releases, tables, builds, recall, faults>>
    /\ Watch

Decide(f) ==
    /\ edits < MaxEdits /\ edits' = edits + 1
    /\ releases' = IF f \in releases THEN releases \ {f} ELSE releases \cup {f}
    /\ UNCHANGED <<content, mtime, tables, builds, recall, faults>>
    /\ Watch

-----------------------------------------------------------------------------
(* build_index.                                                            *)

Resting == \A b \in Builders : at[b] = "rest"

\* No other process holds the write lock of the database.
Free(b) == \A c \in Builders \ {b} : open[c] = None

\* What the connection of b sees of a table, of which z is an empty row.
View(b, table, z) == IF open[b] = All THEN [f \in Files |-> z] ELSE table

\* A commit of what the process has left open: every table cleared, or one block
\* deleted and not put back.
Left(b) == IF open[b] = All THEN Files ELSE {open[b]} \cap Files

Commits(b) ==
    LET rid(table, z) == [f \in Files |-> IF f \in Left(b) THEN z ELSE table[f]]
        half(f)       == (odd[f] \ {"clash"}) \cup {"half"}
    IN  /\ row' = rid(row, None)
        /\ served' = rid(served, 0) /\ withheld' = rid(withheld, 0)
        /\ meta' = View(b, meta, None) /\ state' = View(b, state, None)
        /\ odd' = View(b, [f \in Files |-> IF f \in Left(b) THEN half(f) ELSE odd[f]], {})

\* executescript commits what the last build of the process left open.
Begin(b, full) ==
    /\ at[b] = "rest"
    /\ Commits(b)
    /\ at' = [at EXCEPT ![b] = "scan"]
    /\ rel' = [rel EXCEPT ![b] = releases]
    /\ force' = [force EXCEPT ![b] = full]
    /\ open' = [open EXCEPT ![b] = None]
    /\ cut' = (cut \/ ~Resting)
    /\ UNCHANGED <<corpus, stamp, todo, file, base, got, seen, recall, edits, faults>>
    /\ Watch

\* discover_corpus_files: what the table names and what is in the directories.
Discovered == Named \cup {f \in Files : content[f] # "absent"}

\* It is asked for, or no build has ended that knew these tables.
Full(b) == force[b] \/ stamp = {}

\* Seeded fault: the releases are not compared with those of the last build.
ScanFiles(b) ==
    /\ at[b] = "scan"
    /\ \/ /\ Full(b) /\ Free(b)
          /\ todo' = [todo EXCEPT ![b] = Discovered]
          /\ open' = [open EXCEPT ![b] = All]
       \/ /\ ~Full(b)
          /\ todo' = [todo EXCEPT ![b] = Changed]
          /\ UNCHANGED open
    /\ at' = [at EXCEPT ![b] = "next"]
    /\ UNCHANGED <<corpus, tables, rel, force, file, base, got, seen, cut, recall,
                   excused, due, edits, faults>>

\* A full build clears every table, in a transaction the first file commits.
\* Another one looks for changed files, or at all of them when the releases are
\* not those of the last build.
Scan(b) ==
    /\ at[b] = "scan"
    /\ \/ /\ Full(b) /\ Free(b)
          /\ todo' = [todo EXCEPT ![b] = Discovered]
          /\ open' = [open EXCEPT ![b] = All]
       \/ /\ ~Full(b)
          /\ todo' = [todo EXCEPT ![b] = IF stamp = {rel[b]} THEN Changed ELSE Discovered]
          /\ UNCHANGED open
    /\ at' = [at EXCEPT ![b] = "next"]
    /\ UNCHANGED <<corpus, tables, rel, force, file, base, got, seen, cut, recall,
                   excused, due, edits, faults>>

\* _index_file: what index_meta says of the file, and whether it is there.
Look(b, f) ==
    /\ at[b] = "next" /\ f \in todo[b]
    /\ file' = [file EXCEPT ![b] = f]
    /\ base' = [base EXCEPT ![b] = View(b, meta, None)[f]]
    /\ seen' = [seen EXCEPT ![b] = Stamp(f)]
    /\ \/ /\ content[f] = "absent"
          /\ got' = [got EXCEPT ![b] = "absent"] /\ at' = [at EXCEPT ![b] = "write"]
       \/ /\ content[f] # "absent"
          /\ got' = [got EXCEPT ![b] = "there"] /\ at' = [at EXCEPT ![b] = "parse"]
    /\ UNCHANGED <<corpus, tables, rel, force, todo, open, cut, recall, excused, due,
                   edits, faults>>

\* Seeded fault: what cannot be read is not told from what can.
ParseAll(b) ==
    /\ at[b] = "parse"
    /\ got' = [got EXCEPT ![b] = content[file[b]]]
    /\ seen' = [seen EXCEPT ![b] = Stamp(file[b])]
    /\ at' = [at EXCEPT ![b] = "write"]
    /\ UNCHANGED <<corpus, tables, rel, force, todo, file, base, open, cut, recall,
                   excused, due, edits, faults>>

\* parse_file, which cannot read a file that is gone or is no UTF-8.
Parse(b) ==
    /\ at[b] = "parse"
    /\ got' = [got EXCEPT ![b] = IF content[file[b]] \in {"absent", "garbled"}
                                   THEN "unread" ELSE content[file[b]]]
    /\ seen' = [seen EXCEPT ![b] = Stamp(file[b])]
    /\ at' = [at EXCEPT ![b] = "write"]
    /\ UNCHANGED <<corpus, tables, rel, force, todo, file, base, open, cut, recall,
                   excused, due, edits, faults>>

-----------------------------------------------------------------------------
(* The rest of _index_file and its commit.  file_state is what the file is *)
(* like by then.                                                           *)

\* What b knew of the file is forgotten.
Over(b) ==
    /\ file' = [file EXCEPT ![b] = None] /\ base' = [base EXCEPT ![b] = None]
    /\ got' = [got EXCEPT ![b] = "absent"] /\ seen' = [seen EXCEPT ![b] = None]

\* Since b has looked, the file has changed, or what the index says of it.
Late(b) ==
    {x \in {"stamp"} : seen[b] # Stamp(file[b])} \cup
    {x \in {"clash"} : base[b] # View(b, meta, None)[file[b]]}

\* The file has rows rw, n of them served and m withheld, and mark mk in
\* index_meta; and what was odd about this.
Commit(b, rw, n, m, mk, why) ==
    LET f == file[b] IN
    /\ at[b] = "write" /\ Free(b)
    /\ row' = [View(b, row, None) EXCEPT ![f] = rw]
    /\ served' = [View(b, served, 0) EXCEPT ![f] = n]
    /\ withheld' = [View(b, withheld, 0) EXCEPT ![f] = m]
    /\ meta' = [View(b, meta, None) EXCEPT ![f] = mk]
    /\ state' = [View(b, state, None) EXCEPT ![f] = Stamp(f)]
    /\ odd' = [View(b, odd, {}) EXCEPT ![f] = why \cup Late(b)]
    /\ at' = [at EXCEPT ![b] = "next"]
    /\ todo' = [todo EXCEPT ![b] = @ \ {f}]
    /\ Over(b)
    /\ open' = [open EXCEPT ![b] = None]
    /\ UNCHANGED <<corpus, stamp, rel, force, cut, recall, edits, faults>>
    /\ Watch

\* Nothing is done to the rows.
Keep(b, why) ==
    LET f == file[b] IN
    Commit(b, View(b, row, None)[f], View(b, served, 0)[f], View(b, withheld, 0)[f],
           View(b, meta, None)[f], (View(b, odd, {})[f] \ {"stamp", "unread"}) \cup why)

Mark(b) == [content |-> got[b], admitted |-> got[b] = "active" \/ file[b] \in rel[b]]

\* The block is put in the table it belongs to, which has the rows n and the
\* other one m.
Insert(b, n, m) ==
    LET k == IF Mark(b).admitted THEN 1 ELSE 0 IN
    Commit(b, got[b], n + k, m + 1 - k, Mark(b),
           IF base[b] = None THEN View(b, odd, {})[file[b]] \cap {"clash"} ELSE {})

\* Of a file that is not there the rows are deleted, but not the mark.
Missing(b) ==
    /\ got[b] = "absent"
    /\ \/ base[b] = None /\ Keep(b, {})
       \/ base[b] # None /\ Commit(b, None, 0, 0, View(b, meta, None)[file[b]], {"left"})

\* Of a file that cannot be read the rows stay.
Unread(b) == got[b] = "unread" /\ Keep(b, {"unread"})

\* Of a file that has lost its block both go.
Empty(b) ==
    /\ got[b] = "empty"
    /\ \/ base[b] = None /\ Keep(b, {})
       \/ base[b] # None /\ Commit(b, None, 0, 0, None, {})

New(b) ==
    /\ got[b] \in Statuses /\ base[b] = None
    /\ Insert(b, View(b, served, 0)[file[b]], View(b, withheld, 0)[file[b]])

\* Seeded fault: only the verdicts are compared.
IsAdmittedAnew(b) ==
    /\ got[b] \in Statuses /\ base[b] # None
    /\ force[b] \/ base[b].admitted # Mark(b).admitted

\* The block is another one than the last time, or is to be admitted now and was
\* not then, or the other way round.
IsModified(b) == got[b] \in Statuses /\ base[b] # None /\ (force[b] \/ base[b] # Mark(b))

\* Seeded fault: the old row is deleted from blocks_fts alone.
ModifiedServed(b) == IsModified(b) /\ Insert(b, 0, View(b, withheld, 0)[file[b]])

Modified(b)  == IsModified(b) /\ Insert(b, 0, 0)
Unchanged(b) == got[b] \in Statuses /\ base[b] # None /\ ~IsModified(b) /\ Keep(b, {})

Write(b) == Missing(b) \/ Unread(b) \/ Empty(b) \/ New(b) \/ Modified(b) \/ Unchanged(b)

Rests(b) ==
    /\ at' = [at EXCEPT ![b] = "rest"] /\ todo' = [todo EXCEPT ![b] = {}]
    /\ rel' = [rel EXCEPT ![b] = {}] /\ force' = [force EXCEPT ![b] = FALSE]
    /\ Over(b)

\* The last commit, which is also the first one of a full build without files.
End(b) ==
    /\ at[b] = "next" /\ todo[b] = {} /\ Free(b)
    /\ Commits(b)
    /\ stamp' = {rel[b]}
    /\ open' = [open EXCEPT ![b] = None]
    /\ Rests(b)
    /\ UNCHANGED <<corpus, cut, recall, edits, faults>>
    /\ Watch

\* The process dies and the database drops what was not committed, or the build
\* raises, and the connection stays as it is: perhaps between the deletion of a
\* modified block and its insertion.
Stops(b, what) ==
    /\ at[b] # "rest"
    /\ faults < MaxFaults /\ faults' = faults + 1
    /\ Rests(b)
    /\ open' = [open EXCEPT ![b] = what]
    /\ cut' = TRUE
    /\ UNCHANGED <<corpus, tables, recall, excused, due, edits>>

Dies(b)       == Stops(b, None)
Raises(b)     == Stops(b, open[b])
RaisesHalf(b) == /\ at[b] = "write" /\ Free(b) /\ open[b] = None
                 /\ IsModified(b) /\ Stops(b, file[b])

-----------------------------------------------------------------------------
(* A recall: query_index, then _withhold_inadmissible.                     *)

Query(r) ==
    /\ step[r] = "rest"
    /\ step' = [step EXCEPT ![r] = "served"]
    /\ hits' = [hits EXCEPT ![r] = [f \in Files |-> IF served[f] > 0 THEN row[f] ELSE None]]
    /\ excused' = [excused EXCEPT ![r] = {f \in Files : ~Held(f) \/ Misled(f)}]
    /\ due' = [due EXCEPT ![r] = {f \in Files : Findable(f)}]
    /\ UNCHANGED <<corpus, tables, builds, edits, faults>>

\* Seeded fault: what was released since the last build is not looked for.
QueryServed(r) ==
    /\ step[r] = "served"
    /\ step' = [step EXCEPT ![r] = "withheld"]
    /\ UNCHANGED <<corpus, tables, builds, hits, excused, due, edits, faults>>

\* _released_withheld_rows.
QueryWithheld(r) ==
    /\ step[r] = "served"
    /\ step' = [step EXCEPT ![r] = "withheld"]
    /\ hits' = [hits EXCEPT ![r] = [f \in Files |->
                  IF @[f] = None /\ withheld[f] > 0 /\ f \in releases THEN row[f] ELSE @[f]]]
    /\ UNCHANGED <<corpus, tables, builds, excused, due, edits, faults>>

\* Seeded fault: the statuses of the index are trusted.
LiveTrusted(r) ==
    /\ step[r] = "withheld"
    /\ step' = [step EXCEPT ![r] = "live"]
    /\ UNCHANGED <<corpus, tables, builds, hits, excused, due, edits, faults>>

\* live_statuses: where any file is changed, the corpus says what the status is.
Live(r) ==
    /\ step[r] = "withheld"
    /\ step' = [step EXCEPT ![r] = "live"]
    /\ hits' = [hits EXCEPT ![r] = [f \in Files |->
                  IF Changed # {} /\ @[f] # None /\ content[f] \in Statuses
                    THEN content[f] ELSE @[f]]]
    /\ UNCHANGED <<corpus, tables, builds, excused, due, edits, faults>>

\* admit_leg: what recall r is going to serve.
Serves(r) ==
    {f \in Files : hits[r][f] = "active" \/ (hits[r][f] # None /\ f \in releases)}

\* The answer goes to the caller.
Admit(r) ==
    /\ step[r] = "live"
    /\ step' = [step EXCEPT ![r] = "rest"]
    /\ hits' = [hits EXCEPT ![r] = [f \in Files |-> None]]
    /\ excused' = [excused EXCEPT ![r] = {}] /\ due' = [due EXCEPT ![r] = {}]
    /\ UNCHANGED <<corpus, tables, builds, edits, faults>>

-----------------------------------------------------------------------------

Next ==
    \/ \E f \in Files : Decide(f) \/ \E c \in Contents : Edit(f, c)
    \/ \E b \in Builders :
         \/ \E full \in BOOLEAN : Begin(b, full)
         \/ \E f \in Files : Look(b, f)
         \/ Scan(b) \/ Parse(b) \/ Write(b) \/ End(b)
         \/ Dies(b) \/ Raises(b) \/ RaisesHalf(b)
    \/ \E r \in Readers : Query(r) \/ QueryWithheld(r) \/ Live(r) \/ Admit(r)

Spec == Init /\ [][Next]_vars

-----------------------------------------------------------------------------

\* What the index has of a file that holds c.
Indexed(c) == IF c \in Statuses THEN c ELSE None

\* A block is in one of the two tables, once, and in the one its mark says,
\* through deletions, changed verdicts, full builds and builds that died; unless
\* two processes have indexed its file at the same time.
OneTable ==
    \A f \in Files : "clash" \notin odd[f] =>
        /\ served[f] + withheld[f] = (IF row[f] = None THEN 0 ELSE 1)
        /\ row[f] # None => meta[f].content = row[f] /\ meta[f].admitted = (served[f] > 0)

\* An index that is not stale agrees with the corpus, but for what is odd: the
\* file has changed between the look and the stat, could not be read, came back
\* after its rows were deleted, two passes met, or one was cut in half.
CurrentAgrees ==
    \A f \in Files : Current(f) /\ odd[f] = {} => row[f] = Indexed(content[f])

\* "so the index cannot end up permanently wrong": what the last pass has read
\* in peace, it has indexed.
NeverPermanentlyWrong ==
    \A f \in Files : Current(f) /\ odd[f] \subseteq {"left"} => row[f] = Indexed(content[f])

\* A release, or its withdrawal, reaches the table a block is in, though its
\* file has not changed; unless a build has died, or met another.
MembershipFollows ==
    Resting /\ ~cut => \A f \in Files :
        Current(f) /\ odd[f] = {} /\ row[f] # None =>
            (served[f] > 0 <=> row[f] = "active" \/ f \in UNION stamp)

\* What a recall serves was not held at some moment of it, however old the index
\* is; unless a pass caught up with the file between the query and the check of
\* the live statuses, or the index had recorded the file under a newer mtime than
\* it had read, or two passes had met at it.
ServedIsAdmissible ==
    \A r \in Readers : step[r] = "live" => Serves(r) \subseteq excused[r]

\* A recall finds every block it may serve all along and the index agrees on,
\* also one released since the last build, whatever builds do to its rows
\* meanwhile; unless one of them moves the block to the first table when the recall
\* has looked there and not yet in the second.
ReleasedIsFound ==
    \A r \in Readers : step[r] = "live" => due[r] \subseteq Serves(r)
=============================================================================
