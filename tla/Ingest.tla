------------------------------- MODULE Ingest -------------------------------
(***************************************************************************)
(* The ingest door of mind-mem (ingestion_pipeline.py, and ingest-serve in *)
(* mm_cli.py).  Handler threads append each event to a write-ahead log and *)
(* then offer it to a bounded queue; one drain takes events from the log,  *)
(* from a checkpoint on, writes each as a block through the gate, moves    *)
(* the checkpoint and takes as many items out of the queue.  A server that *)
(* starts catches up with the log before it opens, one that stops drains   *)
(* once more, and one that dies does neither.                              *)
(*                                                                         *)
(* A block's id is a digest of its event: the blocks are a set of events.  *)
(* The log is the sequence of what single appends left in it, as in        *)
(* Ledgers.  The queue is its depth: with a log nobody reads its items.    *)
(***************************************************************************)
EXTENDS Sequences, Naturals, FiniteSets

CONSTANTS Handlers,   \* threads of the HTTP server
          Events,
          Textless,   \* the events build_block rejects
          None,
          Capacity,   \* of the queue
          MaxItems,   \* events per pass of the drain
          Tears,      \* what a failed append may leave in the log
          MaxPosts,   \* how often an event is posted
          MaxFaults   \* how often something fails, dies or is stopped

Forms == {"line", "whole", "part"}

ASSUME IngestAssumption ==
    /\ Textless \subseteq Events /\ None \notin Events /\ Tears \subseteq Forms
    /\ Capacity \in Nat \ {0} /\ MaxItems \in Nat \ {0}
    /\ MaxPosts \in Nat /\ MaxFaults \in Nat

VARIABLES wal,         \* ingest-wal.jsonl
          checkpoint,  \* ingest-wal.jsonl.applied
          blocks,      \* the events written as blocks
          depth,       \* of the queue
          mode,        \* where ingest-serve is
          step,        \* where its drain is
          batch,       \* the events of this pass
          done,        \* how many of them are finished
          posted,      \* the event each handler has logged and not yet offered
          acked,       \* history: the events whose append has returned
          faults

files  == <<wal, checkpoint, blocks>>
pass   == <<step, batch, done>>
vars   == <<wal, checkpoint, blocks, depth, mode, step, batch, done, posted,
            acked, faults>>

Modes == {"down", "catchup", "open", "closing"}
Steps == {"rest", "write", "raise", "release"}
Lines == [event : Events, form : Forms]

TypeOK ==
    /\ wal \in Seq(Lines) /\ checkpoint \in Nat /\ blocks \subseteq Events
    /\ depth \in 0..Capacity
    /\ mode \in Modes /\ step \in Steps
    /\ batch \in Seq(Events) /\ done \in 0..Len(batch)
    /\ mode = "down" => batch = <<>>
    /\ posted \in [Handlers -> Events \cup {None}]
    /\ acked \subseteq Events /\ faults \in Nat

Idle == [h \in Handlers |-> None]

Init ==
    /\ wal = <<>> /\ checkpoint = 0 /\ blocks = {} /\ depth = 0
    /\ mode = "down" /\ step = "rest" /\ batch = <<>> /\ done = 0
    /\ posted = Idle /\ acked = {} /\ faults = 0

Least(a, b) == IF a < b THEN a ELSE b

-----------------------------------------------------------------------------
(* Reading a log w: replay() skips what is not a JSON object.              *)

Legible(w, i) ==
    /\ w[i].form # "part"
    /\ i > 1 => w[i - 1].form = "line"
    /\ i < Len(w) => w[i].form = "line"

Read(w) == {i \in DOMAIN w : Legible(w, i)}

\* How many records replay() returns, the place of record i among them, and the
\* event of the k-th.
Count(w)   == Cardinality(Read(w))
Rank(w, i) == Cardinality({j \in 1..i : Legible(w, j)})
Nth(w, k)  == w[CHOOSE i \in Read(w) : Rank(w, i) = k].event

Backlog == IF Count(wal) > checkpoint THEN Count(wal) - checkpoint ELSE 0

\* Seeded fault: the pass takes the newest records.
PendingNewest(limit) ==
    LET k == Least(limit, Backlog)
    IN  [i \in 1..k |-> Nth(wal, Count(wal) - k + i)]

\* pending(), up to a limit.
Pending(limit) ==
    [i \in 1..Least(limit, Backlog) |-> Nth(wal, checkpoint + i)]

-----------------------------------------------------------------------------
(* A handler: do_POST with an event that is a JSON object.                 *)

Post(h, e) ==
    /\ mode \in {"open", "closing"} /\ posted[h] = None
    /\ Len(wal) < MaxPosts
    /\ wal' = Append(wal, [event |-> e, form |-> "line"])
    /\ posted' = [posted EXCEPT ![h] = e]
    /\ acked' = acked \cup {e}
    /\ UNCHANGED <<checkpoint, blocks, depth, mode, pass, faults>>

\* The append fails part way; the request ends without an answer.
PostFails(h, e, form) ==
    /\ mode \in {"open", "closing"} /\ posted[h] = None
    /\ Len(wal) < MaxPosts
    /\ faults < MaxFaults /\ faults' = faults + 1
    /\ wal' = Append(wal, [event |-> e, form |-> form])
    /\ UNCHANGED <<checkpoint, blocks, depth, mode, pass, posted, acked>>

\* Seeded fault: the queue has no bound.
OfferUnbounded(h) ==
    /\ posted[h] # None
    /\ depth' = depth + 1
    /\ posted' = [posted EXCEPT ![h] = None]
    /\ UNCHANGED <<files, mode, pass, acked, faults>>

\* offer(): 202, or 503 when the queue is full.
Offer(h) ==
    /\ posted[h] # None
    /\ depth' = Least(depth + 1, Capacity)
    /\ posted' = [posted EXCEPT ![h] = None]
    /\ UNCHANGED <<files, mode, pass, acked, faults>>

-----------------------------------------------------------------------------
(* The drain, one at a time: of the command that catches up, of its loop,  *)
(* or the last one.                                                        *)

\* What becomes of the command when a pass is over.
AfterPass(ok) ==
    mode' = CASE mode = "catchup" /\ ok -> "open"
              [] mode = "open" /\ ok    -> "open"
              [] mode = "open" /\ ~ok   -> "closing"
              [] OTHER                  -> "down"

\* Threads, queue and drain are gone with the process.
Gone ==
    /\ depth' = 0 /\ posted' = Idle
    /\ step' = "rest" /\ batch' = <<>> /\ done' = 0

EndPass(ok, released) ==
    /\ AfterPass(ok)
    /\ IF mode' = "down"
         THEN Gone
         ELSE /\ depth' = depth - Least(depth, released)
              /\ step' = "rest" /\ batch' = <<>> /\ done' = 0
              /\ UNCHANGED posted

Start ==
    /\ mode = "down"
    /\ mode' = "catchup"
    /\ UNCHANGED <<files, depth, pass, posted, acked, faults>>

\* Seeded fault: the loop waits for something in the queue.
TakeQueued ==
    /\ step = "rest" /\ mode # "down" /\ (depth > 0 \/ mode # "open")
    /\ batch' = Pending(IF mode = "catchup" THEN Len(wal) ELSE MaxItems)
    /\ batch' # <<>>
    /\ step' = "write"
    /\ UNCHANGED <<files, depth, mode, done, posted, acked, faults>>

Take ==
    /\ step = "rest" /\ mode # "down"
    /\ batch' = Pending(IF mode = "catchup" THEN Len(wal) ELSE MaxItems)
    /\ batch' # <<>>
    /\ step' = "write"
    /\ UNCHANGED <<files, depth, mode, done, posted, acked, faults>>

TakeNothing ==
    /\ step = "rest" /\ mode \in {"catchup", "closing"}
    /\ Pending(MaxItems) = <<>>
    /\ EndPass(TRUE, 0)
    /\ UNCHANGED <<files, acked, faults>>

\* The block is written in a scope of the gate, or the event has no text and
\* counts as finished all the same.
Write ==
    /\ step = "write" /\ done < Len(batch)
    /\ blocks' = blocks \cup ({batch[done + 1]} \ Textless)
    /\ done' = done + 1
    /\ UNCHANGED <<wal, checkpoint, depth, mode, step, batch, posted, acked, faults>>

\* Any other exception ends the pass, once the checkpoint is moved.
WriteFails ==
    /\ step = "write" /\ done < Len(batch)
    /\ faults < MaxFaults /\ faults' = faults + 1
    /\ step' = "raise"
    /\ UNCHANGED <<files, depth, mode, batch, done, posted, acked>>

\* Seeded fault: the checkpoint moves past the whole batch.
AdvanceBatch ==
    /\ \/ step = "raise"
       \/ step = "write" /\ done = Len(batch)
    /\ checkpoint' = checkpoint + Len(batch)
    /\ IF step = "raise"
         THEN EndPass(FALSE, 0)
         ELSE step' = "release" /\ UNCHANGED <<mode, batch, done, depth, posted>>
    /\ UNCHANGED <<wal, blocks, acked, faults>>

\* The finally clause of replay_wal.
Advance ==
    /\ \/ step = "raise"
       \/ step = "write" /\ done = Len(batch)
    /\ checkpoint' = checkpoint + done
    /\ IF step = "raise"
         THEN EndPass(FALSE, 0)
         ELSE step' = "release" /\ UNCHANGED <<mode, batch, done, depth, posted>>
    /\ UNCHANGED <<wal, blocks, acked, faults>>

Release ==
    /\ step = "release"
    /\ EndPass(TRUE, done)
    /\ UNCHANGED <<files, acked, faults>>

\* The operator interrupts the loop between two passes.
Stop ==
    /\ mode = "open" /\ step = "rest"
    /\ faults < MaxFaults /\ faults' = faults + 1
    /\ mode' = "closing"
    /\ UNCHANGED <<files, depth, pass, posted, acked>>

Crash ==
    /\ mode # "down"
    /\ faults < MaxFaults /\ faults' = faults + 1
    /\ mode' = "down"
    /\ Gone
    /\ UNCHANGED <<files, acked>>

Drain == Take \/ TakeNothing \/ Write \/ Advance \/ Release

Next ==
    \/ \E h \in Handlers, e \in Events :
         \/ Post(h, e)
         \/ \E form \in Tears : PostFails(h, e, form)
    \/ \E h \in Handlers : Offer(h)
    \/ Start \/ Drain \/ WriteFails \/ Stop \/ Crash

Spec == Init /\ [][Next]_vars

\* The loop of ingest-serve goes on by itself, and somebody starts it again.
FairSpec == Spec /\ WF_vars(Drain) /\ WF_vars(Start)

-----------------------------------------------------------------------------

Settled(e) == e \in blocks \cup Textless

\* Logged behind a record that has lost its end: the two are one line, which
\* replay() cannot read.
Swallowed(e) ==
    \E i \in DOMAIN wal : /\ i > 1 /\ wal[i].event = e
                         /\ wal[i].form = "line" /\ wal[i - 1].form # "line"

\* An event whose append has returned is a block (or was rejected for having
\* no text), or replay() will still return it behind the checkpoint: a kill
\* at any point loses nothing but the one event logged behind a torn record.
NothingLost ==
    \A e \in acked :
        \/ Settled(e)
        \/ Swallowed(e)
        \/ \E i \in Read(wal) : wal[i].event = e /\ Rank(wal, i) > checkpoint

\* The blocks are those of a beginning of the log, at least as long as the
\* checkpoint: no pass leaves a gap and none runs ahead, whatever was applied
\* twice on the way.
AppliedIsAPrefix ==
    \E k \in checkpoint..Count(wal) :
        blocks = {Nth(wal, i) : i \in 1..k} \ Textless

\* Every logged event becomes a block in the end, also one answered with 503,
\* and one whose handler died before it was offered; only one logged behind a
\* torn record does not.
AckedIsApplied == \A e \in Events : e \in acked ~> Settled(e) \/ Swallowed(e)
=============================================================================
