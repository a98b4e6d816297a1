---------------------------- MODULE AdmissionLog ----------------------------
(***************************************************************************)
(* What the two ledgers of the governance gate promise together: evidence  *)
(* is only ever added, an admission enters the hash chain after its        *)
(* evidence is on record and at most once, and the seal names the end the  *)
(* chain had when it was written.                                          *)
(***************************************************************************)
EXTENDS Sequences, Naturals, SequencesExt

CONSTANTS Records,  \* what can be recorded
          Genesis   \* the seal of a chain nobody has sealed

VARIABLES log,      \* the evidence on record, oldest first
          chain,    \* the entries of the hash chain
          head      \* the sealed entry

vars == <<log, chain, head>>

Init == log = <<>> /\ chain = <<>> /\ head = Genesis

Record(r) ==
    /\ r \notin ToSet(log)
    /\ log' = Append(log, r)
    /\ UNCHANGED <<chain, head>>

Enter(r) ==
    /\ r \in ToSet(log) \ ToSet(chain)
    /\ chain' = Append(chain, r)
    /\ UNCHANGED <<log, head>>

Seal ==
    /\ chain # <<>>
    /\ head' = Last(chain)
    /\ UNCHANGED <<log, chain>>

Next ==
    \/ \E r \in Records : Record(r) \/ Enter(r)
    \/ Seal

Spec == Init /\ [][Next]_vars
=============================================================================
