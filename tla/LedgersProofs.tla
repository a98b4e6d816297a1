---------------------------- MODULE LedgersProofs ----------------------------
(***************************************************************************)
(* Proofs about Ledgers for any processes, records and faults.             *)
(***************************************************************************)
EXTENDS Ledgers, SequenceTheorems, FiniteSetTheorems, TLAPS

\* Appending keeps what was there and adds one at the end.
LEMMA Appended ==
    ASSUME NEW S, NEW s \in Seq(S), NEW e \in S
    PROVE  /\ Append(s, e) \in Seq(S)
           /\ Len(Append(s, e)) = Len(s) + 1 /\ Len(s) \in Nat
           /\ \A i \in 1..Len(s) : Append(s, e)[i] = s[i]
           /\ Append(s, e)[Len(s) + 1] = e
           /\ ToSet(Append(s, e)) = ToSet(s) \cup {e}
<1>1. /\ Append(s, e) \in Seq(S)
      /\ Len(Append(s, e)) = Len(s) + 1
      /\ \A i \in 1..Len(s) : Append(s, e)[i] = s[i]
      /\ Append(s, e)[Len(s) + 1] = e
  BY AppendProperties
<1>2. /\ Len(s) \in Nat /\ DOMAIN s = 1..Len(s)
      /\ DOMAIN Append(s, e) = 1..(Len(s) + 1)
  BY <1>1, LenProperties
<1>3. ToSet(Append(s, e)) = ToSet(s) \cup {e}
  <2>1. ASSUME NEW i \in 1..(Len(s) + 1) PROVE i \in 1..Len(s) \/ i = Len(s) + 1
    BY <1>2
  <2>2. 1..Len(s) \subseteq 1..(Len(s) + 1) /\ Len(s) + 1 \in 1..(Len(s) + 1)
    BY <1>2
  <2>3. QED
    BY <1>1, <1>2, <2>1, <2>2 DEF ToSet
<1>4. QED
  BY <1>1, <1>2, <1>3

\* The end of a view is a number.
LEMMA AbsorbedType ==
    ASSUME TypeOK, NEW p \in Procs
    PROVE  Absorbed(p) \in Nat
<1>1. CASE offset[p] < Len(store)
  <2>1. Len(store) \in Nat /\ Len(store) \in 1..Len(store)
    BY <1>1, LenProperties DEF TypeOK
  <2>2. store[Len(store)] \in Chunks
    BY <2>1, ElementOfSeq DEF TypeOK
  <2>3. QED
    BY <1>1, <2>2 DEF Absorbed, Last, Chunks
<1>2. CASE ~(offset[p] < Len(store))
  BY <1>2 DEF Absorbed, TypeOK
<1>3. QED
  BY <1>1, <1>2

\* What is appended to the store is a chunk.
LEMMA ForgeType ==
    ASSUME TypeOK, NEW p \in Procs, NEW form \in Forms
    PROVE  Forge(p, form) \in Chunks
BY AbsorbedType DEF Forge, Chunks, TypeOK

\* What TypeOK says of where the processes are.
LocalsType ==
    /\ pc \in [Procs -> PCs]
    /\ scope \in [Procs -> Nat] /\ rec \in [Procs -> Nat]
    /\ baseline \in [Procs -> Nat]
    /\ \A p \in Procs : pc[p] \in InScope <=> scope[p] # 0

\* A process that leaves its scope is in none.
LEMMA LeaveType ==
    ASSUME TypeOK, NEW p \in Procs, NEW there \in {"idle", "down"}, Leave(p, there)
    PROVE  LocalsType'
BY DEF Leave, Goto, LocalsType, TypeOK, PCs, InScope

\* An admission that succeeds leads into the body or out of the scope.
LEMMA AdmittedType ==
    ASSUME TypeOK, NEW p \in Procs, pc[p] = "seal", Admitted(p)
    PROVE  LocalsType'
<1>1. CASE rec[p] = scope[p]
  BY <1>1 DEF Admitted, Goto, LocalsType, TypeOK, PCs, InScope
<1>2. CASE rec[p] # scope[p]
  BY <1>2, LeaveType DEF Admitted
<1>3. QED
  BY <1>1, <1>2

\* The view after a refresh.
LEMMA LookAgainType ==
    ASSUME TypeOK, NEW p \in Procs, NEW last \in Nat, NEW n \in Nat,
           LookAgain(p, last, n)
    PROVE  /\ tail' \in [Procs -> Nat] /\ offset' \in [Procs -> Nat]
           /\ gen' \in [Procs -> Nat] /\ frozen' \in [Procs -> BOOLEAN]
<1>1. Len(store) \in Nat /\ Len(archives) \in Nat
  BY LenProperties DEF TypeOK
<1>2. QED
  BY <1>1 DEF LookAgain, TypeOK

\* A writer enters its record before it comes to the seal, and past that point
\* the admission of its scope is in the chain.
EnteredFirst ==
    \A p \in Procs :
        /\ pc[p] = "seal" => rec[p] \in ToSet(chain)
        /\ \/ pc[p] \in {"seal", "body", "closing"}
           \/ pc[p] = "enter" /\ rec[p] # scope[p]
           => scope[p] \in ToSet(chain)

\* Every step keeps the types.
LEMMA TypeStep ==
    ASSUME TypeOK, EnteredFirst, [Next]_vars
    PROVE  TypeOK'
<1> USE LedgersAssumption
<1>0. Len(store) \in Nat /\ Len(archives) \in Nat /\ Len(chain) \in Nat
  BY LenProperties DEF TypeOK
<1>1. ASSUME NEW p \in Procs, Load(p) PROVE TypeOK'
  <2>1. tail' \in [Procs -> Nat]
    <3>1. store # <<>> => store[Len(store)] \in Chunks
      BY <1>0, EmptySeq, ElementOfSeq DEF TypeOK
    <3>2. QED
      BY <1>1, <3>1 DEF Load, TypeOK, Last, Chunks, Genesis
  <2>2. QED
    BY <1>0, <1>1, <2>1 DEF Load, TypeOK, PCs, InScope, files, hashes, past
<1>2. ASSUME NEW p \in Procs, Record(p) PROVE TypeOK'
  <2>1. store' \in Seq(Chunks)
    BY <1>2, ForgeType, Appended DEF Record, TypeOK, Forms
  <2>2. LocalsType'
    BY <1>2 DEF Record, Admits, Goto, LocalsType, TypeOK, PCs, InScope
  <2>3. /\ tail' \in [Procs -> Nat] /\ offset' \in [Procs -> Nat]
        /\ gen' \in [Procs -> Nat] /\ frozen' \in [Procs -> BOOLEAN]
    <3>1. issued + 1 \in Nat /\ 1 \in Nat
      BY DEF TypeOK
    <3>2. QED
      BY <1>2, <3>1, LookAgainType DEF Record
  <2>4. issued' \in Nat /\ acked' \subseteq Nat
    BY <1>2 DEF Record, TypeOK
  <2>5. QED
    BY <1>2, <2>1, <2>2, <2>3, <2>4 DEF Record, LocalsType, TypeOK, hashes
<1>3. ASSUME NEW p \in Procs, NEW form \in Tears, NEW there \in {"idle", "down"},
             RecordFails(p, form, there)
      PROVE  TypeOK'
  <2>1. store' \in Seq(Chunks)
    BY <1>3, ForgeType, Appended DEF RecordFails, TypeOK
  <2>2. LocalsType'
    BY <1>3, LeaveType DEF RecordFails
  <2>3. /\ tail' \in [Procs -> Nat] /\ offset' \in [Procs -> Nat]
        /\ gen' \in [Procs -> Nat] /\ frozen' \in [Procs -> BOOLEAN]
    BY <1>3, LookAgainType, AbsorbedType DEF RecordFails
  <2>4. issued' \in Nat /\ faults' \in Nat /\ orphans' \subseteq Nat
    BY <1>3 DEF RecordFails, TypeOK
  <2>5. QED
    BY <1>3, <2>1, <2>2, <2>3, <2>4 DEF RecordFails, LocalsType, TypeOK, hashes
<1>3a. ASSUME NEW p \in Procs, NEW there \in {"idle", "down"}, RecordNothing(p, there)
       PROVE  TypeOK'
  <2>1. LocalsType'
    BY <1>3a, LeaveType DEF RecordNothing
  <2>2. /\ tail' \in [Procs -> Nat] /\ offset' \in [Procs -> Nat]
        /\ gen' \in [Procs -> Nat] /\ frozen' \in [Procs -> BOOLEAN]
    BY <1>3a, LookAgainType, AbsorbedType DEF RecordNothing
  <2>3. faults' \in Nat
    BY <1>3a DEF RecordNothing, TypeOK
  <2>4. QED
    BY <1>3a, <2>1, <2>2, <2>3 DEF RecordNothing, LocalsType, TypeOK, files, hashes, past
<1>4. ASSUME NEW p \in Procs, Refuse(p) PROVE TypeOK'
  BY <1>4, LeaveType DEF Refuse, LocalsType, TypeOK, files, hashes, past
<1>5. ASSUME NEW p \in Procs, CloseRefused(p) PROVE TypeOK'
  BY <1>5, LeaveType DEF CloseRefused, LocalsType, TypeOK, files, hashes, view, past
<1>6. ASSUME NEW p \in Procs, Enter(p) PROVE TypeOK'
  <2>1. chain' \in Seq(Nat)
    BY <1>6, Appended DEF Enter, TypeOK
  <2>2. QED
    BY <1>6, <2>1 DEF Enter, Goto, TypeOK, PCs, InScope, files, view, past
<1>7. ASSUME NEW p \in Procs, EnterFails(p) PROVE TypeOK'
  <2>1. LocalsType'
    BY <1>7, LeaveType DEF EnterFails
  <2>2. orphans' \subseteq Nat /\ faults' \in Nat
    <3>1. rec[p] \in Nat
      BY DEF TypeOK
    <3>2. orphans' \subseteq Nat
      BY <1>7, <3>1 DEF EnterFails, TypeOK
    <3>3. faults' \in Nat
      BY <1>7 DEF EnterFails, TypeOK
    <3>4. QED
      BY <3>2, <3>3
  <2>3. QED
    BY <1>7, <2>1, <2>2 DEF EnterFails, LocalsType, TypeOK, files, hashes, view
<1>8. ASSUME NEW p \in Procs, Seal(p) PROVE TypeOK'
  <2>1. head' \in Nat
    <3>1. chain # <<>>
      BY <1>8, EmptySeq DEF Seal, EnteredFirst, ToSet
    <3>2. chain \in Seq(Nat)
      BY DEF TypeOK
    <3>3. Len(chain) \in 1..Len(chain)
      BY <3>1, <3>2, EmptySeq
    <3>4. chain[Len(chain)] \in Nat
      BY <3>2, <3>3, ElementOfSeq
    <3>5. head' = chain[Len(chain)]
      BY <1>8 DEF Seal, Last
    <3>6. QED
      BY <3>4, <3>5
  <2>2. LocalsType'
    BY <1>8, AdmittedType DEF Seal
  <2>3. QED
    BY <1>8, <2>1, <2>2 DEF Seal, LocalsType, TypeOK, files, view, past
<1>9. ASSUME NEW p \in Procs, SealFails(p) PROVE TypeOK'
  <2>1. LocalsType'
    BY <1>9, LeaveType DEF SealFails
  <2>2. owed' \subseteq Nat /\ faults' \in Nat
    <3>1. rec[p] \in Nat
      BY DEF TypeOK
    <3>2. owed' \subseteq Nat
      BY <1>9, <3>1 DEF SealFails, TypeOK
    <3>3. faults' \in Nat
      BY <1>9 DEF SealFails, TypeOK
    <3>4. QED
      BY <3>2, <3>3
  <2>3. QED
    BY <1>9, <2>1, <2>2 DEF SealFails, LocalsType, TypeOK, files, hashes, view
<1>10. ASSUME NEW p \in Procs, NEW lands \in BOOLEAN, Body(p, lands) PROVE TypeOK'
  BY <1>10 DEF Body, Goto, TypeOK, PCs, InScope, files, hashes, view
<1>11. ASSUME NEW p \in Procs, Archive(p) PROVE TypeOK'
  <2>1. LocalsType'
    BY <1>0, <1>11 DEF Archive, Goto, LocalsType, TypeOK, PCs, InScope
  <2>2. issued' \in Nat
    BY <1>11 DEF Archive, TypeOK
  <2>3. QED
    BY <1>11, <2>1, <2>2 DEF Archive, LocalsType, TypeOK, hashes, view, past
<1>12. ASSUME NEW p \in Procs, WritePending(p) PROVE TypeOK'
  BY <1>12 DEF WritePending, Goto, TypeOK, PCs, InScope, hashes, view, past
<1>13. ASSUME NEW p \in Procs, Replace(p) PROVE TypeOK'
  <2>1. Anchor(p) \in Chunks
    BY DEF Anchor, Chunks, Forms, Genesis, TypeOK
  <2>2. store' \in Seq(Chunks)
    BY <1>13, <2>1 DEF Replace
  <2>3. archives' \in Seq(Seq(Chunks))
    BY <1>13, Appended DEF Replace, TypeOK
  <2>4. QED
    BY <1>13, <2>2, <2>3 DEF Replace, Goto, TypeOK, PCs, InScope, hashes, view
<1>14. ASSUME NEW p \in Procs, Unwind(p) PROVE TypeOK'
  BY <1>14, LeaveType DEF Unwind, LocalsType, TypeOK, hashes, view, past
<1>15. ASSUME NEW p \in Procs, Adopt(p) PROVE TypeOK'
  BY <1>0, <1>15, LeaveType DEF Adopt, LocalsType, TypeOK, files, hashes, past
<1>16. ASSUME NEW p \in Procs, Crash(p) PROVE TypeOK'
  <2>1. LocalsType'
    BY <1>16, LeaveType DEF Crash
  <2>2. orphans' \subseteq Nat /\ owed' \subseteq Nat /\ faults' \in Nat
    <3>1. rec[p] \in Nat
      BY DEF TypeOK
    <3>2. orphans' \subseteq Nat /\ owed' \subseteq Nat
      BY <1>16, <3>1 DEF Crash, TypeOK
    <3>3. faults' \in Nat
      BY <1>16 DEF Crash, TypeOK
    <3>4. QED
      BY <3>2, <3>3
  <2>3. /\ tail' \in [Procs -> Nat] /\ offset' \in [Procs -> Nat]
        /\ gen' \in [Procs -> Nat] /\ frozen' \in [Procs -> BOOLEAN]
    BY <1>16 DEF Crash, TypeOK, Genesis
  <2>4. QED
    BY <1>16, <2>1, <2>2, <2>3 DEF Crash, LocalsType, TypeOK, hashes
<1>17. CASE UNCHANGED vars
  BY <1>17 DEF vars, TypeOK
<1>18. QED
  BY <1>1, <1>3a, <1>2, <1>3, <1>4, <1>5, <1>6, <1>7, <1>8, <1>9, <1>10, <1>11, <1>12,
     <1>13, <1>14, <1>15, <1>16, <1>17 DEF Next, Step
\* The entries of the chain stay when one is added.
LEMMA ChainGrows ==
    ASSUME TypeOK, NEW p \in Procs, chain' = Append(chain, rec[p])
    PROVE  ToSet(chain') = ToSet(chain) \cup {rec[p]}
<1>1. chain \in Seq(Nat) /\ rec[p] \in Nat
  BY DEF TypeOK
<1>2. QED
  BY <1>1, Appended

\* Who leaves a scope leaves the others where they are.
LEMMA EnteredLeave ==
    ASSUME TypeOK, EnteredFirst, NEW p \in Procs, NEW there \in {"idle", "down"},
           Leave(p, there), chain' = chain
    PROVE  EnteredFirst'
BY DEF Leave, Goto, EnteredFirst, TypeOK

\* Every step keeps the order of entry and seal.
LEMMA EnteredStep ==
    ASSUME TypeOK, EnteredFirst, [Next]_vars
    PROVE  EnteredFirst'
<1>1. ASSUME NEW p \in Procs, Load(p) PROVE EnteredFirst'
  BY <1>1 DEF Load, EnteredFirst, TypeOK, hashes
<1>2. ASSUME NEW p \in Procs, Record(p) PROVE EnteredFirst'
  BY <1>2 DEF Record, Admits, Goto, EnteredFirst, TypeOK, hashes
<1>3. ASSUME NEW p \in Procs, NEW form \in Tears, NEW there \in {"idle", "down"},
             RecordFails(p, form, there)
      PROVE  EnteredFirst'
  BY <1>3, EnteredLeave DEF RecordFails, hashes
<1>3a. ASSUME NEW p \in Procs, NEW there \in {"idle", "down"}, RecordNothing(p, there)
       PROVE  EnteredFirst'
  BY <1>3a, EnteredLeave DEF RecordNothing, hashes
<1>4. ASSUME NEW p \in Procs, Refuse(p) PROVE EnteredFirst'
  BY <1>4, EnteredLeave DEF Refuse, hashes
<1>5. ASSUME NEW p \in Procs, CloseRefused(p) PROVE EnteredFirst'
  BY <1>5, EnteredLeave DEF CloseRefused, hashes
<1>6. ASSUME NEW p \in Procs, Enter(p) PROVE EnteredFirst'
  <2>1. ToSet(chain') = ToSet(chain) \cup {rec[p]}
    BY <1>6, ChainGrows DEF Enter
  <2>2. QED
    BY <1>6, <2>1 DEF Enter, Goto, EnteredFirst, TypeOK
<1>7. ASSUME NEW p \in Procs, EnterFails(p) PROVE EnteredFirst'
  BY <1>7, EnteredLeave DEF EnterFails, hashes
<1>8. ASSUME NEW p \in Procs, Seal(p) PROVE EnteredFirst'
  <2>1. CASE rec[p] = scope[p]
    BY <1>8, <2>1 DEF Seal, Admitted, Goto, EnteredFirst, TypeOK
  <2>2. CASE rec[p] # scope[p]
    BY <1>8, <2>2, EnteredLeave DEF Seal, Admitted
  <2>3. QED
    BY <2>1, <2>2
<1>9. ASSUME NEW p \in Procs, SealFails(p) PROVE EnteredFirst'
  BY <1>9, EnteredLeave DEF SealFails, hashes
<1>10. ASSUME NEW p \in Procs, NEW lands \in BOOLEAN, Body(p, lands) PROVE EnteredFirst'
  BY <1>10 DEF Body, Goto, EnteredFirst, TypeOK, hashes
<1>11. ASSUME NEW p \in Procs, Archive(p) PROVE EnteredFirst'
  BY <1>11 DEF Archive, Goto, EnteredFirst, TypeOK, hashes
<1>12. ASSUME NEW p \in Procs, WritePending(p) PROVE EnteredFirst'
  BY <1>12 DEF WritePending, Goto, EnteredFirst, TypeOK, hashes
<1>13. ASSUME NEW p \in Procs, Replace(p) PROVE EnteredFirst'
  BY <1>13 DEF Replace, Goto, EnteredFirst, TypeOK, hashes
<1>14. ASSUME NEW p \in Procs, Unwind(p) PROVE EnteredFirst'
  BY <1>14, EnteredLeave DEF Unwind, hashes
<1>15. ASSUME NEW p \in Procs, Adopt(p) PROVE EnteredFirst'
  BY <1>15, EnteredLeave DEF Adopt, hashes
<1>16. ASSUME NEW p \in Procs, Crash(p) PROVE EnteredFirst'
  BY <1>16, EnteredLeave DEF Crash, hashes
<1>17. CASE UNCHANGED vars
  BY <1>17 DEF vars, EnteredFirst
<1>18. QED
  BY <1>1, <1>3a, <1>2, <1>3, <1>4, <1>5, <1>6, <1>7, <1>8, <1>9, <1>10, <1>11, <1>12,
     <1>13, <1>14, <1>15, <1>16, <1>17 DEF Next, Step

\* The types of the ledgers (evidence_objects.py, hash_chain_v2.py and
\* the scopes of governance_gate.py), with the order of entry and seal.
LEMMA Typed == Spec => [](TypeOK /\ EnteredFirst)
<1>1. Init => TypeOK /\ EnteredFirst
  <2> SUFFICES ASSUME Init PROVE TypeOK /\ EnteredFirst
    OBVIOUS
  <2>1. store \in Seq(Chunks) /\ archives \in Seq(Seq(Chunks)) /\ chain \in Seq(Nat)
    BY EmptySeq DEF Init
  <2>2. QED
    BY <2>1, LedgersAssumption DEF Init, TypeOK, EnteredFirst, PCs, InScope, Genesis
<1>2. TypeOK /\ EnteredFirst /\ [Next]_vars => (TypeOK /\ EnteredFirst)'
  BY TypeStep, EnteredStep
<1>3. QED
  BY <1>1, <1>2, PTL DEF Spec

\* Type correctness of the ledgers for any processes, records and faults.
THEOREM TypeCorrectness == Spec => []TypeOK
BY Typed, PTL

-----------------------------------------------------------------------------
(* What is in the stores.                                                  *)

\* What a step does to the stores, and to what their makers were told of them.
LEMMA StoreSteps ==
    ASSUME [Next]_vars
    PROVE  \/ UNCHANGED <<store, archives, acked>>
           \/ \E p \in Procs, form \in Tears \cup {"line"} :
                /\ CanExtend(p) /\ store' = Append(store, Forge(p, form))
                /\ archives' = archives
                /\ \/ acked' = acked
                   \/ form = "line" /\ acked' = acked \cup {issued + 1}
           \/ \E p \in Procs :
                /\ store' = <<Anchor(p)>> /\ archives' = Append(archives, store)
                /\ acked' = acked \cup {rec[p]}
<1>1. ASSUME NEW p \in Procs, Record(p)
      PROVE  /\ CanExtend(p) /\ store' = Append(store, Forge(p, "line"))
             /\ archives' = archives /\ acked' = acked \cup {issued + 1}
  BY <1>1 DEF Record
<1>2. ASSUME NEW p \in Procs, NEW form \in Tears, NEW there \in {"idle", "down"},
             RecordFails(p, form, there)
      PROVE  /\ CanExtend(p) /\ store' = Append(store, Forge(p, form))
             /\ archives' = archives /\ acked' = acked
  BY <1>2 DEF RecordFails
<1>3. ASSUME NEW p \in Procs, Replace(p)
      PROVE  /\ store' = <<Anchor(p)>> /\ archives' = Append(archives, store)
             /\ acked' = acked \cup {rec[p]}
  BY <1>3 DEF Replace
<1>4. ASSUME NEW p \in Procs,
             \/ Load(p) \/ Refuse(p) \/ CloseRefused(p) \/ Enter(p) \/ EnterFails(p)
             \/ \E there \in {"idle", "down"} : RecordNothing(p, there)
             \/ Seal(p) \/ SealFails(p) \/ \E lands \in BOOLEAN : Body(p, lands)
             \/ Archive(p) \/ WritePending(p) \/ Unwind(p) \/ Adopt(p) \/ Crash(p)
      PROVE  UNCHANGED <<store, archives, acked>>
  BY <1>4 DEF Load, RecordNothing, Refuse, CloseRefused, Enter, EnterFails, Seal, SealFails, Body,
     Archive, WritePending, Unwind, Adopt, Crash, files, past
<1>5. UNCHANGED vars => UNCHANGED <<store, archives, acked>>
  BY DEF vars
<1>6. CASE \E p \in Procs : Record(p)
  BY <1>1, <1>6
<1>7. CASE \E p \in Procs : \E form \in Tears, there \in {"idle", "down"} :
             RecordFails(p, form, there)
  BY <1>2, <1>7
<1>8. CASE \E p \in Procs : Replace(p)
  BY <1>3, <1>8
<1>9. QED
  BY <1>4, <1>5, <1>6, <1>7, <1>8 DEF Next, Step

\* A store whose records are lines, linked to one another, but for the last.
LinkedUp(s) ==
    \A i \in 1..(Len(s) - 1) : s[i].form = "line" /\ s[i + 1].prev = s[i].id

\* No append leaves a record without its newline; then a record can be read
\* unless part of it is missing.
Linked ==
    /\ \A s \in Stores : LinkedUp(s)
    /\ \A i \in DOMAIN store : store[i].form \in {"line", "part"}

\* An append that CanExtend allows comes behind a line and links to it.
LEMMA AppendLinks ==
    ASSUME TypeOK, Linked, NEW p \in Procs, NEW form \in {"line", "part"},
           CanExtend(p), store' = Append(store, Forge(p, form))
    PROVE  /\ LinkedUp(store')
           /\ \A i \in DOMAIN store' : store'[i].form \in {"line", "part"}
           /\ LegibleOf(store) \subseteq LegibleOf(store')
           /\ form = "line" => Forge(p, form) \in LegibleOf(store')
<1> DEFINE n == Len(store)
           e == Forge(p, form)
<1>1. /\ n \in Nat /\ Len(store') = n + 1 /\ store'[n + 1] = e
      /\ \A i \in 1..n : store'[i] = store[i]
      /\ DOMAIN store = 1..n /\ DOMAIN store' = 1..(n + 1)
  <2>1. e \in Chunks
    BY ForgeType DEF Forms
  <2>2. store \in Seq(Chunks)
    BY DEF TypeOK
  <2>3. QED
    BY <2>1, <2>2, Appended, LenProperties
<1>2. LinkedUp(store) /\ \A i \in 1..n : store[i].form \in {"line", "part"}
  BY <1>1 DEF Linked, Stores
<1>3. e.form = form /\ e.prev = Absorbed(p)
  BY DEF Forge
<1>4. n > 0 => store[n].form = "line" /\ store[n].id = Absorbed(p)
  <2>1. n > 0 => store # <<>>
    BY EmptySeq
  <2>2. QED
    BY <1>1, <1>2, <2>1 DEF CanExtend, Legible, Last
<1>5. LinkedUp(store')
  <2>1. ASSUME NEW i \in 1..n
        PROVE  store'[i].form = "line" /\ store'[i + 1].prev = store'[i].id
    <3>1. CASE i = n
      BY <1>1, <1>3, <1>4, <3>1
    <3>2. CASE i # n
      BY <1>1, <1>2, <3>2 DEF LinkedUp
    <3>3. QED
      BY <3>1, <3>2
  <2>2. QED
    BY <1>1, <2>1 DEF LinkedUp
<1>6. \A i \in DOMAIN store' : store'[i].form \in {"line", "part"}
  BY <1>1, <1>2, <1>3
<1>7. ASSUME NEW i \in 1..n, Legible(store, i) PROVE Legible(store', i)
  BY <1>1, <1>4, <1>7 DEF Legible
<1>8. LegibleOf(store) \subseteq LegibleOf(store')
  BY <1>1, <1>7 DEF LegibleOf
<1>9. ASSUME form = "line" PROVE Legible(store', n + 1)
  <2>1. n + 1 > 1 => store'[n].form = "line"
    <3>1. n + 1 > 1 => n > 0 /\ n \in 1..n
      BY <1>1
    <3>2. QED
      BY <1>1, <1>4, <3>1
  <2>2. (n + 1) - 1 = n /\ ~(n + 1 < Len(store'))
    BY <1>1
  <2>3. store'[n + 1].form = "line"
    BY <1>1, <1>3, <1>9
  <2>4. QED
    BY <2>1, <2>2, <2>3 DEF Legible
<1>10. form = "line" => e \in LegibleOf(store')
  BY <1>1, <1>9 DEF LegibleOf
<1>11. QED
  BY <1>5, <1>6, <1>8, <1>10

\* The assumption under which nothing acknowledged is lost: an append that fails
\* after its record but before the newline is left out.
LEMMA LinkedStep ==
    ASSUME TypeOK, Linked, [Next]_vars, "whole" \notin Tears
    PROVE  Linked'
<1>1. CASE UNCHANGED <<store, archives, acked>>
  BY <1>1 DEF Linked, Stores
<1>2. ASSUME NEW p \in Procs, NEW form \in Tears \cup {"line"}, CanExtend(p),
             store' = Append(store, Forge(p, form)), archives' = archives
      PROVE  Linked'
  <2>1. form \in {"line", "part"}
    BY LedgersAssumption DEF Forms
  <2>2. QED
    BY <1>2, <2>1, AppendLinks DEF Linked, Stores
<1>3. ASSUME NEW p \in Procs, store' = <<Anchor(p)>>,
             archives' = Append(archives, store)
      PROVE  Linked'
  <2>1. Len(store') = 1 /\ DOMAIN store' = {1} /\ store'[1] = Anchor(p)
    BY <1>3
  <2>2. LinkedUp(store') /\ \A i \in DOMAIN store' : store'[i].form \in {"line", "part"}
    BY <2>1 DEF LinkedUp, Anchor
  <2>3. ToSet(archives') = ToSet(archives) \cup {store}
    BY <1>3, Appended DEF TypeOK
  <2>4. QED
    BY <2>2, <2>3 DEF Linked, Stores
<1>4. QED
  BY <1>1, <1>2, <1>3, StoreSteps

\* Nobody appends behind damage: for any number of processes, tears, crashes
\* and re-anchorings, as CanExtend looks at the last line of the disk.
THEOREM NobodyAppendsBehindDamage ==
    ASSUME "whole" \notin Tears
    PROVE  Spec => []DamageIsLast
<1>1. Init => Linked
  <2> SUFFICES ASSUME Init PROVE Linked
    OBVIOUS
  <2>1. Len(store) = 0 /\ DOMAIN store = {} /\ DOMAIN archives = {}
    BY DEF Init
  <2>2. Stores = {store}
    BY <2>1 DEF Stores, ToSet
  <2>3. QED
    BY <2>1, <2>2 DEF Linked, LinkedUp
<1>2. TypeOK /\ Linked /\ [Next]_vars => Linked'
  BY LinkedStep
<1>3. Linked => DamageIsLast
  BY DEF Linked, LinkedUp, DamageIsLast
<1>4. QED
  BY <1>1, <1>2, <1>3, TypeCorrectness, PTL DEF Spec

\* What can be read can still be read after a step, and so can what is acknowledged.
LEMMA KeptStep ==
    ASSUME TypeOK, Linked, [Next]_vars, "whole" \notin Tears
    PROVE  Kept \subseteq Kept' /\ acked' \subseteq acked \cup Kept'
<1> DEFINE Held(S) == {r.id : r \in UNION {LegibleOf(s) : s \in S}}
<1>0. Kept = Held(Stores) /\ Kept' = Held(Stores')
  BY DEF Kept
<1>1. CASE UNCHANGED <<store, archives, acked>>
  BY <1>0, <1>1 DEF Stores
<1>2. ASSUME NEW p \in Procs, NEW form \in Tears \cup {"line"}, CanExtend(p),
             store' = Append(store, Forge(p, form)), archives' = archives,
             \/ acked' = acked
             \/ form = "line" /\ acked' = acked \cup {issued + 1}
      PROVE  Kept \subseteq Kept' /\ acked' \subseteq acked \cup Kept'
  <2>1. form \in {"line", "part"}
    BY LedgersAssumption DEF Forms
  <2>2. /\ LegibleOf(store) \subseteq LegibleOf(store')
        /\ form = "line" => Forge(p, form) \in LegibleOf(store')
    BY <1>2, <2>1, AppendLinks
  <2>3. Stores' = {store'} \cup ToSet(archives)
    BY <1>2 DEF Stores
  <2>4. UNION {LegibleOf(s) : s \in Stores} \subseteq UNION {LegibleOf(s) : s \in Stores'}
    BY <2>2, <2>3 DEF Stores
  <2>5. form = "line" => Forge(p, form) \in UNION {LegibleOf(s) : s \in Stores'}
    BY <2>2, <2>3
  <2>6. Forge(p, form).id = issued + 1
    BY DEF Forge
  <2>7. form = "line" => issued + 1 \in Kept'
    BY <1>0, <2>5, <2>6
  <2>8. Kept \subseteq Kept'
    BY <1>0, <2>4
  <2>9. QED
    BY <1>2, <2>7, <2>8
<1>3. ASSUME NEW p \in Procs, store' = <<Anchor(p)>>,
             archives' = Append(archives, store), acked' = acked \cup {rec[p]}
      PROVE  Kept \subseteq Kept' /\ acked' \subseteq acked \cup Kept'
  <2>1. Len(store') = 1 /\ DOMAIN store' = {1} /\ store'[1] = Anchor(p)
    BY <1>3
  <2>2. Anchor(p) \in LegibleOf(store')
    BY <2>1 DEF LegibleOf, Legible, Anchor
  <2>3. ToSet(archives') = ToSet(archives) \cup {store}
    BY <1>3, Appended DEF TypeOK
  <2>4. Stores' = {store'} \cup ToSet(archives) \cup {store}
    BY <2>3 DEF Stores
  <2>5. UNION {LegibleOf(s) : s \in Stores} \subseteq UNION {LegibleOf(s) : s \in Stores'}
    BY <2>4 DEF Stores
  <2>6. Anchor(p) \in UNION {LegibleOf(s) : s \in Stores'} /\ Anchor(p).id = rec[p]
    BY <2>2, <2>4 DEF Anchor
  <2>7. rec[p] \in Kept'
    BY <1>0, <2>6
  <2>8. Kept \subseteq Kept'
    BY <1>0, <2>5
  <2>9. QED
    BY <1>3, <2>7, <2>8
<1>4. QED
  BY <1>1, <1>2, <1>3, StoreSteps

\* What can be read, and that everything acknowledged is among it.
Legibly == Linked /\ acked \subseteq Kept

\* Where no append ends between a record and its newline, every reachable state
\* keeps the acknowledged records (_append_to_file) legible.
LEMMA LegiblyAlways ==
    ASSUME "whole" \notin Tears
    PROVE  Spec => []Legibly
<1>1. Init => Legibly
  <2> SUFFICES ASSUME Init PROVE Legibly
    OBVIOUS
  <2>1. Len(store) = 0 /\ DOMAIN store = {} /\ DOMAIN archives = {} /\ acked = {}
    BY DEF Init
  <2>2. Stores = {store}
    BY <2>1 DEF Stores, ToSet
  <2>3. QED
    BY <2>1, <2>2 DEF Legibly, Linked, LinkedUp
<1>2. TypeOK /\ Legibly /\ [Next]_vars => Legibly'
  BY LinkedStep, KeptStep DEF Legibly
<1>3. QED
  BY <1>1, <1>2, TypeCorrectness, PTL DEF Spec

\* A record whose maker was told that it is on disk can always be read again.
THEOREM AcknowledgedStays ==
    ASSUME "whole" \notin Tears
    PROVE  Spec => []AcknowledgedIsKept
<1>1. Legibly => AcknowledgedIsKept
  BY DEF Legibly, AcknowledgedIsKept
<1>2. QED
  BY <1>1, LegiblyAlways, PTL

-----------------------------------------------------------------------------
(* What landed, and the seal.                                              *)

\* A scope's admission was acknowledged, and whatever landed through a scope
\* is in the chain.
OnRecord ==
    /\ \A p \in Procs : scope[p] # 0 => scope[p] \in acked
    /\ landed \subseteq acked \cap ToSet(chain)

\* Every step keeps it.
LEMMA OnRecordStep ==
    ASSUME TypeOK, EnteredFirst, OnRecord, [Next]_vars
    PROVE  OnRecord'
<1>0. ASSUME NEW p \in Procs, NEW there \in {"idle", "down"}, Leave(p, there),
             UNCHANGED <<acked, landed, chain>>
      PROVE  OnRecord'
  BY <1>0 DEF Leave, OnRecord, TypeOK
<1>1. ASSUME NEW p \in Procs,
             Load(p) \/ Archive(p) \/ WritePending(p)
      PROVE  OnRecord'
  BY <1>1 DEF Load, Archive, WritePending, OnRecord, past, hashes
<1>2. ASSUME NEW p \in Procs, Record(p) PROVE OnRecord'
  BY <1>2 DEF Record, Admits, OnRecord, TypeOK, hashes
<1>3. ASSUME NEW p \in Procs, NEW form \in Tears, NEW there \in {"idle", "down"},
             RecordFails(p, form, there)
      PROVE  OnRecord'
  BY <1>0, <1>3 DEF RecordFails, hashes
<1>4. ASSUME NEW p \in Procs, \/ Refuse(p) \/ CloseRefused(p) \/ EnterFails(p)
                              \/ \E there \in {"idle", "down"} : RecordNothing(p, there)
                              \/ SealFails(p) \/ Unwind(p) \/ Adopt(p)
      PROVE  OnRecord'
  BY <1>0, <1>4 DEF RecordNothing, Refuse, CloseRefused, EnterFails, SealFails, Unwind, Adopt, hashes, past
<1>5. ASSUME NEW p \in Procs, Enter(p) PROVE OnRecord'
  <2>1. ToSet(chain) \subseteq ToSet(chain')
    BY <1>5, ChainGrows DEF Enter
  <2>2. QED
    BY <1>5, <2>1 DEF Enter, OnRecord, past
<1>6. ASSUME NEW p \in Procs, Seal(p) PROVE OnRecord'
  <2>1. CASE rec[p] = scope[p]
    BY <1>6, <2>1 DEF Seal, Admitted, OnRecord, past
  <2>2. CASE rec[p] # scope[p]
    BY <1>0, <1>6, <2>2 DEF Seal, Admitted, past
  <2>3. QED
    BY <2>1, <2>2
<1>7. ASSUME NEW p \in Procs, NEW lands \in BOOLEAN, Body(p, lands) PROVE OnRecord'
  <2>1. scope[p] \in acked /\ scope[p] \in ToSet(chain)
    BY <1>7 DEF Body, OnRecord, EnteredFirst, TypeOK, InScope
  <2>2. QED
    BY <1>7, <2>1 DEF Body, OnRecord, hashes
<1>8. ASSUME NEW p \in Procs, Replace(p) PROVE OnRecord'
  BY <1>8 DEF Replace, OnRecord, hashes
<1>9. ASSUME NEW p \in Procs, Crash(p) PROVE OnRecord'
  BY <1>0, <1>9 DEF Crash, hashes
<1>10. CASE UNCHANGED vars
  BY <1>10 DEF vars, OnRecord
<1>11. QED
  BY <1>1, <1>2, <1>3, <1>4, <1>5, <1>6, <1>7, <1>8, <1>9, <1>10 DEF Next, Step

\* Whatever reaches the corpus through a scope has its admission in both
\* ledgers for good.
THEOREM LandedIsAdmitted ==
    ASSUME "whole" \notin Tears
    PROVE  Spec => []LandedIsOnRecord
<1>1. Init => OnRecord
  BY DEF Init, OnRecord
<1>2. TypeOK /\ EnteredFirst /\ OnRecord /\ [Next]_vars => OnRecord'
  BY OnRecordStep
<1>3. Legibly /\ OnRecord => LandedIsOnRecord
  BY DEF Legibly, OnRecord, LandedIsOnRecord
<1>4. QED
  BY <1>1, <1>2, <1>3, Typed, LegiblyAlways, PTL DEF Spec

\* Who moves and was not about to seal leaves the others about to.
LEMMA SealingStays ==
    ASSUME TypeOK, NEW p \in Procs,
           \A q \in Procs \ {p} : pc'[q] = pc[q] /\ rec'[q] = rec[q]
    PROVE  Sealing \ {rec[p]} \subseteq Sealing'
           /\ (pc[p] # "seal" => Sealing \subseteq Sealing')
BY DEF Sealing

\* What is owed only moves from the writers about to seal to the others.
LEMMA SealKept ==
    ASSUME SealKeepsUp, UNCHANGED hashes,
           owed \cup Sealing \subseteq owed' \cup Sealing'
    PROVE  SealKeepsUp'
BY DEF SealKeepsUp, hashes

\* Every step keeps the seal where only owed entries are behind it.
LEMMA SealStep ==
    ASSUME TypeOK, EnteredFirst, SealKeepsUp, [Next]_vars
    PROVE  SealKeepsUp'
<1>1. ASSUME NEW p \in Procs,
             \/ Load(p) \/ Record(p) \/ Refuse(p) \/ CloseRefused(p) \/ EnterFails(p)
             \/ \E form \in Tears, there \in {"idle", "down"} :
                  RecordFails(p, form, there)
             \/ \E there \in {"idle", "down"} : RecordNothing(p, there)
             \/ \E lands \in BOOLEAN : Body(p, lands)
             \/ Archive(p) \/ WritePending(p) \/ Replace(p) \/ Unwind(p) \/ Adopt(p)
      PROVE  SealKeepsUp'
  <2>1. UNCHANGED hashes /\ owed' = owed
    BY <1>1 DEF Load, Record, Refuse, CloseRefused, EnterFails, RecordFails,
       RecordNothing, Body, Archive, WritePending, Replace, Unwind, Adopt, past
  <2>2. CASE \/ Load(p) \/ Record(p) \/ Archive(p) \/ WritePending(p) \/ Replace(p)
             \/ \E lands \in BOOLEAN : Body(p, lands)
    <3>1. pc[p] # "seal" /\ \A q \in Procs \ {p} : pc'[q] = pc[q] /\ rec'[q] = rec[q]
      BY <2>2 DEF Load, Record, Admits, Archive, WritePending, Replace, Body, Goto, TypeOK
    <3>2. QED
      BY <2>1, <3>1, SealingStays, SealKept
  <2>3. CASE \/ Refuse(p) \/ CloseRefused(p) \/ EnterFails(p) \/ Unwind(p) \/ Adopt(p)
             \/ \E form \in Tears, there \in {"idle", "down"} :
                  RecordFails(p, form, there)
             \/ \E there \in {"idle", "down"} : RecordNothing(p, there)
    <3>1. pc[p] # "seal" /\ \A q \in Procs \ {p} : pc'[q] = pc[q] /\ rec'[q] = rec[q]
      BY <2>3 DEF Refuse, CloseRefused, EnterFails, RecordFails, RecordNothing, Unwind, Adopt, Admits,
         Leave, Goto, TypeOK
    <3>2. QED
      BY <2>1, <3>1, SealingStays, SealKept
  <2>4. QED
    BY <1>1, <2>2, <2>3
<1>2. ASSUME NEW p \in Procs, SealFails(p) \/ Crash(p) PROVE SealKeepsUp'
  <2>1. \A q \in Procs \ {p} : pc'[q] = pc[q] /\ rec'[q] = rec[q]
    BY <1>2 DEF SealFails, Crash, Leave, Goto, TypeOK
  <2>2. /\ UNCHANGED hashes /\ owed \subseteq owed'
        /\ pc[p] = "seal" => rec[p] \in owed'
    BY <1>2 DEF SealFails, Crash
  <2>3. QED
    BY <2>1, <2>2, SealingStays, SealKept
<1>3. ASSUME NEW p \in Procs, Enter(p) PROVE SealKeepsUp'
  <2>1. /\ Len(chain) \in Nat /\ Len(chain') = Len(chain) + 1
        /\ \A i \in 1..Len(chain) : chain'[i] = chain[i]
        /\ chain'[Len(chain) + 1] = rec[p]
    <3>1. chain \in Seq(Nat) /\ rec[p] \in Nat
      BY DEF TypeOK
    <3>2. QED
      BY <1>3, <3>1, Appended DEF Enter
  <2>2. Sealing \subseteq Sealing' /\ rec[p] \in Sealing'
    BY <1>3 DEF Enter, Goto, Sealing, TypeOK
  <2>3. head' = head /\ owed' = owed
    BY <1>3 DEF Enter, past
  <2>4. PICK k \in 0..Len(chain) :
             /\ head = IF k = 0 THEN Genesis ELSE chain[k]
             /\ \A i \in (k + 1)..Len(chain) : chain[i] \in owed \cup Sealing
    BY DEF SealKeepsUp
  <2>5. k \in 0..Len(chain') /\ head' = IF k = 0 THEN Genesis ELSE chain'[k]
    BY <2>1, <2>3, <2>4
  <2>6. ASSUME NEW i \in (k + 1)..Len(chain') PROVE chain'[i] \in owed' \cup Sealing'
    <3>1. CASE i = Len(chain) + 1
      BY <2>1, <2>2, <3>1
    <3>2. CASE i # Len(chain) + 1
      <4>1. i \in (k + 1)..Len(chain) /\ i \in 1..Len(chain)
        BY <2>1, <3>2
      <4>2. QED
        BY <2>1, <2>2, <2>3, <2>4, <4>1
    <3>3. QED
      BY <3>1, <3>2
  <2>7. QED
    BY <2>5, <2>6 DEF SealKeepsUp
<1>4. ASSUME NEW p \in Procs, Seal(p) PROVE SealKeepsUp'
  <2>1. Len(chain) \in Nat /\ Len(chain) # 0
    <3>1. chain # <<>>
      BY <1>4, EmptySeq DEF Seal, EnteredFirst, ToSet
    <3>2. QED
      BY <3>1, EmptySeq DEF TypeOK
  <2>2. head' = chain[Len(chain)] /\ chain' = chain
    BY <1>4 DEF Seal, Last
  <2>3. Len(chain) \in 0..Len(chain) /\ (Len(chain) + 1)..Len(chain) = {}
    BY <2>1
  <2>4. QED
    BY <2>1, <2>2, <2>3 DEF SealKeepsUp
<1>5. CASE UNCHANGED vars
  BY <1>5, SealKept DEF vars, hashes, Sealing
<1>6. QED
  BY <1>1, <1>2, <1>3, <1>4, <1>5 DEF Next, Step

\* The sealed head never goes back over an entry whose writer has sealed.
THEOREM SealFollowsTheChain == Spec => []SealKeepsUp
<1>1. Init => SealKeepsUp
  BY DEF Init, SealKeepsUp
<1>2. TypeOK /\ EnteredFirst /\ SealKeepsUp /\ [Next]_vars => SealKeepsUp'
  BY SealStep
<1>3. QED
  BY <1>1, <1>2, Typed, PTL DEF Spec

-----------------------------------------------------------------------------
(* Why a process freezes.                                                  *)

\* A view that holds nothing ends at genesis, none holds more than the store
\* it read, and a process that has re-anchored finds something to adopt.
ViewFits ==
    \A p \in Procs :
        /\ offset[p] = 0 => tail[p] = Genesis
        /\ gen[p] <= Len(archives)
        /\ gen[p] = Len(archives) => offset[p] <= Len(store)
        /\ pc[p] = "adopt" => store # <<>>

\* The views of the others fit when the stores only grow.
LEMMA OtherViews ==
    ASSUME TypeOK, ViewFits, NEW p \in Procs,
           \/ store' = store /\ archives' = archives
           \/ \E e \in Chunks : store' = Append(store, e) /\ archives' = archives
           \/ \E e \in Chunks : store' = <<e>> /\ archives' = Append(archives, store),
           \A q \in Procs \ {p} : /\ offset'[q] = offset[q] /\ tail'[q] = tail[q]
                                  /\ gen'[q] = gen[q] /\ pc'[q] = pc[q],
           /\ offset'[p] = 0 => tail'[p] = Genesis
           /\ gen'[p] <= Len(archives')
           /\ gen'[p] = Len(archives') => offset'[p] <= Len(store')
           /\ pc'[p] = "adopt" => store' # <<>>
    PROVE  ViewFits'
<1>1. /\ store \in Seq(Chunks) /\ archives \in Seq(Seq(Chunks))
      /\ Len(store) \in Nat /\ Len(archives) \in Nat
  BY LenProperties DEF TypeOK
<1>2. ASSUME NEW q \in Procs \ {p}
      PROVE  /\ offset'[q] = 0 => tail'[q] = Genesis
             /\ gen'[q] <= Len(archives')
             /\ gen'[q] = Len(archives') => offset'[q] <= Len(store')
             /\ pc'[q] = "adopt" => store' # <<>>
  <2>1. gen[q] \in Nat /\ offset[q] \in Nat
    BY DEF TypeOK
  <2>2. CASE store' = store /\ archives' = archives
    BY <1>2, <2>2 DEF ViewFits
  <2>3. ASSUME NEW e \in Chunks, store' = Append(store, e), archives' = archives
        PROVE  /\ offset'[q] = 0 => tail'[q] = Genesis
               /\ gen'[q] <= Len(archives')
               /\ gen'[q] = Len(archives') => offset'[q] <= Len(store')
               /\ pc'[q] = "adopt" => store' # <<>>
    <3>1. store' # <<>> /\ Len(store') = Len(store) + 1
      BY <1>1, <2>3, AppendProperties
    <3>2. QED
      BY <1>1, <2>1, <2>3, <3>1 DEF ViewFits
  <2>4. ASSUME NEW e \in Chunks, store' = <<e>>, archives' = Append(archives, store)
        PROVE  /\ offset'[q] = 0 => tail'[q] = Genesis
               /\ gen'[q] <= Len(archives')
               /\ gen'[q] = Len(archives') => offset'[q] <= Len(store')
               /\ pc'[q] = "adopt" => store' # <<>>
    <3>1. store' # <<>> /\ Len(archives') = Len(archives) + 1
      BY <1>1, <2>4, AppendProperties
    <3>2. QED
      BY <1>1, <2>1, <3>1 DEF ViewFits
  <2>5. QED
    BY <2>2, <2>3, <2>4
<1>3. QED
  BY <1>2 DEF ViewFits

\* Every step keeps the views in line with the stores.
LEMMA ViewStep ==
    ASSUME TypeOK, ViewFits, [Next]_vars
    PROVE  ViewFits'
<1>0. /\ store \in Seq(Chunks) /\ archives \in Seq(Seq(Chunks))
      /\ Len(store) \in Nat /\ Len(archives) \in Nat
  BY LenProperties DEF TypeOK
<1>1. ASSUME NEW p \in Procs, Load(p) PROVE ViewFits'
  <2>1. Len(store) = 0 => store = <<>>
    BY <1>0, EmptySeq
  <2>2. store' = store /\ archives' = archives
    BY <1>1 DEF Load, files
  <2>3. /\ offset'[p] = Len(store) /\ gen'[p] = Len(archives) /\ pc'[p] = "idle"
        /\ store = <<>> => tail'[p] = Genesis
    BY <1>1 DEF Load, TypeOK
  <2>4. \A q \in Procs \ {p} : /\ offset'[q] = offset[q] /\ tail'[q] = tail[q]
                               /\ gen'[q] = gen[q] /\ pc'[q] = pc[q]
    BY <1>1 DEF Load, TypeOK
  <2>5. QED
    BY <1>0, <2>1, <2>2, <2>3, <2>4, OtherViews
<1>2. ASSUME NEW p \in Procs, Record(p) PROVE ViewFits'
  <2>1. Forge(p, "line") \in Chunks
    BY ForgeType DEF Forms
  <2>2. store' = Append(store, Forge(p, "line")) /\ archives' = archives
    BY <1>2 DEF Record
  <2>3. Len(store') = Len(store) + 1
    BY <1>0, <2>1, <2>2, AppendProperties
  <2>4. offset'[p] = Len(store) + 1 /\ gen'[p] = Len(archives) /\ pc'[p] = "enter"
    BY <1>2 DEF Record, LookAgain, Goto, TypeOK
  <2>5. \A q \in Procs \ {p} : /\ offset'[q] = offset[q] /\ tail'[q] = tail[q]
                               /\ gen'[q] = gen[q] /\ pc'[q] = pc[q]
    BY <1>2 DEF Record, LookAgain, Goto, TypeOK
  <2>6. QED
    BY <1>0, <2>1, <2>2, <2>3, <2>4, <2>5, OtherViews
<1>3. ASSUME NEW p \in Procs, NEW form \in Tears, NEW there \in {"idle", "down"},
             RecordFails(p, form, there)
      PROVE  ViewFits'
  <2>1. Forge(p, form) \in Chunks
    BY ForgeType, LedgersAssumption
  <2>2. store' = Append(store, Forge(p, form)) /\ archives' = archives
    BY <1>3 DEF RecordFails
  <2>3. Len(store') = Len(store) + 1
    BY <1>0, <2>1, <2>2, AppendProperties
  <2>4. /\ offset'[p] = Len(store) + 0 /\ gen'[p] = Len(archives)
        /\ pc'[p] = there /\ tail'[p] = Absorbed(p)
    BY <1>3 DEF RecordFails, LookAgain, Leave, Goto, TypeOK
  <2>5. Len(store) = 0 => tail'[p] = Genesis
    <3>1. Len(store) = 0 => store = <<>>
      BY <1>0, EmptySeq
    <3>2. QED
      BY <1>3, <2>4, <3>1 DEF RecordFails, CanExtend
  <2>6. \A q \in Procs \ {p} : /\ offset'[q] = offset[q] /\ tail'[q] = tail[q]
                               /\ gen'[q] = gen[q] /\ pc'[q] = pc[q]
    BY <1>3 DEF RecordFails, LookAgain, Leave, Goto, TypeOK
  <2>7. QED
    BY <1>0, <2>1, <2>2, <2>3, <2>4, <2>5, <2>6, OtherViews
<1>3a. ASSUME NEW p \in Procs, NEW there \in {"idle", "down"}, RecordNothing(p, there)
       PROVE  ViewFits'
  <2>1. UNCHANGED <<store, archives>>
    BY <1>3a DEF RecordNothing, files
  <2>2. /\ offset'[p] = Len(store) + 0 /\ gen'[p] = Len(archives)
        /\ pc'[p] = there /\ tail'[p] = Absorbed(p)
    BY <1>3a DEF RecordNothing, LookAgain, Leave, Goto, TypeOK
  <2>3. Len(store) = 0 => tail'[p] = Genesis
    <3>1. Len(store) = 0 => store = <<>>
      BY <1>0, EmptySeq
    <3>2. QED
      BY <1>3a, <2>2, <3>1 DEF RecordNothing, CanExtend
  <2>4. \A q \in Procs \ {p} : /\ offset'[q] = offset[q] /\ tail'[q] = tail[q]
                               /\ gen'[q] = gen[q] /\ pc'[q] = pc[q]
    BY <1>3a DEF RecordNothing, LookAgain, Leave, Goto, TypeOK
  <2>5. QED
    BY <1>0, <2>1, <2>2, <2>3, <2>4, OtherViews
<1>4. ASSUME NEW p \in Procs,
             \/ Refuse(p) \/ CloseRefused(p) \/ Enter(p) \/ EnterFails(p)
             \/ Seal(p) \/ SealFails(p) \/ \E lands \in BOOLEAN : Body(p, lands)
             \/ Archive(p) \/ WritePending(p) \/ Unwind(p)
      PROVE  ViewFits'
  <2>1. UNCHANGED <<store, archives, tail, offset, gen>>
    BY <1>4 DEF Refuse, CloseRefused, Enter, EnterFails, Seal, SealFails, Body,
       Archive, WritePending, Unwind, files, view
  <2>2. pc'[p] # "adopt" /\ \A q \in Procs \ {p} : pc'[q] = pc[q]
    BY <1>4 DEF Refuse, CloseRefused, Enter, EnterFails, Seal, SealFails, Admitted, Body,
       Archive, WritePending, Unwind, Leave, Goto, TypeOK
  <2>3. QED
    BY <2>1, <2>2, OtherViews DEF ViewFits
<1>5. ASSUME NEW p \in Procs, Replace(p) PROVE ViewFits'
  <2>1. Anchor(p) \in Chunks
    BY DEF Anchor, Chunks, Forms, Genesis, TypeOK
  <2>2. /\ store' = <<Anchor(p)>> /\ archives' = Append(archives, store)
        /\ store' # <<>> /\ Len(archives') = Len(archives) + 1
    BY <1>0, <1>5, AppendProperties DEF Replace
  <2>3. UNCHANGED <<tail, offset, gen>>
    BY <1>5 DEF Replace, view
  <2>4. \A q \in Procs \ {p} : pc'[q] = pc[q]
    BY <1>5 DEF Replace, Goto, TypeOK
  <2>5. gen[p] \in Nat /\ gen[p] <= Len(archives) /\ (offset[p] = 0 => tail[p] = Genesis)
    BY DEF TypeOK, ViewFits
  <2>6. gen'[p] <= Len(archives') /\ gen'[p] # Len(archives')
    BY <1>0, <2>2, <2>3, <2>5
  <2>7. QED
    BY <2>1, <2>2, <2>3, <2>4, <2>5, <2>6, OtherViews
<1>6. ASSUME NEW p \in Procs, Adopt(p) PROVE ViewFits'
  <2>1. Len(store) # 0
    BY <1>0, <1>6, EmptySeq DEF Adopt, ViewFits
  <2>2. /\ store' = store /\ archives' = archives
        /\ offset'[p] = Len(store) /\ gen'[p] = Len(archives) /\ pc'[p] = "idle"
    BY <1>6 DEF Adopt, Leave, Goto, TypeOK, files
  <2>3. \A q \in Procs \ {p} : /\ offset'[q] = offset[q] /\ tail'[q] = tail[q]
                               /\ gen'[q] = gen[q] /\ pc'[q] = pc[q]
    BY <1>6 DEF Adopt, Leave, Goto, TypeOK
  <2>4. QED
    BY <1>0, <2>1, <2>2, <2>3, OtherViews
<1>7. ASSUME NEW p \in Procs, Crash(p) PROVE ViewFits'
  <2>1. /\ store' = store /\ archives' = archives
        /\ offset'[p] = 0 /\ gen'[p] = 0 /\ tail'[p] = Genesis /\ pc'[p] = "down"
    BY <1>7 DEF Crash, Leave, Goto, TypeOK
  <2>2. \A q \in Procs \ {p} : /\ offset'[q] = offset[q] /\ tail'[q] = tail[q]
                               /\ gen'[q] = gen[q] /\ pc'[q] = pc[q]
    BY <1>7 DEF Crash, Leave, Goto, TypeOK
  <2>3. QED
    BY <1>0, <2>1, <2>2, OtherViews
<1>8. CASE UNCHANGED vars
  BY <1>8 DEF vars, ViewFits
<1>9. QED
  BY <1>1, <1>3a, <1>2, <1>3, <1>4, <1>5, <1>6, <1>7, <1>8 DEF Next, Step

\* An intact store that a view fits can be extended.
LEMMA IntactCanBeExtended ==
    ASSUME TypeOK, ViewFits, NEW p \in Procs,
           Intact(store), gen[p] = Len(archives), ~AdoptedLate(p)
    PROVE  CanExtend(p)
<1>1. /\ Len(store) \in Nat /\ DOMAIN store = 1..Len(store)
      /\ offset[p] \in Nat /\ offset[p] <= Len(store)
  BY LenProperties DEF TypeOK, ViewFits
<1>2. \A i \in 1..Len(store) :
        /\ store[i].form # "part"
        /\ i < Len(store) => store[i].form = "line"
        /\ store[i].prev = IF i = 1 THEN Genesis ELSE store[i - 1].id
  <2>1. 0 + 1 = 1
    OBVIOUS
  <2>2. QED
    BY <2>1 DEF Intact, ReadsOn
<1>3. tail[p] = IF offset[p] = 0 THEN Genesis ELSE store[offset[p]].id
  BY <1>1 DEF ViewFits, AdoptedLate
<1>4. ASSUME NEW i \in (offset[p] + 1)..Len(store)
      PROVE  /\ store[i].form # "part"
             /\ i < Len(store) => store[i].form = "line"
             /\ store[i].prev = IF i = offset[p] + 1 THEN tail[p] ELSE store[i - 1].id
  <2>1. i \in 1..Len(store) /\ (i = 1 => offset[p] = 0 /\ i = offset[p] + 1)
    BY <1>1
  <2>2. i = offset[p] + 1 => i - 1 = offset[p]
    BY <1>1
  <2>3. QED
    BY <1>2, <1>3, <2>1, <2>2
<1>5. CASE store = <<>>
  <2>1. Len(store) = 0 /\ offset[p] = 0
    BY <1>1, <1>5
  <2>2. Absorbed(p) = Genesis
    BY <1>3, <2>1 DEF Absorbed
  <2>3. QED
    BY <1>4, <1>5, <2>2 DEF CanExtend, ReadsOn
<1>6. CASE store # <<>>
  <2>1. Len(store) \in 1..Len(store)
    BY <1>1, <1>6, EmptySeq DEF TypeOK
  <2>2. Len(store) > 1 =>
          Len(store) - 1 \in 1..Len(store) /\ Len(store) - 1 < Len(store)
    BY <1>1
  <2>3. Legible(store, Len(store))
    BY <1>1, <1>2, <2>1, <2>2 DEF Legible
  <2>4. Last(store).id = Absorbed(p)
    BY <1>1, <1>3, <2>1 DEF Absorbed, Last
  <2>5. QED
    BY <1>4, <1>6, <2>3, <2>4 DEF CanExtend, ReadsOn
<1>7. QED
  BY <1>5, <1>6

\* The step of FreezesForAReason.
FreezeIsExplained ==
    \A p \in Procs : ~frozen[p] /\ frozen'[p] =>
        ~Intact(store) \/ gen[p] # Len(archives) \/ AdoptedLate(p)

\* A process that freezes in a step saw damage, or had adopted its re-anchoring late.
LEMMA FreezeStep ==
    ASSUME TypeOK, ViewFits, [Next]_vars
    PROVE  [FreezeIsExplained]_vars
<1>1. ASSUME NEW q \in Procs, Load(q) \/ Refuse(q) PROVE FreezeIsExplained
  <2>1. ASSUME NEW p \in Procs, ~frozen[p], frozen'[p]
        PROVE  ~Intact(store) \/ gen[p] # Len(archives) \/ AdoptedLate(p)
    <3>1. CASE Load(q)
      BY <2>1, <3>1 DEF Load, TypeOK
    <3>2. CASE Refuse(q)
      <4>1. p = q /\ ~CanExtend(p)
        BY <2>1, <3>2 DEF Refuse, TypeOK
      <4>2. QED
        BY <4>1, IntactCanBeExtended
    <3>3. QED
      BY <1>1, <3>1, <3>2
  <2>2. QED
    BY <2>1 DEF FreezeIsExplained
<1>2. ASSUME NEW q \in Procs,
             \/ Record(q) \/ CloseRefused(q)
             \/ \E form \in Tears, there \in {"idle", "down"} :
                  RecordFails(q, form, there)
             \/ \E there \in {"idle", "down"} : RecordNothing(q, there)
             \/ Enter(q) \/ EnterFails(q) \/ Seal(q) \/ SealFails(q)
             \/ \E lands \in BOOLEAN : Body(q, lands)
             \/ Archive(q) \/ WritePending(q) \/ Replace(q) \/ Unwind(q)
      PROVE  FreezeIsExplained
  <2>1. frozen' = frozen
    BY <1>2 DEF Record, CloseRefused, RecordFails, RecordNothing, LookAgain, Enter, EnterFails, Seal,
       SealFails, Body, Archive, WritePending, Replace, Unwind, view
  <2>2. QED
    BY <2>1 DEF FreezeIsExplained
<1>3. ASSUME NEW q \in Procs, Adopt(q) \/ Crash(q) PROVE FreezeIsExplained
  BY <1>3 DEF Adopt, Crash, FreezeIsExplained, TypeOK
<1>4. QED
  BY <1>1, <1>2, <1>3 DEF Next, Step

\* A process freezes only on damage, on a store re-anchored behind its back, or
\* after it adopted its own re-anchoring late.
THEOREM FreezesAreExplained == Spec => FreezesForAReason
<1>1. Init => ViewFits
  <2> SUFFICES ASSUME Init PROVE ViewFits
    OBVIOUS
  <2>1. Len(store) = 0 /\ Len(archives) = 0
    BY DEF Init
  <2>2. QED
    BY <2>1 DEF Init, ViewFits
<1>2. TypeOK /\ ViewFits /\ [Next]_vars => ViewFits'
  BY ViewStep
<1>3. TypeOK /\ ViewFits /\ [Next]_vars =>
        [\A p \in Procs : ~frozen[p] /\ frozen'[p] =>
          \/ ~Intact(store)
          \/ gen[p] # Len(archives)
          \/ AdoptedLate(p)]_vars
  BY FreezeStep DEF FreezeIsExplained
<1>4. QED
  BY <1>1, <1>2, <1>3, TypeCorrectness, PTL DEF Spec, FreezesForAReason

-----------------------------------------------------------------------------
(* What reconcile() misses.                                                *)

\* The length of the chain that the anchor of the store binds.
Anchored == store # <<>> /\ store[1].kind = "anchor"
Bound == IF Anchored THEN store[1].ref ELSE 0

\* The entries made since.
Since == {chain[k] : k \in (Bound + 1)..Len(chain)}

\* Records are numbered as they come, an anchor is the first of its store, and
\* every admission that was written out has been entered since the anchor, is
\* about to be, or never will.
Numbered ==
    /\ \A p \in Procs : rec[p] <= issued
    /\ \A i \in DOMAIN store :
         /\ store[i].id <= issued
         /\ i > 1 => store[i].kind # "anchor"
         /\ \A j \in DOMAIN store : j < i => store[j].id < store[i].id
Accounted ==
    /\ Anchored => store[1].form = "line" /\ store[1].ref <= Len(chain)
    /\ \A i \in DOMAIN store :
         store[i].kind # "anchor" /\ store[i].form # "part" =>
            store[i].id \in InFlight \cup orphans \cup Since

\* Who has its record to enter keeps it while others move.
LEMMA InFlightStays ==
    ASSUME TypeOK, NEW p \in Procs, NEW there \in PCs, Goto(p, there),
           \A q \in Procs \ {p} : rec'[q] = rec[q]
    PROVE  /\ InFlight \ {rec[p]} \subseteq InFlight'
           /\ pc[p] # "enter" => InFlight \subseteq InFlight'
BY DEF Goto, InFlight, TypeOK

\* What leaves the ledgers alone, and no entry unaccounted for, keeps the account.
LEMMA AccountKept ==
    ASSUME TypeOK, Numbered, Accounted, store' = store, chain' = chain,
           issued' \in Nat, issued <= issued', \A p \in Procs : rec'[p] <= issued',
           InFlight \cup orphans \subseteq InFlight' \cup orphans'
    PROVE  Numbered' /\ Accounted'
<1>1. \A i \in DOMAIN store : store[i].id \in Nat
  <2>1. store \in Seq(Chunks) /\ DOMAIN store = 1..Len(store)
    BY LenProperties DEF TypeOK
  <2>2. \A i \in 1..Len(store) : store[i] \in Chunks
    BY <2>1, ElementOfSeq
  <2>3. QED
    BY <2>1, <2>2 DEF Chunks
<1>2. Numbered'
  BY <1>1 DEF Numbered, TypeOK
<1>3. Since' = Since /\ Bound' = Bound /\ Anchored' = Anchored
  BY DEF Since, Bound, Anchored
<1>4. QED
  BY <1>2, <1>3 DEF Accounted

\* A record that is appended is numbered last and is to be entered, or never
\* will be, or cannot be read.
LEMMA AccountAppended ==
    ASSUME TypeOK, Numbered, Accounted, chain' = chain,
           NEW e \in Chunks, store' = Append(store, e),
           e.id = issued + 1, e.kind # "anchor", issued' = issued + 1,
           e.form = "part" \/ e.id \in InFlight' \cup orphans',
           \A p \in Procs : rec'[p] <= issued',
           InFlight \cup orphans \subseteq InFlight' \cup orphans'
    PROVE  Numbered' /\ Accounted'
<1>1. /\ store \in Seq(Chunks) /\ Len(store) \in Nat /\ issued \in Nat
      /\ DOMAIN store = 1..Len(store) /\ DOMAIN store' = 1..(Len(store) + 1)
      /\ \A i \in DOMAIN store : store[i] \in Chunks /\ store'[i] = store[i]
      /\ store'[Len(store) + 1] = e
  BY Appended, LenProperties, ElementOfSeq DEF TypeOK
<1>2. \A i \in DOMAIN store' : i \in DOMAIN store \/ i = Len(store) + 1
  BY <1>1
<1>3. Anchored' = Anchored /\ Bound' = Bound
  <2>1. CASE Len(store) = 0
    <3>1. store = <<>> /\ store' # <<>> /\ store'[1].kind # "anchor"
      BY <1>1, <2>1, EmptySeq
    <3>2. QED
      BY <3>1 DEF Anchored, Bound
  <2>2. CASE Len(store) # 0
    <3>1. 1 \in DOMAIN store /\ store # <<>> /\ store' # <<>> /\ store'[1] = store[1]
      BY <1>1, <2>2, EmptySeq
    <3>2. QED
      BY <3>1 DEF Anchored, Bound
  <2>3. QED
    BY <2>1, <2>2
<1>4. Numbered'
  <2>1. \A i \in DOMAIN store : store[i].id \in Nat /\ store[i].id < issued + 1
    BY <1>1 DEF Numbered, Chunks
  <2>2. ASSUME NEW i \in DOMAIN store'
        PROVE  /\ store'[i].id <= issued'
               /\ i > 1 => store'[i].kind # "anchor"
               /\ \A j \in DOMAIN store' : j < i => store'[j].id < store'[i].id
    <3>1. CASE i \in DOMAIN store
      BY <1>1, <1>2, <2>1, <3>1 DEF Numbered
    <3>2. CASE i = Len(store) + 1
      BY <1>1, <1>2, <2>1, <3>2
    <3>3. QED
      BY <1>2, <3>1, <3>2
  <2>3. QED
    BY <2>2 DEF Numbered
<1>5. Since' = Since
  BY <1>3 DEF Since
<1>6. Accounted'
  <2>1. Anchored' => store'[1] = store[1]
    BY <1>1, <1>3, EmptySeq DEF Anchored
  <2>2. ASSUME NEW i \in DOMAIN store', store'[i].kind # "anchor", store'[i].form # "part"
        PROVE  store'[i].id \in InFlight' \cup orphans' \cup Since'
    <3>1. CASE i \in DOMAIN store
      BY <1>1, <1>5, <2>2, <3>1 DEF Accounted
    <3>2. CASE i = Len(store) + 1
      BY <1>1, <2>2, <3>2
    <3>3. QED
      BY <1>2, <3>1, <3>2
  <2>3. QED
    BY <1>3, <2>1, <2>2 DEF Accounted
<1>7. QED
  BY <1>4, <1>6

\* An entry leaves those in flight for those made since the anchor.
LEMMA AccountEntered ==
    ASSUME TypeOK, Numbered, Accounted, NEW p \in Procs, Enter(p)
    PROVE  Numbered' /\ Accounted'
<1>1. /\ Len(chain) \in Nat /\ Len(chain') = Len(chain) + 1
      /\ \A k \in 1..Len(chain) : chain'[k] = chain[k]
      /\ chain'[Len(chain) + 1] = rec[p]
  BY Appended DEF Enter, TypeOK
<1>2. /\ UNCHANGED <<store, issued, rec, orphans>>
  BY DEF Enter, files, locals, past
<1>3. Numbered'
  BY <1>2 DEF Numbered
<1>4. Bound' = Bound /\ Anchored' = Anchored
  BY <1>2 DEF Bound, Anchored
<1>5. Bound \in Nat /\ Bound <= Len(chain)
  <2>1. CASE Anchored
    <3>1. store[1] \in Chunks
      BY <2>1, ElementOfSeq, EmptySeq, LenProperties DEF Anchored, TypeOK
    <3>2. QED
      BY <2>1, <3>1 DEF Bound, Accounted, Chunks
  <2>2. CASE ~Anchored
    BY <1>1, <2>2 DEF Bound
  <2>3. QED
    BY <2>1, <2>2
<1>6. Since \cup {rec[p]} \subseteq Since'
  <2>1. ASSUME NEW k \in (Bound + 1)..Len(chain)
        PROVE  k \in (Bound + 1)..(Len(chain) + 1) /\ chain'[k] = chain[k]
    BY <1>1, <1>5
  <2>2. Len(chain) + 1 \in (Bound + 1)..(Len(chain) + 1)
    BY <1>1, <1>5
  <2>3. QED
    BY <1>1, <1>4, <2>1, <2>2 DEF Since
<1>7. InFlight \subseteq InFlight' \cup {rec[p]}
  BY <1>2, InFlightStays DEF Enter, PCs
<1>8. Anchored => store[1].ref <= Len(chain')
  BY <1>1, <1>5 DEF Accounted, Bound
<1>9. \A i \in DOMAIN store :
         store[i].kind # "anchor" /\ store[i].form # "part" =>
            store[i].id \in InFlight' \cup orphans' \cup Since'
  BY <1>2, <1>6, <1>7 DEF Accounted
<1>10. QED
  BY <1>2, <1>3, <1>4, <1>8, <1>9 DEF Accounted

\* Every step keeps the account of the records.
LEMMA AccountStep ==
    ASSUME TypeOK, Numbered, Accounted, [Next]_vars
    PROVE  Numbered' /\ Accounted'
<1>0. issued \in Nat /\ \A p \in Procs : rec[p] \in Nat /\ rec[p] <= issued
  BY DEF TypeOK, Numbered
<1>1. ASSUME NEW p \in Procs, NEW there \in {"idle", "down"}, Leave(p, there)
      PROVE  /\ \A q \in Procs : rec'[q] <= issued
             /\ InFlight \ {rec[p]} \subseteq InFlight'
             /\ pc[p] # "enter" => InFlight \subseteq InFlight'
  <2>1. Goto(p, there) /\ there \in PCs /\ \A q \in Procs \ {p} : rec'[q] = rec[q]
    BY <1>1 DEF Leave, PCs, TypeOK
  <2>2. \A q \in Procs : rec'[q] <= issued
    BY <1>0, <1>1 DEF Leave, TypeOK
  <2>3. QED
    BY <2>1, <2>2, InFlightStays
<1>2. ASSUME NEW p \in Procs, Load(p) \/ WritePending(p) \/ (\E lands \in BOOLEAN : Body(p, lands))
      PROVE  Numbered' /\ Accounted'
  <2>1. PICK there \in PCs : Goto(p, there)
    BY <1>2 DEF Load, WritePending, Body, Goto, PCs
  <2>2. pc[p] # "enter" /\ UNCHANGED <<store, chain, issued, rec, orphans>>
    BY <1>2 DEF Load, WritePending, Body, files, hashes, locals, past
  <2>3. InFlight \cup orphans \subseteq InFlight' \cup orphans'
    BY <2>1, <2>2, InFlightStays
  <2>4. QED
    BY <1>0, <2>2, <2>3, AccountKept
<1>3a. ASSUME NEW p \in Procs, NEW there \in {"idle", "down"}, RecordNothing(p, there)
       PROVE  Numbered' /\ Accounted'
  <2>1. Leave(p, there) /\ pc[p] # "enter" /\ UNCHANGED <<store, chain, issued, orphans>>
    BY <1>3a DEF RecordNothing, Admits, files, hashes, past
  <2>2. InFlight \cup orphans \subseteq InFlight' \cup orphans'
    BY <1>1, <2>1
  <2>3. QED
    BY <1>0, <1>1, <2>1, <2>2, AccountKept
<1>3. ASSUME NEW p \in Procs, Refuse(p) \/ CloseRefused(p) \/ SealFails(p)
                               \/ Unwind(p) \/ Adopt(p)
      PROVE  Numbered' /\ Accounted'
  <2>1. Leave(p, "idle") /\ pc[p] # "enter" /\ UNCHANGED <<store, chain, issued, orphans>>
    BY <1>3 DEF Refuse, CloseRefused, SealFails, Unwind, Adopt, Admits, files,
                hashes, past
  <2>2. InFlight \cup orphans \subseteq InFlight' \cup orphans'
    BY <1>1, <2>1
  <2>3. QED
    BY <1>0, <1>1, <2>1, <2>2, AccountKept
<1>4. ASSUME NEW p \in Procs, EnterFails(p) PROVE Numbered' /\ Accounted'
  <2>1. /\ Leave(p, "idle") /\ UNCHANGED <<store, chain, issued>>
        /\ orphans' = orphans \cup {rec[p]}
    BY <1>4 DEF EnterFails, files, hashes
  <2>2. InFlight \cup orphans \subseteq InFlight' \cup orphans'
    BY <1>1, <2>1
  <2>3. QED
    BY <1>0, <1>1, <2>1, <2>2, AccountKept
<1>5. ASSUME NEW p \in Procs, Crash(p) PROVE Numbered' /\ Accounted'
  <2>1. /\ Leave(p, "down") /\ UNCHANGED <<store, chain, issued>>
        /\ orphans \subseteq orphans'
        /\ pc[p] = "enter" => rec[p] \in orphans'
    BY <1>5 DEF Crash, hashes
  <2>2. InFlight \cup orphans \subseteq InFlight' \cup orphans'
    BY <1>1, <2>1
  <2>3. QED
    BY <1>0, <1>1, <2>1, <2>2, AccountKept
<1>6. ASSUME NEW p \in Procs, Seal(p) PROVE Numbered' /\ Accounted'
  <2>1. pc[p] = "seal" /\ UNCHANGED <<store, chain, issued, orphans>>
    BY <1>6 DEF Seal, files, past
  <2>2. /\ \A q \in Procs : rec'[q] <= issued
        /\ InFlight \subseteq InFlight'
    <3>1. CASE rec[p] = scope[p]
      <4>1. Goto(p, "body") /\ rec' = rec
        BY <1>6, <3>1 DEF Seal, Admitted
      <4>2. QED
        BY <1>0, <2>1, <4>1, InFlightStays DEF PCs
    <3>2. CASE rec[p] # scope[p]
      BY <1>1, <1>6, <2>1, <3>2 DEF Seal, Admitted
    <3>3. QED
      BY <3>1, <3>2
  <2>3. QED
    BY <1>0, <2>1, <2>2, AccountKept
<1>7. ASSUME NEW p \in Procs, Archive(p) PROVE Numbered' /\ Accounted'
  <2>1. /\ pc[p] = "idle" /\ UNCHANGED <<store, chain, orphans>>
        /\ issued' = issued + 1 /\ rec' = [rec EXCEPT ![p] = issued + 1]
        /\ Goto(p, "archived")
    BY <1>7 DEF Archive, hashes, past
  <2>2. \A q \in Procs : rec'[q] <= issued'
    <3>1. \A q \in Procs : rec'[q] = rec[q] \/ rec'[q] = issued + 1
      BY <2>1 DEF TypeOK
    <3>2. QED
      BY <1>0, <2>1, <3>1
  <2>3. InFlight \cup orphans \subseteq InFlight' \cup orphans'
    <3>1. \A q \in Procs \ {p} : rec'[q] = rec[q]
      BY <2>1 DEF TypeOK
    <3>2. QED
      BY <2>1, <3>1, InFlightStays DEF PCs
  <2>4. QED
    BY <1>0, <2>1, <2>2, <2>3, AccountKept
<1>8. ASSUME NEW p \in Procs, Record(p) PROVE Numbered' /\ Accounted'
  <2>1. /\ pc[p] \in {"idle", "closing"} /\ UNCHANGED <<chain, orphans>>
        /\ store' = Append(store, Forge(p, "line"))
        /\ issued' = issued + 1 /\ rec' = [rec EXCEPT ![p] = issued + 1]
        /\ Goto(p, "enter")
    BY <1>8 DEF Record, Admits, hashes
  <2>2. \A q \in Procs : rec'[q] <= issued'
    <3>1. \A q \in Procs : rec'[q] = rec[q] \/ rec'[q] = issued + 1
      BY <2>1 DEF TypeOK
    <3>2. QED
      BY <1>0, <2>1, <3>1
  <2>3. InFlight \cup orphans \subseteq InFlight' \cup orphans'
    <3>1. \A q \in Procs \ {p} : rec'[q] = rec[q]
      BY <2>1 DEF TypeOK
    <3>2. QED
      BY <2>1, <3>1, InFlightStays DEF PCs
  <2>4. issued + 1 \in InFlight'
    BY <2>1 DEF InFlight, Goto, TypeOK
  <2>5. Forge(p, "line") \in Chunks /\ Forge(p, "line").id = issued + 1
        /\ Forge(p, "line").kind # "anchor"
    BY ForgeType DEF Forge, Forms
  <2>6. QED
    BY <2>1, <2>2, <2>3, <2>4, <2>5, AccountAppended
<1>9. ASSUME NEW p \in Procs, NEW form \in Tears, NEW there \in {"idle", "down"},
             RecordFails(p, form, there)
      PROVE  Numbered' /\ Accounted'
  <2>1. /\ pc[p] # "enter" /\ UNCHANGED chain
        /\ store' = Append(store, Forge(p, form))
        /\ issued' = issued + 1 /\ Leave(p, there)
        /\ orphans \subseteq orphans' /\ (form = "part" \/ issued + 1 \in orphans')
    BY <1>9 DEF RecordFails, Admits, hashes
  <2>2. \A q \in Procs : rec'[q] <= issued'
    <3>1. \A q \in Procs : rec'[q] \in Nat /\ rec'[q] <= issued
      BY <1>0, <1>1, <2>1 DEF Leave, TypeOK
    <3>2. QED
      BY <1>0, <2>1, <3>1
  <2>3. InFlight \cup orphans \subseteq InFlight' \cup orphans'
    BY <1>1, <2>1
  <2>4. /\ Forge(p, form) \in Chunks /\ Forge(p, form).id = issued + 1
        /\ Forge(p, form).kind # "anchor" /\ Forge(p, form).form = form
    BY LedgersAssumption, ForgeType DEF Forge, Forms
  <2>5. QED
    BY <2>1, <2>2, <2>3, <2>4, AccountAppended
<1>10. ASSUME NEW p \in Procs, Replace(p) PROVE Numbered' /\ Accounted'
  <2>1. /\ store' = <<Anchor(p)>> /\ baseline[p] = Len(chain)
        /\ UNCHANGED <<chain, issued, rec>>
    BY <1>10 DEF Replace, hashes
  <2>2. DOMAIN store' = {1} /\ store'[1] = Anchor(p)
    BY <2>1
  <2>3. /\ Anchor(p).id = rec[p] /\ Anchor(p).kind = "anchor"
        /\ Anchor(p).form = "line" /\ Anchor(p).ref = Len(chain)
    BY <2>1 DEF Anchor
  <2>4. Len(chain) <= Len(chain) /\ Len(chain') = Len(chain)
    BY <2>1, LenProperties DEF TypeOK
  <2>5. QED
    BY <1>0, <2>1, <2>2, <2>3, <2>4 DEF Numbered, Accounted
<1>11. CASE UNCHANGED vars
  BY <1>11 DEF vars, Numbered, Accounted, Anchored, InFlight, Since, Bound
<1>12. QED
  BY <1>2, <1>3a, <1>3, <1>4, <1>5, <1>6, <1>7, <1>8, <1>9, <1>10, <1>11, AccountEntered
     DEF Next, Step

\* What reconcile() takes for the length the anchor binds is that.
LEMMA BaselineIsBound ==
    ASSUME TypeOK, Numbered, Accounted
    PROVE  Baseline(store) = Bound
<1> DEFINE anchors == {r \in LegibleOf(store) : r.kind = "anchor"}
<1>1. DOMAIN store = 1..Len(store) /\ Len(store) \in Nat
  BY LenProperties DEF TypeOK
<1>2. \A i \in DOMAIN store : store[i].kind = "anchor" => i = 1
  BY <1>1 DEF Numbered
<1>3. CASE Anchored
  <2>1. 1 \in DOMAIN store
    BY <1>1, <1>3, EmptySeq DEF Anchored, TypeOK
  <2>2. Legible(store, 1)
    BY <1>1, <1>3, <2>1 DEF Legible, Accounted
  <2>3. anchors = {store[1]}
    BY <1>2, <1>3, <2>1, <2>2 DEF LegibleOf, Anchored
  <2>4. anchors # {} /\ (CHOOSE r \in anchors : TRUE) = store[1]
    BY <2>3
  <2>5. QED
    BY <1>3, <2>4 DEF Baseline, Bound
<1>4. CASE ~Anchored
  <2>1. anchors = {}
    BY <1>1, <1>2, <1>4, EmptySeq DEF LegibleOf, Anchored, TypeOK
  <2>2. QED
    BY <1>4, <2>1 DEF Baseline, Bound
<1>5. QED
  BY <1>3, <1>4

\* Each admission that can be read is entered since the anchor, or one of those
\* that explain the shortfall; there are as many of them as have numbers.
LEMMA ShortfallCounted ==
    ASSUME TypeOK, Numbered, Accounted
    PROVE  ShortfallIsExplained
<1> DEFINE rows == {r \in LegibleOf(store) : r.kind # "anchor"}
           ids == {r.id : r \in rows}
           all == {r.id : r \in ToSet(store)}
           reasons == (InFlight \cup orphans) \cap all
           span == (Bound + 1)..Len(chain)
<1>0. /\ DOMAIN store = 1..Len(store) /\ Len(store) \in Nat /\ issued \in Nat
      /\ \A i \in DOMAIN store : store[i] \in Chunks
      /\ Len(chain) \in Nat
  BY LenProperties, ElementOfSeq DEF TypeOK
<1>1. \A r \in rows : \E i \in DOMAIN store : r = store[i] /\ Legible(store, i)
  BY DEF LegibleOf
<1>2. IsFiniteSet(all) /\ ids \subseteq all
  <2>1. \A i \in DOMAIN store : store[i].id \in 0..issued
    BY <1>0 DEF Numbered, Chunks
  <2>2. all \in SUBSET (0..issued)
    BY <2>1 DEF ToSet
  <2>3. IsFiniteSet(0..issued)
    BY <1>0, FS_Interval
  <2>4. ids \subseteq all
    BY <1>1 DEF ToSet
  <2>5. QED
    BY <2>2, <2>3, <2>4, FS_Subset
<1>3. /\ IsFiniteSet(ids) /\ Cardinality(ids) \in Nat
      /\ IsFiniteSet(reasons) /\ Cardinality(reasons) \in Nat
  BY <1>2, FS_Subset, FS_CardinalityType
<1>4. Cardinality(rows) \in Nat /\ Cardinality(rows) <= Cardinality(ids)
  <2> DEFINE f == [r \in rows |-> r.id]
  <2>1. ASSUME NEW r \in rows, NEW q \in rows, r.id = q.id PROVE r = q
    <3>1. PICK i \in DOMAIN store : r = store[i]
      BY <1>1
    <3>2. PICK j \in DOMAIN store : q = store[j]
      BY <1>1
    <3>3. ~(i < j) /\ ~(j < i)
      BY <1>0, <2>1, <3>1, <3>2 DEF Numbered, Chunks
    <3>4. QED
      BY <1>0, <3>1, <3>2, <3>3
  <2>2. f \in [rows -> ids] /\ \A r \in rows : f[r] = r.id
    OBVIOUS
  <2>3. f \in Injection(rows, ids)
    BY <2>1, <2>2 DEF Injection, IsInjective
  <2>4. QED
    BY <1>3, <2>3, FS_Injection, FS_CardinalityType
<1>5. ids \subseteq reasons \cup Since
  <2>1. ASSUME NEW r \in rows PROVE r.id \in reasons \cup Since
    <3>1. PICK i \in DOMAIN store : r = store[i] /\ Legible(store, i)
      BY <1>1
    <3>2. store[i].kind # "anchor" /\ store[i].form # "part"
      BY <3>1 DEF Legible
    <3>3. r.id \in InFlight \cup orphans \cup Since
      BY <3>1, <3>2 DEF Accounted
    <3>4. QED
      BY <1>2, <3>3
  <2>2. QED
    BY <2>1
<1>6. Bound \in Nat /\ Bound <= Len(chain)
  <2>1. CASE Anchored
    <3>1. store[1] \in Chunks
      BY <1>0, <2>1, EmptySeq DEF Anchored, TypeOK
    <3>2. QED
      BY <2>1, <3>1 DEF Bound, Accounted, Chunks
  <2>2. CASE ~Anchored
    BY <1>0, <2>2 DEF Bound
  <2>3. QED
    BY <2>1, <2>2
<1>7. /\ IsFiniteSet(Since) /\ Cardinality(Since) \in Nat
      /\ Cardinality(Since) <= Len(chain) - Bound
  <2> DEFINE f == [k \in span |-> chain[k]]
  <2>1. IsFiniteSet(span) /\ Cardinality(span) = Len(chain) - Bound
    <3>1. Bound + 1 \in Int /\ Len(chain) \in Int
      BY <1>0, <1>6
    <3>2. /\ IsFiniteSet(span)
          /\ Cardinality(span) = IF Bound + 1 > Len(chain) THEN 0
                                 ELSE Len(chain) - (Bound + 1) + 1
      BY <3>1, FS_Interval
    <3>3. QED
      BY <1>0, <1>6, <3>2
  <2>2. f \in [span -> Since] /\ \A k \in span : f[k] = chain[k]
    BY DEF Since
  <2>3. f \in Surjection(span, Since)
    BY <2>2 DEF Surjection, Since
  <2>4. QED
    BY <2>1, <2>3, FS_Surjection, FS_CardinalityType
<1>8. Cardinality(ids) <= Cardinality(reasons) + Cardinality(Since)
  <2>1. /\ IsFiniteSet(reasons \cup Since)
        /\ Cardinality(reasons \cup Since) <= Cardinality(reasons) + Cardinality(Since)
    <3>1. IsFiniteSet(reasons \cap Since) /\ Cardinality(reasons \cap Since) \in Nat
      BY <1>3, FS_Subset, FS_CardinalityType
    <3>2. /\ IsFiniteSet(reasons \cup Since)
          /\ Cardinality(reasons \cup Since) =
               Cardinality(reasons) + Cardinality(Since) - Cardinality(reasons \cap Since)
      BY <1>3, <1>7, FS_Union
    <3>3. QED
      BY <1>3, <1>7, <3>1, <3>2
  <2>2. Cardinality(ids) <= Cardinality(reasons \cup Since)
    BY <1>5, <2>1, FS_Subset
  <2>3. QED
    BY <1>3, <1>7, <2>1, <2>2, FS_CardinalityType
<1>9. AdmissionRows(store) = Cardinality(rows) /\ Baseline(store) = Bound
  BY BaselineIsBound DEF AdmissionRows
<1>10. Shortfall(store) <= Cardinality(reasons)
  BY <1>0, <1>3, <1>4, <1>6, <1>7, <1>8, <1>9 DEF Shortfall
<1>11. QED
  BY <1>10 DEF ShortfallIsExplained

\* reconcile() misses no entry but those of records in the store that somebody
\* is about to enter or that nobody ever will: for any number of processes,
\* tears, crashes and re-anchorings.
THEOREM ShortfallHasReasons == Spec => []ShortfallIsExplained
<1>1. Init => Numbered /\ Accounted
  <2> SUFFICES ASSUME Init PROVE Numbered /\ Accounted
    OBVIOUS
  <2>1. DOMAIN store = {}
    BY EmptySeq DEF Init
  <2>2. QED
    BY <2>1 DEF Init, Numbered, Accounted, Anchored
<1>2. TypeOK /\ Numbered /\ Accounted /\ [Next]_vars => Numbered' /\ Accounted'
  BY AccountStep
<1>3. TypeOK /\ Numbered /\ Accounted => ShortfallIsExplained
  BY ShortfallCounted
<1>4. QED
  BY <1>1, <1>2, <1>3, TypeCorrectness, PTL DEF Spec

-----------------------------------------------------------------------------
(* What the definitions by recursion come to.  The library's induction     *)
(* theorems have an operator as a parameter; WFMin has a set, and a set    *)
(* of numbers that lacks one lacks a least one.                            *)

\* A set that has 0, and with a number below n the next one, has all up to n.
LEMMA UpToBound ==
    ASSUME NEW T, NEW n \in Nat, 0 \in T, \A k \in 0..(n - 1) : k \in T => k + 1 \in T
    PROVE  \A k \in 0..n : k \in T
<1> DEFINE Missing == {k \in 0..n : k \notin T}
<1>1. SUFFICES ASSUME Missing # {} PROVE FALSE
  OBVIOUS
<1>2. Missing \subseteq Nat
  OBVIOUS
<1> HIDE DEF Missing
<1>3. PICK m \in Missing : \A k \in Missing : ~(<<k, m>> \in OpToRel(<, Nat))
  BY <1>1, <1>2, NatLessThanWellFounded, WFMin, Zenon
<1>4. m \in 0..n /\ m \notin T /\ m # 0
  BY <1>3 DEF Missing
<1>5. m - 1 \in 0..(n - 1) /\ m - 1 \in Nat /\ m \in Nat /\ m - 1 < m
  BY <1>4
<1>6. CASE m - 1 \in T
  BY <1>4, <1>5, <1>6
<1>7. CASE m - 1 \notin T
  <2>1. m - 1 \in Missing
    BY <1>5, <1>7 DEF Missing
  <2>2. <<m - 1, m>> \in OpToRel(<, Nat)
    BY <1>5 DEF OpToRel
  <2>3. QED
    BY <1>3, <2>1, <2>2
<1>8. QED
  BY <1>6, <1>7

\* The function by which FlattenSeq is defined, on the first n sequences.
Flattens(seqs, f, n) ==
    f = [i \in 1..n |-> IF i = 1 THEN seqs[i] ELSE f[i - 1] \o seqs[i]]

\* There is such a function.
LEMMA FlattensExists ==
    ASSUME NEW seqs, NEW n \in Nat
    PROVE  \E f : Flattens(seqs, f, n)
<1> DEFINE T == {k \in 0..n : \E f : Flattens(seqs, f, k)}
<1>1. 0 \in T
  <2>1. Flattens(seqs, [i \in {} |-> {}], 0)
    BY DEF Flattens
  <2>2. QED
    BY <2>1
<1>2. ASSUME NEW k \in 0..(n - 1), k \in T PROVE k + 1 \in T
  <2>1. PICK f : Flattens(seqs, f, k)
    BY <1>2
  <2> DEFINE g == [i \in 1..(k + 1) |-> IF i = 1 THEN seqs[i] ELSE f[i - 1] \o seqs[i]]
  <2>2. ASSUME NEW i \in 1..(k + 1), i # 1 PROVE g[i - 1] = f[i - 1]
    <3>1. i - 1 \in 1..k /\ i - 1 \in 1..(k + 1)
      BY <2>2
    <3>2. f[i - 1] = IF i - 1 = 1 THEN seqs[i - 1] ELSE f[i - 1 - 1] \o seqs[i - 1]
      BY <2>1, <3>1 DEF Flattens
    <3>3. QED
      BY <3>1, <3>2
  <2>3. Flattens(seqs, g, k + 1)
    BY <2>2 DEF Flattens
  <2>4. QED
    BY <2>3
<1> HIDE DEF T
<1>3. \A k \in 0..n : k \in T
  BY <1>1, <1>2, UpToBound
<1>4. n \in T
  BY <1>3
<1>5. QED
  BY <1>4 DEF T

\* FlattenSeq is its last value.
LEMMA FlattenIsLast ==
    ASSUME NEW seqs, Len(seqs) \in Nat \ {0}
    PROVE  \E f : Flattens(seqs, f, Len(seqs)) /\ FlattenSeq(seqs) = f[Len(seqs)]
<1> DEFINE f == CHOOSE h : Flattens(seqs, h, Len(seqs))
<1>1. Flattens(seqs, f, Len(seqs))
  BY FlattensExists
<1>2. FlattenSeq(seqs) = f[Len(seqs)]
  BY DEF FlattenSeq, Flattens
<1>3. QED
  BY <1>1, <1>2

\* What is flattened is a sequence of what was in the sequences.
LEMMA FlattenType ==
    ASSUME NEW C, NEW seqs \in Seq(Seq(C))
    PROVE  FlattenSeq(seqs) \in Seq(C)
<1>1. CASE Len(seqs) = 0
  BY <1>1, EmptySeq DEF FlattenSeq
<1>2. CASE Len(seqs) # 0
  <2>0. Len(seqs) \in Nat \ {0} /\ \A i \in 1..Len(seqs) : seqs[i] \in Seq(C)
    BY <1>2, LenProperties, ElementOfSeq
  <2>1. PICK f : Flattens(seqs, f, Len(seqs)) /\ FlattenSeq(seqs) = f[Len(seqs)]
    BY <2>0, FlattenIsLast
  <2> DEFINE T == {k \in 0..Len(seqs) : k # 0 => f[k] \in Seq(C)}
  <2>2. 0 \in T
    BY <2>0
  <2>3. ASSUME NEW k \in 0..(Len(seqs) - 1), k \in T PROVE k + 1 \in T
    <3>1. k + 1 \in 1..Len(seqs) /\ (k + 1) - 1 = k /\ k + 1 \in 0..Len(seqs)
      BY <2>0
    <3>2. f[k + 1] = IF k + 1 = 1 THEN seqs[k + 1] ELSE f[k] \o seqs[k + 1]
      BY <2>1, <3>1 DEF Flattens
    <3>3. seqs[k + 1] \in Seq(C) /\ (k # 0 => f[k] \in Seq(C))
      BY <2>0, <2>3, <3>1
    <3>4. f[k + 1] \in Seq(C)
      BY <3>1, <3>2, <3>3, ConcatProperties
    <3>5. QED
      BY <3>1, <3>4
  <2> HIDE DEF T
  <2>4. \A k \in 0..Len(seqs) : k \in T
    BY <2>0, <2>2, <2>3, UpToBound
  <2>5. QED
    BY <2>0, <2>1, <2>4 DEF T
<1>3. QED
  BY <1>1, <1>2

\* One more sequence comes at the end.
LEMMA FlattenAppend ==
    ASSUME NEW C, NEW seqs \in Seq(Seq(C)), NEW s \in Seq(C)
    PROVE  FlattenSeq(Append(seqs, s)) = FlattenSeq(seqs) \o s
<1> DEFINE n == Len(seqs)
           more == Append(seqs, s)
<1>0. /\ n \in Nat /\ Len(more) = n + 1 /\ more[n + 1] = s
      /\ \A i \in 1..n : more[i] = seqs[i]
      /\ n + 1 \in Nat \ {0} /\ n <= n + 1
      /\ n + 1 \in 1..(n + 1) /\ (n + 1) - 1 = n
  BY AppendProperties, LenProperties
<1> HIDE DEF more
<1>1. PICK g : Flattens(more, g, n + 1) /\ FlattenSeq(more) = g[n + 1]
  BY <1>0, FlattenIsLast
<1>2. g[n + 1] = IF n + 1 = 1 THEN s ELSE g[n] \o s
  <2>1. g[n + 1] = IF n + 1 = 1 THEN more[n + 1] ELSE g[(n + 1) - 1] \o more[n + 1]
    BY <1>0, <1>1 DEF Flattens
  <2>2. QED
    BY <1>0, <2>1
<1>3. CASE n = 0
  <2>1. FlattenSeq(seqs) = <<>>
    BY <1>3, EmptySeq DEF FlattenSeq
  <2>2. QED
    BY <1>0, <1>1, <1>2, <1>3, <2>1, ConcatEmptySeq DEF more
<1>4. CASE n # 0
  <2>1. PICK f : Flattens(seqs, f, n) /\ FlattenSeq(seqs) = f[n]
    BY <1>0, <1>4, FlattenIsLast
  \* The two functions agree where the sequences do.
  <2> DEFINE T == {k \in 0..n : k # 0 => g[k] = f[k]}
  <2>2. \A k \in 0..n : k \in T
    <3>1. 0 \in T
      BY <1>0
    <3>2. ASSUME NEW k \in 0..(n - 1), k \in T PROVE k + 1 \in T
      <4>1. k + 1 \in 1..n /\ k + 1 \in 1..(n + 1) /\ (k + 1) - 1 = k
        BY <1>0
      <4>2. /\ f[k + 1] = IF k + 1 = 1 THEN seqs[k + 1] ELSE f[k] \o seqs[k + 1]
            /\ g[k + 1] = IF k + 1 = 1 THEN more[k + 1] ELSE g[k] \o more[k + 1]
        BY <1>1, <2>1, <4>1 DEF Flattens
      <4>3. QED
        BY <1>0, <3>2, <4>1, <4>2
    <3> HIDE DEF T
    <3>3. QED
      BY <1>0, <3>1, <3>2, UpToBound
  <2>3. g[n] = f[n]
    BY <1>0, <1>4, <2>2
  <2>4. QED
    BY <1>0, <1>1, <1>2, <1>4, <2>1, <2>3 DEF more
<1>5. QED
  BY <1>3, <1>4

\* The function by which LineIds is defined, on the first n appends.
Selects(s, f, n) ==
    f = [i \in 0..n |->
            IF i = 0 THEN <<>>
            ELSE IF s[i].form = "line" THEN Append(f[i - 1], s[i].id) ELSE f[i - 1]]

\* There is such a function.
LEMMA SelectsExists ==
    ASSUME NEW s, NEW n \in Nat
    PROVE  \E f : Selects(s, f, n)
<1> DEFINE T == {k \in 0..n : \E f : Selects(s, f, k)}
<1>1. 0 \in T
  <2>1. Selects(s, [i \in 0..0 |-> <<>>], 0)
    BY DEF Selects
  <2>2. QED
    BY <2>1
<1>2. ASSUME NEW k \in 0..(n - 1), k \in T PROVE k + 1 \in T
  <2>1. PICK f : Selects(s, f, k)
    BY <1>2
  <2> DEFINE g == [i \in 0..(k + 1) |->
                      IF i = 0 THEN <<>>
                      ELSE IF s[i].form = "line" THEN Append(f[i - 1], s[i].id)
                                                 ELSE f[i - 1]]
  <2>2. ASSUME NEW i \in 0..(k + 1), i # 0 PROVE g[i - 1] = f[i - 1]
    <3>1. i - 1 \in 0..k /\ i - 1 \in 0..(k + 1)
      BY <2>2
    <3>2. f[i - 1] = IF i - 1 = 0 THEN <<>>
                     ELSE IF s[i - 1].form = "line"
                          THEN Append(f[i - 1 - 1], s[i - 1].id) ELSE f[i - 1 - 1]
      BY <2>1, <3>1 DEF Selects
    <3>3. QED
      BY <3>1, <3>2
  <2>3. Selects(s, g, k + 1)
    BY <2>2 DEF Selects
  <2>4. QED
    BY <2>3
<1> HIDE DEF T
<1>3. \A k \in 0..n : k \in T
  BY <1>1, <1>2, UpToBound
<1>4. n \in T
  BY <1>3
<1>5. QED
  BY <1>4 DEF T

\* LineIds is its last value.
LEMMA LineIdsIsLast ==
    ASSUME NEW s, Len(s) \in Nat
    PROVE  \E f : Selects(s, f, Len(s)) /\ LineIds(s) = f[Len(s)]
<1> DEFINE f == CHOOSE h : Selects(s, h, Len(s))
<1>1. Selects(s, f, Len(s))
  BY SelectsExists
<1>2. LineIds(s) = f[Len(s)]
  BY DEF LineIds, Selects
<1>3. QED
  BY <1>1, <1>2

\* An append comes at the end, if it made a line.
LEMMA LineIdsAppend ==
    ASSUME NEW C, NEW s \in Seq(C), NEW e \in C
    PROVE  LineIds(Append(s, e)) = IF e.form = "line" THEN Append(LineIds(s), e.id)
                                                      ELSE LineIds(s)
<1> DEFINE n == Len(s)
           more == Append(s, e)
<1>0. /\ n \in Nat /\ Len(more) = n + 1 /\ more[n + 1] = e
      /\ \A i \in 1..n : more[i] = s[i]
      /\ n + 1 \in Nat /\ n <= n + 1 /\ n + 1 # 0 /\ n \in 0..n
      /\ n + 1 \in 0..(n + 1) /\ (n + 1) - 1 = n
  BY AppendProperties, LenProperties
<1> HIDE DEF more
<1>1. PICK g : Selects(more, g, n + 1) /\ LineIds(more) = g[n + 1]
  BY <1>0, LineIdsIsLast
<1>2. PICK f : Selects(s, f, n) /\ LineIds(s) = f[n]
  BY <1>0, LineIdsIsLast
\* The two functions agree where the stores do.
<1> DEFINE T == {k \in 0..n : g[k] = f[k]}
<1>3. \A k \in 0..n : k \in T
  <2>1. 0 \in T
    <3>1. 0 \in 0..n /\ 0 \in 0..(n + 1)
      BY <1>0
    <3>2. g[0] = <<>> /\ f[0] = <<>>
      BY <1>1, <1>2, <3>1 DEF Selects
    <3>3. QED
      BY <3>1, <3>2
  <2>2. ASSUME NEW k \in 0..(n - 1), k \in T PROVE k + 1 \in T
    <3>1. k + 1 \in 1..n /\ k + 1 \in 0..n /\ k + 1 \in 0..(n + 1)
          /\ (k + 1) - 1 = k /\ k + 1 # 0
      BY <1>0
    <3>2. /\ f[k + 1] = IF s[k + 1].form = "line" THEN Append(f[k], s[k + 1].id) ELSE f[k]
          /\ g[k + 1] = IF more[k + 1].form = "line" THEN Append(g[k], more[k + 1].id)
                                                     ELSE g[k]
      BY <1>1, <1>2, <3>1 DEF Selects
    <3>3. QED
      BY <1>0, <2>2, <3>1, <3>2
  <2> HIDE DEF T
  <2>3. QED
    BY <1>0, <2>1, <2>2, UpToBound
<1>4. g[n + 1] = IF more[n + 1].form = "line"
                 THEN Append(g[(n + 1) - 1], more[n + 1].id) ELSE g[(n + 1) - 1]
  BY <1>0, <1>1 DEF Selects
<1>5. QED
  BY <1>0, <1>1, <1>2, <1>3, <1>4 DEF more

\* The evidence on record, when the store is appended to and when it is replaced.
LEMMA RecordedSteps ==
    ASSUME TypeOK
    PROVE  /\ \A e \in Chunks :
                store' = Append(store, e) /\ archives' = archives =>
                   Recorded' = IF e.form = "line" THEN Append(Recorded, e.id)
                                                  ELSE Recorded
           /\ \A e \in Chunks :
                store' = <<e>> /\ archives' = Append(archives, store) =>
                   Recorded' = IF e.form = "line" THEN Append(Recorded, e.id)
                                                  ELSE Recorded
<1> DEFINE all == FlattenSeq(Append(archives, store))
<1>1. /\ archives \in Seq(Seq(Chunks)) /\ store \in Seq(Chunks)
      /\ Append(archives, store) \in Seq(Seq(Chunks))
      /\ FlattenSeq(archives) \in Seq(Chunks) /\ all \in Seq(Chunks)
      /\ all = FlattenSeq(archives) \o store
  BY AppendProperties, FlattenType, FlattenAppend DEF TypeOK
<1> HIDE DEF all
<1>2. ASSUME NEW e \in Chunks
      PROVE  LineIds(Append(all, e)) = IF e.form = "line" THEN Append(Recorded, e.id)
                                                          ELSE Recorded
  BY <1>1, LineIdsAppend DEF Recorded, all
<1>3. ASSUME NEW e \in Chunks, store' = Append(store, e), archives' = archives
      PROVE  Recorded' = LineIds(Append(all, e))
  <2>1. Append(store, e) \in Seq(Chunks)
    BY <1>1, AppendProperties
  <2>2. FlattenSeq(Append(archives, Append(store, e)))
          = FlattenSeq(archives) \o Append(store, e)
    BY <1>1, <2>1, FlattenAppend
  <2>3. FlattenSeq(archives) \o Append(store, e) = Append(all, e)
    BY <1>1, AppendIsConcat, ConcatAssociative, <2>1
  <2>4. QED
    BY <1>3, <2>2, <2>3 DEF Recorded
<1>4. ASSUME NEW e \in Chunks, store' = <<e>>, archives' = Append(archives, store)
      PROVE  Recorded' = LineIds(Append(all, e))
  <2>1. <<e>> \in Seq(Chunks)
    OBVIOUS
  <2>2. FlattenSeq(Append(Append(archives, store), <<e>>)) = all \o <<e>>
    BY <1>1, <2>1, FlattenAppend DEF all
  <2>3. all \o <<e>> = Append(all, e)
    BY <1>1, AppendIsConcat
  <2>4. QED
    BY <1>4, <2>2, <2>3 DEF Recorded
<1>5. QED
  BY <1>2, <1>3, <1>4

-----------------------------------------------------------------------------
(* The ledgers implement AdmissionLog.                                     *)

\* A process with a record of its own that the ledger it is for has not yet.
Awaiting(p) == pc[p] \in {"enter", "archived", "pending"}

\* Every record has its number once.  The anchor a process forged is not on
\* record before it replaces the store; what a process is about to enter is on
\* record and not in the chain.
NumberedOnce ==
    /\ issued <= MaxRecords
    /\ Recorded \in Seq(Nat)
    /\ ToSet(Recorded) \cup ToSet(chain) \subseteq 1..issued
    /\ \A p \in Procs : Awaiting(p) =>
         /\ rec[p] \in 1..issued
         /\ IF pc[p] = "enter" THEN rec[p] \in ToSet(Recorded) \ ToSet(chain)
                               ELSE rec[p] \notin ToSet(Recorded)
    /\ \A p, q \in Procs :
         Awaiting(p) /\ Awaiting(q) /\ rec[p] = rec[q] => p = q

\* The process that moves leaves what the others await.
OthersAwait(p) ==
    \A q \in Procs \ {p} : pc'[q] = pc[q] /\ rec'[q] = rec[q]

\* What leaves the record and the chain alone keeps the numbers, if the process
\* that moves awaits nothing, or what it did.
LEMMA NumbersKept ==
    ASSUME TypeOK, NumberedOnce, NEW p \in Procs, OthersAwait(p),
           Recorded' = Recorded, chain' = chain,
           issued' \in Nat, issued <= issued', issued' <= MaxRecords,
           \/ ~Awaiting(p)'
           \/ Awaiting(p) /\ (pc'[p] = "enter" <=> pc[p] = "enter") /\ rec'[p] = rec[p]
           \/ /\ pc'[p] = "archived" /\ issued' = issued + 1 /\ rec'[p] = issued'
    PROVE  NumberedOnce'
<1>1. issued \in Nat /\ 1..issued \subseteq 1..issued' /\ (issued + 1) \notin 1..issued
  BY DEF TypeOK
<1>2. \A q \in Procs \ {p} : Awaiting(q)' = Awaiting(q) /\ rec'[q] = rec[q] /\ pc'[q] = pc[q]
  BY DEF OthersAwait, Awaiting
<1>3. ToSet(Recorded)' = ToSet(Recorded) /\ ToSet(chain)' = ToSet(chain)
  OBVIOUS
<1>4. CASE ~Awaiting(p)'
  BY <1>1, <1>2, <1>3, <1>4 DEF NumberedOnce
<1>5. CASE Awaiting(p) /\ (pc'[p] = "enter" <=> pc[p] = "enter") /\ rec'[p] = rec[p]
  BY <1>1, <1>2, <1>3, <1>5 DEF NumberedOnce
<1>6. CASE pc'[p] = "archived" /\ issued' = issued + 1 /\ rec'[p] = issued'
  <2>1. issued' \in 1..issued' /\ issued' \notin 1..issued
    BY <1>1, <1>6
  <2>2. \A q \in Procs \ {p} : Awaiting(q)' => rec'[q] \in 1..issued
    BY <1>2 DEF NumberedOnce
  <2>3. QED
    BY <1>1, <1>2, <1>3, <1>6, <2>1, <2>2 DEF NumberedOnce
<1>7. QED
  BY <1>4, <1>5, <1>6

\* Who leaves its scope awaits nothing, and the others what they did.
LEMMA LeaveAwaits ==
    ASSUME TypeOK, NEW p \in Procs, NEW there \in {"idle", "down"}, Leave(p, there)
    PROVE  OthersAwait(p) /\ ~Awaiting(p)'
BY DEF Leave, Goto, OthersAwait, Awaiting, TypeOK

\* A step maps to a step of AdmissionLog or to none, and keeps the numbers.
Maps == (Log!Next \/ UNCHANGED Log!vars) /\ NumberedOnce'

\* A step that leaves the ledgers alone.
LEMMA NothingMaps ==
    ASSUME TypeOK, NumberedOnce, NEW p \in Procs, OthersAwait(p),
           UNCHANGED <<store, archives, chain, head>>,
           issued' \in Nat, issued <= issued', issued' <= MaxRecords,
           \/ ~Awaiting(p)'
           \/ Awaiting(p) /\ (pc'[p] = "enter" <=> pc[p] = "enter") /\ rec'[p] = rec[p]
           \/ /\ pc'[p] = "archived" /\ issued' = issued + 1 /\ rec'[p] = issued'
    PROVE  Maps
<1>1. Recorded' = Recorded
  BY DEF Recorded
<1>2. NumberedOnce'
  BY <1>1, NumbersKept
<1>3. QED
  BY <1>1, <1>2 DEF Maps, Log!vars

\* A step that puts a new record on record.
LEMMA RecordMaps ==
    ASSUME TypeOK, NumberedOnce, NEW p \in Procs, OthersAwait(p),
           NEW r \in Nat, Recorded' = Append(Recorded, r), UNCHANGED <<chain, head>>,
           issued' \in Nat, issued <= issued', issued' <= MaxRecords,
           \/ r = issued + 1 /\ issued' = r
           \/ r = rec[p] /\ pc[p] \in {"archived", "pending"},
           \/ ~Awaiting(p)'
           \/ pc'[p] = "enter" /\ rec'[p] = r /\ r = issued + 1
    PROVE  Maps
<1>0. issued \in Nat /\ 1..issued \subseteq 1..issued'
  BY DEF TypeOK
<1>1. Recorded \in Seq(Nat) /\ ToSet(chain) \subseteq 1..issued
      /\ ToSet(Recorded) \subseteq 1..issued
  BY DEF NumberedOnce
<1>2. Recorded' \in Seq(Nat) /\ ToSet(Recorded') = ToSet(Recorded) \cup {r}
  BY <1>1, Appended
<1>3. r \notin ToSet(Recorded) /\ r \in 1..issued' /\ r \in 1..MaxRecords
  <2>1. CASE r = issued + 1 /\ issued' = r
    BY <1>0, <1>1, <2>1, LedgersAssumption
  <2>2. CASE r = rec[p] /\ pc[p] \in {"archived", "pending"}
    <3>1. rec[p] \in 1..issued /\ rec[p] \notin ToSet(Recorded)
      BY <2>2 DEF NumberedOnce, Awaiting
    <3>2. QED
      BY <1>0, <2>2, <3>1, LedgersAssumption
  <2>3. QED
    BY <2>1, <2>2
<1>4. Log!Next
  <2>1. Log!Record(r)
    BY <1>3 DEF Log!Record, Log!ToSet, ToSet
  <2>2. QED
    BY <1>3, <2>1 DEF Log!Next
<1>5. \A q \in Procs \ {p} :
         /\ Awaiting(q)' = Awaiting(q) /\ rec'[q] = rec[q] /\ pc'[q] = pc[q]
         /\ Awaiting(q) => rec[q] # r \/ pc[q] = "enter"
  <2>1. \A q \in Procs \ {p} :
           Awaiting(q)' = Awaiting(q) /\ rec'[q] = rec[q] /\ pc'[q] = pc[q]
    BY DEF OthersAwait, Awaiting
  <2>2. ASSUME NEW q \in Procs \ {p}, Awaiting(q), pc[q] # "enter", rec[q] = r PROVE FALSE
    <3>1. rec[q] \in 1..issued
      BY <2>2 DEF NumberedOnce
    <3>2. CASE r = issued + 1
      BY <1>0, <2>2, <3>1, <3>2
    <3>3. CASE r = rec[p] /\ pc[p] \in {"archived", "pending"}
      BY <2>2, <3>3 DEF NumberedOnce, Awaiting
    <3>4. QED
      BY <3>2, <3>3
  <2>3. QED
    BY <2>1, <2>2
<1>6. pc'[p] = "enter" /\ Awaiting(p)' =>
         /\ rec'[p] \in ToSet(Recorded') \ ToSet(chain)
         /\ \A q \in Procs \ {p} : Awaiting(q)' => rec'[q] # rec'[p]
  <2>1. SUFFICES ASSUME pc'[p] = "enter", Awaiting(p)'
                 PROVE  /\ rec'[p] \in ToSet(Recorded') \ ToSet(chain)
                        /\ \A q \in Procs \ {p} : Awaiting(q)' => rec'[q] # rec'[p]
    OBVIOUS
  <2>2. rec'[p] = issued + 1 /\ r = issued + 1
    BY <2>1
  <2>3. \A q \in Procs \ {p} : Awaiting(q)' => rec'[q] \in 1..issued
    BY <1>5 DEF NumberedOnce
  <2>4. QED
    BY <1>0, <1>1, <1>2, <2>2, <2>3
<1>7. NumberedOnce'
  <2>1. ToSet(Recorded)' \cup ToSet(chain)' \subseteq 1..issued'
    BY <1>0, <1>1, <1>2, <1>3
  <2>2. ASSUME NEW q \in Procs, Awaiting(q)'
        PROVE  /\ rec'[q] \in 1..issued'
               /\ IF pc'[q] = "enter" THEN rec'[q] \in ToSet(Recorded)' \ ToSet(chain)'
                                      ELSE rec'[q] \notin ToSet(Recorded)'
    <3>1. CASE q = p
      BY <1>3, <1>6, <2>2, <3>1
    <3>2. CASE q # p
      BY <1>0, <1>2, <1>5, <2>2, <3>2 DEF NumberedOnce
    <3>3. QED
      BY <3>1, <3>2
  <2>3. ASSUME NEW q \in Procs, NEW u \in Procs, Awaiting(q)', Awaiting(u)',
               rec'[q] = rec'[u]
        PROVE  q = u
    <3>1. CASE q # p /\ u # p
      BY <1>5, <2>3, <3>1 DEF NumberedOnce
    <3>2. CASE q = p \/ u = p
      BY <1>6, <2>3, <3>2
    <3>3. QED
      BY <3>1, <3>2
  <2>4. QED
    BY <1>2, <2>1, <2>2, <2>3 DEF NumberedOnce
<1>8. QED
  BY <1>4, <1>7 DEF Maps

\* An admission enters the chain: it is on record, and enters once.
LEMMA EnterMaps ==
    ASSUME TypeOK, NumberedOnce, NEW p \in Procs, Enter(p)
    PROVE  Maps
<1>1. /\ pc[p] = "enter" /\ chain' = Append(chain, rec[p]) /\ Goto(p, "seal")
      /\ UNCHANGED <<store, archives, head, issued, rec>>
  BY DEF Enter, files, locals
<1>2. Recorded' = Recorded
  BY <1>1 DEF Recorded
<1>3. /\ rec[p] \in ToSet(Recorded) \ ToSet(chain)
      /\ rec[p] \in 1..issued /\ issued <= MaxRecords /\ issued \in Nat
  BY <1>1 DEF NumberedOnce, Awaiting, TypeOK
<1>4. Log!Next
  <2>1. Log!Enter(rec[p])
    BY <1>1, <1>2, <1>3 DEF Log!Enter, Log!ToSet, ToSet
  <2>2. rec[p] \in 1..MaxRecords
    BY <1>3, LedgersAssumption
  <2>3. QED
    BY <2>1, <2>2 DEF Log!Next
<1>5. ToSet(chain') = ToSet(chain) \cup {rec[p]}
  BY <1>1, ChainGrows
<1>6. /\ ~Awaiting(p)'
      /\ \A q \in Procs \ {p} : Awaiting(q)' = Awaiting(q) /\ pc'[q] = pc[q]
                                /\ rec'[q] = rec[q]
  BY <1>1 DEF Goto, Awaiting, TypeOK
<1>7. \A q \in Procs \ {p} : Awaiting(q) => rec[q] # rec[p]
  BY <1>1 DEF NumberedOnce, Awaiting
<1>8. NumberedOnce'
  BY <1>1, <1>2, <1>3, <1>5, <1>6, <1>7 DEF NumberedOnce
<1>9. QED
  BY <1>4, <1>8 DEF Maps

\* The seal goes to the end of the chain.
LEMMA SealMaps ==
    ASSUME TypeOK, EnteredFirst, NumberedOnce, NEW p \in Procs, Seal(p)
    PROVE  Maps
<1>1. /\ pc[p] = "seal" /\ head' = Last(chain)
      /\ UNCHANGED <<store, archives, chain, issued>>
  BY DEF Seal, files
<1>2. Recorded' = Recorded
  BY <1>1 DEF Recorded
<1>3. chain # <<>>
  BY <1>1, EmptySeq DEF EnteredFirst, ToSet
<1>4. Log!Next
  BY <1>1, <1>2, <1>3 DEF Log!Next, Log!Seal, Log!Last, Last
<1>5. OthersAwait(p) /\ ~Awaiting(p)'
  <2>1. CASE rec[p] = scope[p]
    BY <2>1 DEF Seal, Admitted, Goto, OthersAwait, Awaiting, TypeOK
  <2>2. CASE rec[p] # scope[p]
    BY <2>2, LeaveAwaits DEF Seal, Admitted
  <2>3. QED
    BY <2>1, <2>2
<1>6. NumberedOnce'
  <2>1. issued' \in Nat /\ issued <= issued' /\ issued' <= MaxRecords
    BY <1>1 DEF TypeOK, NumberedOnce
  <2>2. QED
    BY <1>1, <1>2, <1>5, <2>1, NumbersKept
<1>7. QED
  BY <1>4, <1>6 DEF Maps

\* Every step of the ledgers is one of AdmissionLog or none.
LEMMA StepMaps ==
    ASSUME TypeOK, EnteredFirst, NumberedOnce, [Next]_vars
    PROVE  Maps
<1>0. issued \in Nat /\ issued <= issued /\ issued <= MaxRecords /\ MaxRecords \in Nat
  BY LedgersAssumption DEF TypeOK, NumberedOnce
<1>1. ASSUME NEW p \in Procs, Load(p) \/ (\E lands \in BOOLEAN : Body(p, lands))
      PROVE  Maps
  <2>1. OthersAwait(p) /\ ~Awaiting(p)' /\ UNCHANGED <<store, archives, chain, head, issued>>
    BY <1>1 DEF Load, Body, Goto, OthersAwait, Awaiting, files, hashes, locals,
                past, TypeOK
  <2>2. QED
    BY <1>0, <2>1, NothingMaps
<1>3a. ASSUME NEW p \in Procs, NEW there \in {"idle", "down"}, RecordNothing(p, there)
       PROVE  Maps
  <2>1. Leave(p, there) /\ UNCHANGED <<store, archives, chain, head, issued>>
    BY <1>3a DEF RecordNothing, files, hashes
  <2>2. QED
    BY <1>0, <2>1, LeaveAwaits, NothingMaps
<1>2. ASSUME NEW p \in Procs, Refuse(p) \/ CloseRefused(p) \/ EnterFails(p)
                              \/ SealFails(p) \/ Unwind(p) \/ Adopt(p)
      PROVE  Maps
  <2>1. Leave(p, "idle") /\ UNCHANGED <<store, archives, chain, head, issued>>
    BY <1>2 DEF Refuse, CloseRefused, EnterFails, SealFails, Unwind, Adopt,
                files, hashes
  <2>2. QED
    BY <1>0, <2>1, LeaveAwaits, NothingMaps
<1>3. ASSUME NEW p \in Procs, Crash(p) PROVE Maps
  <2>1. Leave(p, "down") /\ UNCHANGED <<store, archives, chain, head, issued>>
    BY <1>3 DEF Crash, hashes
  <2>2. QED
    BY <1>0, <2>1, LeaveAwaits, NothingMaps
<1>4. ASSUME NEW p \in Procs, Archive(p) PROVE Maps
  <2>1. /\ OthersAwait(p) /\ pc'[p] = "archived" /\ rec'[p] = issued + 1
        /\ issued' = issued + 1 /\ issued < MaxRecords
        /\ UNCHANGED <<store, archives, chain, head>>
    BY <1>4 DEF Archive, Goto, OthersAwait, hashes, TypeOK
  <2>2. issued' \in Nat /\ issued <= issued' /\ issued' <= MaxRecords
    BY <1>0, <2>1
  <2>3. QED
    BY <2>1, <2>2, NothingMaps
<1>5. ASSUME NEW p \in Procs, WritePending(p) PROVE Maps
  <2>1. /\ OthersAwait(p) /\ Awaiting(p) /\ pc[p] = "archived" /\ pc'[p] = "pending"
        /\ rec'[p] = rec[p] /\ UNCHANGED <<store, archives, chain, head, issued>>
    BY <1>5 DEF WritePending, Goto, OthersAwait, Awaiting, hashes, TypeOK
  <2>2. QED
    BY <1>0, <2>1, NothingMaps
<1>6. ASSUME NEW p \in Procs, Record(p) PROVE Maps
  <2>1. /\ OthersAwait(p) /\ pc'[p] = "enter" /\ rec'[p] = issued + 1
        /\ issued' = issued + 1 /\ issued < MaxRecords
        /\ store' = Append(store, Forge(p, "line")) /\ archives' = archives
        /\ UNCHANGED <<chain, head>>
    BY <1>6 DEF Record, Goto, OthersAwait, hashes, TypeOK
  <2>2. /\ Forge(p, "line") \in Chunks /\ Forge(p, "line").id = issued + 1
        /\ Forge(p, "line").form = "line"
    BY ForgeType DEF Forge, Forms
  <2>3. Recorded' = Append(Recorded, issued + 1)
    BY <2>1, <2>2, RecordedSteps
  <2>4. issued' \in Nat /\ issued + 1 \in Nat /\ issued <= issued' /\ issued' <= MaxRecords
    BY <1>0, <2>1
  <2>5. QED
    BY <2>1, <2>3, <2>4, RecordMaps
<1>7. ASSUME NEW p \in Procs, NEW form \in Tears, NEW there \in {"idle", "down"},
             RecordFails(p, form, there)
      PROVE  Maps
  <2>1. /\ Leave(p, there) /\ issued' = issued + 1 /\ issued < MaxRecords
        /\ store' = Append(store, Forge(p, form)) /\ archives' = archives
        /\ UNCHANGED <<chain, head>>
    BY <1>7 DEF RecordFails, hashes
  <2>2. /\ Forge(p, form) \in Chunks /\ Forge(p, form).id = issued + 1
        /\ Forge(p, form).form = form
    BY LedgersAssumption, ForgeType DEF Forge
  <2>3. Recorded' = IF form = "line" THEN Append(Recorded, issued + 1) ELSE Recorded
    BY <2>1, <2>2, RecordedSteps
  <2>4. issued' \in Nat /\ issued + 1 \in Nat /\ issued <= issued' /\ issued' <= MaxRecords
    BY <1>0, <2>1
  <2>5. OthersAwait(p) /\ ~Awaiting(p)'
    BY <2>1, LeaveAwaits
  <2>6. CASE form = "line"
    BY <2>1, <2>3, <2>4, <2>5, <2>6, RecordMaps
  <2>7. CASE form # "line"
    <3>1. Recorded' = Recorded
      BY <2>3, <2>7
    <3>2. NumberedOnce'
      BY <2>1, <2>4, <2>5, <3>1, NumbersKept
    <3>3. QED
      BY <2>1, <3>1, <3>2 DEF Maps, Log!vars
  <2>8. QED
    BY <2>6, <2>7
<1>8. ASSUME NEW p \in Procs, Replace(p) PROVE Maps
  <2>1. /\ OthersAwait(p) /\ ~Awaiting(p)' /\ pc[p] = "pending"
        /\ store' = <<Anchor(p)>> /\ archives' = Append(archives, store)
        /\ UNCHANGED <<chain, head, issued>>
    BY <1>8 DEF Replace, Goto, OthersAwait, Awaiting, hashes, TypeOK
  <2>2. Anchor(p) \in Chunks /\ Anchor(p).id = rec[p] /\ Anchor(p).form = "line"
    BY DEF Anchor, Chunks, Genesis, Forms, TypeOK
  <2>3. Recorded' = Append(Recorded, rec[p]) /\ rec[p] \in Nat
    BY <2>1, <2>2, RecordedSteps DEF TypeOK
  <2>4. QED
    BY <1>0, <2>1, <2>3, RecordMaps
<1>9. CASE UNCHANGED vars
  <2>1. Recorded' = Recorded /\ UNCHANGED <<chain, head, issued, pc, rec>>
    BY <1>9 DEF vars, Recorded
  <2>2. NumberedOnce'
    BY <2>1 DEF NumberedOnce, Awaiting
  <2>3. QED
    BY <2>1, <2>2 DEF Maps, Log!vars
<1>10. QED
  BY <1>1, <1>3a, <1>2, <1>3, <1>4, <1>5, <1>6, <1>7, <1>8, <1>9, EnterMaps, SealMaps
     DEF Next, Step

\* Nothing is on record in an empty store.
LEMMA NothingRecorded ==
    ASSUME Init
    PROVE  Recorded = <<>>
<1>1. archives \in Seq(Seq(Chunks)) /\ store \in Seq(Chunks)
      /\ archives = <<>> /\ store = <<>> /\ FlattenSeq(archives) = <<>>
  BY EmptySeq DEF Init, FlattenSeq
<1>2. FlattenSeq(Append(archives, store)) = <<>>
  <2>1. FlattenSeq(Append(archives, store)) = FlattenSeq(archives) \o store
    BY ONLY <1>1, FlattenAppend, Zenon
  <2>2. <<>> \in Seq(Chunks) /\ <<>> \o <<>> = <<>>
    BY ConcatEmptySeq, EmptySeq, Zenon
  <2>3. QED
    BY <1>1, <2>1, <2>2, Zenon
<1>3. Len(<<>>) = 0
  BY EmptySeq
<1>4. PICK f : Selects(<<>>, f, 0) /\ LineIds(<<>>) = f[0]
  BY <1>3, LineIdsIsLast
<1>5. f[0] = <<>>
  BY <1>4 DEF Selects
<1>6. QED
  BY <1>2, <1>4, <1>5 DEF Recorded

\* The ledgers implement AdmissionLog: for any number of processes, records,
\* tears, crashes and re-anchorings no evidence leaves the record or changes
\* its place, and each admission enters the chain once and after its evidence.
THEOREM LedgersImplementTheLog == Spec => LedgersOnlyGrow
<1>1. Init => Log!Init /\ NumberedOnce
  <2> SUFFICES ASSUME Init PROVE Log!Init /\ NumberedOnce
    OBVIOUS
  <2>1. Recorded = <<>> /\ chain = <<>> /\ head = Genesis /\ issued = 0
    BY NothingRecorded DEF Init
  <2>2. Log!Init
    BY <2>1 DEF Log!Init
  <2>3. Recorded \in Seq(Nat) /\ ToSet(Recorded) = {} /\ ToSet(chain) = {}
    BY <2>1, EmptySeq DEF ToSet
  <2>4. QED
    BY <2>1, <2>2, <2>3, LedgersAssumption DEF Init, NumberedOnce, Awaiting
<1>2. TypeOK /\ EnteredFirst /\ NumberedOnce /\ [Next]_vars
        => [Log!Next]_(Log!vars) /\ NumberedOnce'
  BY StepMaps DEF Maps
<1>3. QED
  BY <1>1, <1>2, Typed, PTL DEF Spec, LedgersOnlyGrow, Log!Spec
=============================================================================
