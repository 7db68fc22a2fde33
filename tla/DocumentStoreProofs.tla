------------------------- MODULE DocumentStoreProofs -------------------------
(***************************************************************************)
(* The store's promises for every number of processes, rows and structs,   *)
(* every threshold and every causal order.                                 *)
(***************************************************************************)
EXTENDS DocumentStore, FiniteSetTheorems, TLAPS

-----------------------------------------------------------------------------
(* Nothing is parked in the integrated part of a document (integrated_update
   in protocol.rs): what a struct waits for holds what that waits for. *)
LEMMA IntegratedNeverParks ==
    ASSUME NEW S \in Content PROVE ~HasPending(Integrated(S))
<1>1. SUFFICES ASSUME NEW u \in Integrated(S), NEW v \in Needs[u]
               PROVE  v \in Integrated(S)
  BY DEF HasPending, Pending, Integrated
<1>2. u \in Struct /\ v \in Struct /\ Needs[u] \subseteq S /\ Needs[v] \subseteq Needs[u]
  BY CrdtAssumption DEF Integrated, Content
<1> QED BY <1>2 DEF Integrated

(* What has taken effect stays so when more is folded in. *)
LEMMA IntegratedGrows ==
    ASSUME NEW S, NEW T, S \subseteq T PROVE Integrated(S) \subseteq Integrated(T)
  BY DEF Integrated

(* A document with nothing pending is its own integrated part. *)
LEMMA NothingPending ==
    ASSUME NEW S, ~HasPending(S) PROVE Integrated(S) = S
  BY DEF HasPending, Pending, Integrated

(* What makes compact_around_gap safe, holes or not: of the rows folded, one
   that is ready on the integrated part of the fold is in that part, because
   nothing of it parks there (update_is_ready). *)
LEMMA ReadyRowIsCaptured ==
    ASSUME NEW F \in Content, NEW U \in SUBSET F, UpdateIsReady(Integrated(F), U)
    PROVE  U \subseteq Integrated(F)
<1>1. ~HasPending(Integrated(F) \cup U)
  BY IntegratedNeverParks, NothingPending DEF UpdateIsReady, Content, Integrated
<1>2. U \subseteq Integrated(Integrated(F) \cup U)
  BY <1>1, NothingPending
<1>3. Integrated(F) \cup U \subseteq F
  BY DEF Integrated
<1> QED BY <1>2, <1>3, IntegratedGrows

(* The judgement of update_advances_doc, on any document S with nothing
   parked: a ready update that is said to change nothing is in S, unless it
   skips a clock after starting past its author's first one.  An insertion
   below the cap of its own state vector is compared there; one past a
   non-zero cap is a hidden gap; and with nothing skipped, readiness puts all
   of its author's earlier clocks in the document it is compared with. *)
LEMMA NoOpIsKnown ==
    ASSUME NEW S \in Content, NEW U \in Content, ~HasPending(S),
           UpdateIsReady(S, U), ~UpdateAdvances(S, U), ~SkipsLate(U)
    PROVE  U \subseteq S
<1>1. CASE U \cap Deletes # {}
  BY <1>1 DEF UpdateAdvances
<1>2. CASE U \cap Deletes = {}
  <2> SUFFICES ASSUME NEW u \in U PROVE u \in S
    OBVIOUS
  <2>0. StateVector(S) \subseteq S
    BY DEF StateVector, Integrated
  <2>1. u \in U \ Deletes
    BY <1>2
  <2>2. CASE u \in UpdateStateVector(U)
    BY <1>2, <2>0, <2>2 DEF UpdateAdvances, BeyondStateVector
  <2>3. CASE u \notin UpdateStateVector(U)
    <3>1. \A v \in UpdateStateVector(U) : Author[v] # Author[u]
      BY <2>1, <2>3 DEF UpdateAdvances, HiddenGap
    <3>2. \A w \in Earlier(u) : w \in U \/ Earlier(w) \cap U = {}
      BY <2>1, <3>1 DEF SkipsLate
    <3>3. Earlier(u) \subseteq U \cup StateVector(S)
      BY <2>1, <3>2 DEF UpdateIsReady, Below
    <3>4. Integrated(S) = S /\ Integrated(S \cup U) = S \cup U
      BY NothingPending DEF UpdateIsReady
    <3>5. u \in StateVector(S \cup U)
      BY <2>0, <2>1, <3>3, <3>4 DEF StateVector
    <3>6. StateVector(S \cup U) = StateVector(S)
      BY <1>2 DEF UpdateAdvances
    <3> QED BY <2>0, <3>5, <3>6
  <2> QED BY <2>2, <2>3
<1> QED BY <1>1, <1>2

-----------------------------------------------------------------------------
(* The inductive invariant: none of its parts is inductive alone.  A fold
   keeps the snapshot free of parked structs and growing because it builds on the snapshot
   in the database, and a load is complete because the snapshot only grows. *)
StoreInv == TypeOK /\ SnapshotNeverParks /\ LockDiscipline /\ LoadsNothingLess

(* The merge of any rows (Y.compacted_state over pluck'ed updates) is content. *)
LEMMA MergeType ==
    ASSUME TypeOK, NEW ids \in SUBSET RowId PROVE Merge(ids) \in Content
  BY DEF TypeOK, Merge, Content

(* So is what a compaction folds: its snapshot and the rows it plucked. *)
LEMMA FoldedType ==
    ASSUME TypeOK, NEW p \in Proc PROVE Folded(p) \in Content
<1>1. snap[p] \in Content /\ seen[p] \in SUBSET RowId
  BY DEF TypeOK
<1>2. Merge(seen[p]) \in Content
  BY <1>1, MergeType
<1> QED BY <1>1, <1>2 DEF Folded, Content

(* What a committed compaction does, whichever of its two paths it takes:
   the snapshot grows and parks nothing, a deleted row is captured, and the
   database holds what it held. *)
LEMMA FoldEffect ==
    ASSUME StoreInv, NEW p \in Proc, Fold(p)
    PROVE  /\ state' \in Content
           /\ state \subseteq state'
           /\ ~HasPending(state')
           /\ tail' \subseteq tail
           /\ \A i \in tail \ tail' : payload[i] \subseteq state'
           /\ \A i \in tail' : payload'[i] = payload[i]
           /\ payload' \in [RowId -> Content]
           /\ quarantine' \subseteq tail'
           /\ Stored' = Stored
<1> DEFINE base == Integrated(Folded(p))
<1>0. /\ snap[p] = state /\ seen[p] \subseteq tail /\ tail \subseteq RowId
      /\ state \in Content /\ payload \in [RowId -> Content]
      /\ quarantine \subseteq tail
  BY DEF StoreInv, TypeOK, LockDiscipline, Fold
<1>1. Folded(p) \in Content /\ state \subseteq Folded(p) /\ base \in Content
  BY <1>0, FoldedType DEF Folded, StoreInv, Integrated, Content
<1>2. ~HasPending(base) /\ state \subseteq base
  <2>1. Integrated(state) = state
    BY NothingPending DEF StoreInv, SnapshotNeverParks
  <2> QED BY <2>1, <1>1, IntegratedNeverParks, IntegratedGrows
<1>3. base \subseteq state \cup Merge(tail)
  BY <1>0 DEF Folded, Merge, Integrated
<1>4. state' = base
  BY DEF Fold, CompactRows, CompactAroundGap, CompactedStateUpdate
<1>5. PICK gone \in SUBSET seen[p] :
          /\ DeleteRows(gone)
          /\ quarantine' \subseteq tail \ gone
          /\ \A i \in gone : payload[i] \subseteq base
  <2>1. CASE CompactRows(p)
    <3>1. \A i \in seen[p] : payload[i] \subseteq base
      BY <2>1, NothingPending DEF CompactRows, Folded, Merge
    <3>2. DeleteRows(seen[p]) /\ quarantine' \subseteq tail \ seen[p]
      BY <2>1, <1>0 DEF CompactRows
    <3> QED BY <3>1, <3>2
  <2>2. CASE CompactAroundGap(p)
    <3> DEFINE kept == {i \in seen[p] : StaysInTail(base, i)}
    <3>1. DeleteRows(seen[p] \ kept) /\ quarantine' = (quarantine \ seen[p]) \cup kept
      BY <2>2 DEF CompactAroundGap, CompactedStateUpdate
    <3>2. \A i \in seen[p] \ kept : payload[i] \subseteq base
      BY <1>1, ReadyRowIsCaptured DEF StaysInTail, Folded, Merge
    <3>3. quarantine' \subseteq tail \ (seen[p] \ kept)
      BY <3>1, <1>0
    <3> HIDE DEF kept
    <3> QED BY <3>1, <3>2, <3>3
  <2> QED BY <2>1, <2>2 DEF Fold
<1>6. tail' = tail \ gone /\ payload' = [i \in RowId |-> IF i \in gone THEN {} ELSE payload[i]]
  BY <1>5 DEF DeleteRows
<1>7. \A i \in tail' : payload'[i] = payload[i]
  BY <1>6, <1>0
<1>8. payload' \in [RowId -> Content]
  BY <1>6, <1>0 DEF Content
<1>9. Stored' = Stored
  <2>1. Stored = state \cup UNION {payload[i] : i \in tail}
    BY DEF Stored, Merge
  <2>2. Stored' = base \cup UNION {payload'[i] : i \in tail'}
    BY <1>4 DEF Stored, Merge
  <2>3. UNION {payload'[i] : i \in tail'} = UNION {payload[i] : i \in tail'}
    BY <1>7
  <2>4. base \subseteq Stored
    BY <1>3, <2>1 DEF Merge
  <2>5. UNION {payload[i] : i \in tail} \subseteq base \cup UNION {payload[i] : i \in tail'}
    BY <1>5, <1>6
  <2>6. UNION {payload[i] : i \in tail'} \subseteq UNION {payload[i] : i \in tail}
    BY <1>6
  <2> HIDE DEF base
  <2> QED BY <2>1, <2>2, <2>3, <2>4, <2>5, <2>6, <1>2
<1> QED BY <1>1, <1>2, <1>4, <1>5, <1>6, <1>7, <1>8, <1>9

-----------------------------------------------------------------------------
(* The invariant holds of an empty table with no call in progress. *)
LEMMA StoreInvInit == Init => StoreInv
<1> SUFFICES ASSUME Init PROVE StoreInv
  OBVIOUS
<1>1. TypeOK
  BY CrdtAssumption, StoreAssumption DEF Init, TypeOK, Content
<1>2. SnapshotNeverParks /\ LockDiscipline /\ LoadsNothingLess
  BY DEF Init, SnapshotNeverParks, HasPending, Pending, LockDiscipline, LoadsNothingLess
<1> QED BY <1>1, <1>2 DEF StoreInv

(* A step that leaves the tables alone leaves what is stored. *)
LEMMA StoredUnchanged == UNCHANGED tables => Stored' = Stored
  BY DEF tables, Stored, Merge

(* A recorded update only adds its own content. *)
LEMMA AppendEffect ==
    ASSUME StoreInv, NEW p \in Proc, Append(p)
    PROVE  /\ \E bytes \in Content : Stored' = Stored \cup bytes
           /\ tail \subseteq tail'
<1>1. PICK i \in RowId \ used, bytes \in Payload :
          /\ tail' = tail \cup {i}
          /\ payload' = [payload EXCEPT ![i] = bytes]
  BY DEF Append
<1>2. /\ payload \in [RowId -> Content] /\ tail \subseteq RowId /\ state' = state
      /\ bytes \in Content /\ i \notin tail
  BY StoreAssumption DEF StoreInv, TypeOK, Append
<1>3. payload'[i] = bytes /\ \A j \in tail : payload'[j] = payload[j]
  BY <1>1, <1>2
<1>4. UNION {payload'[j] : j \in tail'} = bytes \cup UNION {payload[j] : j \in tail}
  BY <1>1, <1>3
<1>5. Stored' = Stored \cup bytes
  BY <1>2, <1>4 DEF Stored, Merge
<1> QED BY <1>1, <1>2, <1>5

(* Every step keeps the invariant. *)
LEMMA StoreInvStep == StoreInv /\ [Next]_vars => StoreInv'
<1> SUFFICES ASSUME StoreInv, [Next]_vars PROVE StoreInv'
  OBVIOUS
<1> USE CrdtAssumption, StoreAssumption
<1>0. TypeOK /\ SnapshotNeverParks /\ LockDiscipline /\ LoadsNothingLess
  BY DEF StoreInv
<1>1. ASSUME NEW p \in Proc, Append(p) PROVE StoreInv'
  <2>1. PICK i \in RowId \ used, bytes \in Payload :
            /\ used' = used \cup {i}
            /\ tail' = tail \cup {i}
            /\ payload' = [payload EXCEPT ![i] = bytes]
    BY <1>1 DEF Append
  <2>2. TypeOK'
    BY <1>0, <1>1, <2>1 DEF TypeOK, Append, reads
  <2>3. LockDiscipline'
    BY <1>0, <1>1, <2>1 DEF LockDiscipline, TypeOK, Append
  <2>4. Stored \subseteq Stored'
    BY <1>1, AppendEffect
  <2>5. LoadsNothingLess'
    BY <1>0, <1>1, <2>4 DEF LoadsNothingLess, TypeOK, Append, reads
  <2> QED BY <1>0, <1>1, <2>2, <2>3, <2>5 DEF StoreInv, SnapshotNeverParks, Append
<1>2. ASSUME NEW p \in Proc, Count(p) PROVE StoreInv'
  BY <1>0, <1>2, StoredUnchanged
  DEF StoreInv, TypeOK, SnapshotNeverParks, LockDiscipline, LoadsNothingLess,
      Count, tables, reads
<1>3. ASSUME NEW p \in Proc, Compact(p) PROVE StoreInv'
  BY <1>0, <1>3, StoredUnchanged
  DEF StoreInv, TypeOK, SnapshotNeverParks, LockDiscipline, LoadsNothingLess,
      Compact, tables, reads
<1>4. ASSUME NEW p \in Proc, Lock(p) PROVE StoreInv'
  BY <1>0, <1>4, StoredUnchanged
  DEF StoreInv, TypeOK, SnapshotNeverParks, LockDiscipline, LoadsNothingLess,
      Lock, tables, reads
<1>5. ASSUME NEW p \in Proc, Pluck(p) PROVE StoreInv'
  <2>1. TypeOK'
    <3>1. /\ pc' \in [Proc -> {"idle", "count", "lock", "pluck", "fold", "snapshot", "loaded"}]
          /\ lock' \in Proc \cup {Nobody}
      BY <1>0, <1>5 DEF TypeOK, Pluck, Unwind
    <3>2. snap' \in [Proc -> Content] /\ seen' \in [Proc -> SUBSET RowId]
      <4>1. CASE tail = {}
        BY <1>0, <1>5, <4>1 DEF TypeOK, Pluck, Unwind, Content
      <4>2. CASE tail # {}
        <5>1. snap' = snap /\ seen' = [seen EXCEPT ![p] = tail] /\ tail \subseteq RowId
          BY <1>0, <1>5, <4>2 DEF TypeOK, Pluck
        <5> QED BY <1>0, <5>1 DEF TypeOK
      <4> QED BY <4>1, <4>2
    <3>3. UNCHANGED <<tables, reads, died>>
      BY <1>5 DEF Pluck
    <3> QED BY <1>0, <3>1, <3>2, <3>3 DEF TypeOK, tables, reads
  <2>2. SnapshotNeverParks' /\ LockDiscipline' /\ LoadsNothingLess'
    BY <1>0, <1>5, StoredUnchanged
    DEF TypeOK, SnapshotNeverParks, LockDiscipline, LoadsNothingLess,
        Pluck, Unwind, tables, reads
  <2> QED BY <2>1, <2>2 DEF StoreInv
<1>6. ASSUME NEW p \in Proc, Fold(p) PROVE StoreInv'
  <2>1. /\ state' \in Content /\ state \subseteq state' /\ ~HasPending(state')
        /\ tail' \subseteq tail /\ payload' \in [RowId -> Content]
        /\ quarantine' \subseteq tail' /\ Stored' = Stored
    BY <1>6, FoldEffect
  <2>2. lock = p /\ lock' = Nobody
    BY <1>0, <1>6 DEF Fold, Unwind, LockDiscipline
  <2>3. TypeOK'
    BY <1>0, <1>6, <2>1 DEF TypeOK, Fold, Unwind, reads, Content
  <2>4. LockDiscipline'
    <3>1. \A q \in Proc : pc'[q] \notin {"pluck", "fold"}
      BY <1>0, <1>6, <2>2 DEF LockDiscipline, TypeOK, Fold, Unwind
    <3> QED BY <3>1 DEF LockDiscipline
  <2>5. LoadsNothingLess'
    BY <1>0, <1>6, <2>1 DEF LoadsNothingLess, TypeOK, Fold, Unwind, reads
  <2> QED BY <2>1, <2>3, <2>4, <2>5 DEF StoreInv, SnapshotNeverParks
<1>7. ASSUME NEW p \in Proc, LoadTail(p) PROVE StoreInv'
  <2>1. Stored \in Content /\ Merge(tail) \in Content
    BY <1>0, MergeType DEF TypeOK, Stored, Content
  <2>2. TypeOK'
    BY <1>0, <1>7, <2>1 DEF TypeOK, LoadTail, tables
  <2>3. LoadsNothingLess'
    BY <1>0, <1>7, StoredUnchanged DEF LoadsNothingLess, TypeOK, LoadTail, tables, Stored
  <2>4. SnapshotNeverParks' /\ LockDiscipline'
    BY <1>0, <1>7 DEF SnapshotNeverParks, LockDiscipline, TypeOK, LoadTail, tables
  <2> QED BY <2>2, <2>3, <2>4 DEF StoreInv
<1>8. ASSUME NEW p \in Proc, LoadSnapshot(p) PROVE StoreInv'
  <2>1. TypeOK'
    BY <1>0, <1>8 DEF TypeOK, LoadSnapshot, tables, Content
  <2>2. state \subseteq Stored
    BY DEF Stored
  <2>3. LoadsNothingLess'
    BY <1>0, <1>8, <2>2, StoredUnchanged DEF LoadsNothingLess, TypeOK, LoadSnapshot, tables
  <2>4. SnapshotNeverParks' /\ LockDiscipline'
    BY <1>0, <1>8 DEF SnapshotNeverParks, LockDiscipline, TypeOK, LoadSnapshot, tables
  <2> QED BY <2>1, <2>3, <2>4 DEF StoreInv
<1>9. ASSUME NEW p \in Proc, Discard(p) \/ Interrupt(p) PROVE StoreInv'
  <2>1. TypeOK'
    <3>1. /\ pc' \in [Proc -> {"idle", "count", "lock", "pluck", "fold", "snapshot", "loaded"}]
          /\ lock' \in Proc \cup {Nobody}
      BY <1>0, <1>9 DEF TypeOK, Discard, Interrupt, Unwind
    <3>2. snap' \in [Proc -> Content] /\ seen' \in [Proc -> SUBSET RowId]
      BY <1>0, <1>9 DEF TypeOK, Discard, Interrupt, Unwind, Content
    <3>3. got' \in [Proc -> Content] /\ floor' \in [Proc -> Content]
      BY <1>0, <1>9 DEF TypeOK, Discard, Interrupt, Content
    <3>4. UNCHANGED tables /\ died' \in BOOLEAN
      BY <1>0, <1>9 DEF TypeOK, Discard, Interrupt
    <3> QED BY <1>0, <3>1, <3>2, <3>3, <3>4 DEF TypeOK, tables
  <2>2. SnapshotNeverParks' /\ LockDiscipline' /\ LoadsNothingLess'
    BY <1>0, <1>9, StoredUnchanged
    DEF TypeOK, SnapshotNeverParks, LockDiscipline, LoadsNothingLess,
        Discard, Interrupt, Unwind, tables
  <2> QED BY <2>1, <2>2 DEF StoreInv
<1>10. CASE UNCHANGED vars
  <2>1. Stored' = Stored
    BY <1>10, StoredUnchanged DEF vars
  <2> QED
    BY <1>0, <1>10, <2>1
    DEF StoreInv, TypeOK, SnapshotNeverParks, LockDiscipline, LoadsNothingLess,
        vars, tables, locals, reads
<1> QED
  BY <1>1, <1>2, <1>3, <1>4, <1>5, <1>6, <1>7, <1>8, <1>9, <1>10 DEF Next, Call, Proceed

(* Through every interleaving of appends, compactions, loads and crashes the
   snapshot column parks nothing, a compaction works on what it locked, and a
   load misses nothing. *)
THEOREM StoreInvariant == Spec => []StoreInv
<1>1. Init => StoreInv
  BY StoreInvInit
<1>2. StoreInv /\ [Next]_vars => StoreInv'
  BY StoreInvStep
<1> QED BY <1>1, <1>2, PTL DEF Spec

(* The variables of the store have their types. *)
THEOREM TypeCorrect == Spec => []TypeOK
  BY StoreInvariant, PTL DEF StoreInv

(* "Compaction cannot freeze a gap into a snapshot": whatever gapped updates
   clients record, and whether or not their structs integrate past what is
   missing, the state column never holds a struct that is parked there
   (compact_rows, compact_around_gap, integrated_update). *)
THEOREM NothingParksInTheSnapshot == Spec => []SnapshotNeverParks
  BY StoreInvariant, PTL DEF StoreInv

(* Of no update that clients record is the snapshot told that it advances
   nothing while it lacks a part of it, a Skip that takes effect without
   showing included (update_advances_doc's guard against hidden gaps). *)
THEOREM NoHiddenGapIsMissed == Spec => []HiddenGapsAdvance
<1>1. StoreInv => HiddenGapsAdvance
  <2> SUFFICES ASSUME StoreInv, NEW U \in Payload, ~SkipsLate(U),
                      UpdateIsReady(state, U), ~UpdateAdvances(state, U)
               PROVE  U \subseteq state
    BY DEF HiddenGapsAdvance, KnownNoOp
  <2>1. state \in Content /\ U \in Content /\ ~HasPending(state)
    BY StoreAssumption DEF StoreInv, TypeOK, SnapshotNeverParks
  <2> QED BY <2>1, NoOpIsKnown
<1> QED BY <1>1, StoreInvariant, PTL

-----------------------------------------------------------------------------
(* Only a fold writes the snapshot or removes a row. *)
LEMMA OnlyFoldRewrites ==
    ASSUME StoreInv, [Next]_vars
    PROVE  \/ \E p \in Proc : Fold(p)
           \/ state' = state /\ tail \subseteq tail'
  BY DEF Next, Call, Proceed, Append, Count, Compact, Lock, Pluck, LoadTail,
         LoadSnapshot, Discard, Interrupt, vars, tables

(* What a compaction overwrites it has kept: the snapshot only grows, even
   when processes compact the same document at the same time. *)
THEOREM SnapshotOnlyGrows == Spec => SnapshotGrows
<1>1. StoreInv /\ [Next]_vars => [state \subseteq state']_vars
  BY OnlyFoldRewrites, FoldEffect
<1> QED BY <1>1, StoreInvariant, PTL DEF Spec, SnapshotGrows

(* "An acked update never leaves the table before its content is durably in
   state" (document.rb compact!). *)
THEOREM DeletedRowsAreCaptured == Spec => DeletedIsCaptured
<1>1. StoreInv /\ [Next]_vars => [\A i \in tail \ tail' : payload[i] \subseteq state']_vars
  BY OnlyFoldRewrites, FoldEffect
<1> QED BY <1>1, StoreInvariant, PTL DEF Spec, DeletedIsCaptured

-----------------------------------------------------------------------------
(* The store implements its promise: every step of it is a step of DurableDoc
   or changes nothing there. *)
Result == [p \in Proc |-> IF pc[p] = "loaded" THEN got[p] ELSE {}]

(* A new document starts as the abstract one does: nothing recorded. *)
LEMMA RefinesInit == Init => Durable!AbstractInit
  BY DEF Init, Durable!AbstractInit, Stored, Merge

(* A step that neither reads nor records for a load is invisible. *)
LEMMA InvisibleStep ==
    ASSUME Stored' = Stored, floor' = floor, Result' = Result
    PROVE  UNCHANGED Durable!abstractVars
  BY DEF Durable!abstractVars, Result

(* Every step of append, load_state and compact! is a step of the durable
   document or invisible to it: compaction never loses what was recorded. *)
LEMMA RefinesStep ==
    StoreInv /\ [Next]_vars => [Durable!AbstractNext]_Durable!abstractVars
<1> SUFFICES ASSUME StoreInv, [Next]_vars
             PROVE  Durable!AbstractNext \/ UNCHANGED Durable!abstractVars
  OBVIOUS
<1>0. TypeOK /\ LoadsNothingLess /\ pc \in [Proc -> {"idle", "count", "lock", "pluck", "fold", "snapshot", "loaded"}]
  BY DEF StoreInv, TypeOK
<1>1. ASSUME NEW p \in Proc, Append(p) PROVE Durable!AbstractNext
  <2>1. PICK bytes \in Content : Stored' = Stored \cup bytes
    BY <1>1, AppendEffect
  <2>2. floor' = floor /\ Result' = Result
    BY <1>0, <1>1 DEF Append, reads, Result
  <2> QED BY <2>1, <2>2 DEF Durable!AbstractNext, Durable!Record, Result, Content
<1>2. ASSUME NEW p \in Proc, Count(p) \/ Compact(p) \/ Lock(p) \/ Pluck(p)
      PROVE  UNCHANGED Durable!abstractVars
  <2>1. floor' = floor /\ Result' = Result
    BY <1>0, <1>2 DEF Count, Compact, Lock, Pluck, Unwind, reads, Result
  <2>2. UNCHANGED tables
    BY <1>2 DEF Count, Compact, Lock, Pluck
  <2> QED BY <2>1, <2>2, StoredUnchanged, InvisibleStep
<1>3. ASSUME NEW p \in Proc, Fold(p) PROVE UNCHANGED Durable!abstractVars
  <2>1. floor' = floor /\ Result' = Result
    BY <1>0, <1>3 DEF Fold, Unwind, reads, Result
  <2> QED BY <1>3, <2>1, FoldEffect, InvisibleStep
<1>4. ASSUME NEW p \in Proc, LoadTail(p) PROVE Durable!AbstractNext
  <2>1. Stored' = Stored
    BY <1>4, StoredUnchanged DEF LoadTail
  <2>2. Result' = Result /\ floor' = [floor EXCEPT ![p] = Stored]
    BY <1>0, <1>4 DEF LoadTail, Result
  <2> QED BY <2>1, <2>2 DEF Durable!AbstractNext, Durable!BeginLoad, Result
<1>5. ASSUME NEW p \in Proc, LoadSnapshot(p) PROVE Durable!AbstractNext
  <2> DEFINE s == state \cup got[p]
  <2>1. Stored' = Stored /\ floor' = floor
    BY <1>5, StoredUnchanged DEF LoadSnapshot
  <2>2. s \in SUBSET Stored /\ floor[p] \subseteq s
    BY <1>0, <1>5 DEF LoadsNothingLess, LoadSnapshot, Stored
  <2>3. Result' = [Result EXCEPT ![p] = s]
    BY <1>0, <1>5 DEF LoadSnapshot, Result, TypeOK
  <2> QED BY <2>1, <2>2, <2>3 DEF Durable!AbstractNext, Durable!EndLoad, Result
<1>6. ASSUME NEW p \in Proc, Discard(p) \/ Interrupt(p) PROVE Durable!AbstractNext
  <2>1. Stored' = Stored /\ floor' = [floor EXCEPT ![p] = {}]
    BY <1>6, StoredUnchanged DEF Discard, Interrupt
  <2>2. Result' = [Result EXCEPT ![p] = {}]
    BY <1>0, <1>6 DEF Discard, Interrupt, Unwind, Result, TypeOK
  <2> QED BY <2>1, <2>2 DEF Durable!AbstractNext, Durable!Forget, Result
<1>7. CASE UNCHANGED vars
  BY <1>7, StoredUnchanged, InvisibleStep DEF vars, locals, reads, Result
<1> QED
  BY <1>1, <1>2, <1>3, <1>4, <1>5, <1>6, <1>7 DEF Next, Call, Proceed

(* A recorded update is never lost and a load misses nothing recorded before
   it began, for any number of racing and crashing processes. *)
THEOREM StoreImplementsDurableDoc == Spec => ImplementsDurableDoc
<1>1. Init => Durable!AbstractInit
  BY RefinesInit
<1>2. StoreInv /\ [Next]_vars => [Durable!AbstractNext]_Durable!abstractVars
  BY RefinesStep
<1> QED
  BY <1>1, <1>2, StoreInvariant, PTL DEF Spec, ImplementsDurableDoc, Durable!AbstractSpec

-----------------------------------------------------------------------------
(* Why the tail stays short: while there are enough clean rows for a
   compaction, somebody has yet to count them or is about to fold them. *)
Full(rows) == Cardinality(rows) >= CompactEvery

SomebodyCompacts ==
    \E p \in Proc : \/ pc[p] \in {"count", "lock", "pluck"}
                    \/ pc[p] = "fold" /\ ~Full(CleanRows \ seen[p])

TailInv == ~died /\ Full(CleanRows) => SomebodyCompacts

(* No rows are never enough, and rows that are enough stay so with more. *)
LEMMA FullFacts ==
    /\ ~Full({})
    /\ \A T \in SUBSET RowId : \A S \in SUBSET T : Full(S) => Full(T)
    /\ \A S \in SUBSET RowId : Full(S) \/ Cardinality(S) < CompactEvery
<1>1. CompactEvery \in Nat /\ CompactEvery # 0 /\ IsFiniteSet(RowId)
  BY StoreAssumption
<1>2. ~Full({})
  BY <1>1, FS_EmptySet DEF Full
<1>3. \A T \in SUBSET RowId : IsFiniteSet(T) /\ Cardinality(T) \in Nat
  BY <1>1, FS_Subset, FS_CardinalityType
<1>4. ASSUME NEW T \in SUBSET RowId, NEW S \in SUBSET T, Full(S) PROVE Full(T)
  <2>1. Cardinality(S) <= Cardinality(T)
    BY <1>3, FS_Subset
  <2> QED BY <1>1, <1>3, <1>4, <2>1 DEF Full
<1>5. \A S \in SUBSET RowId : Full(S) \/ Cardinality(S) < CompactEvery
  BY <1>1, <1>3 DEF Full
<1> QED BY <1>2, <1>4, <1>5

(* A fold leaves no clean row of those it plucked: what it keeps, it
   quarantines. *)
LEMMA FoldLeavesNoCleanRow ==
    ASSUME NEW p \in Proc, Fold(p) PROVE CleanRows' \subseteq CleanRows \ seen[p]
<1>1. CASE CompactRows(p)
  BY <1>1 DEF CompactRows, DeleteRows, CleanRows
<1>2. CASE CompactAroundGap(p)
  <2> DEFINE kept == {i \in seen[p] : StaysInTail(CompactedStateUpdate(Folded(p)), i)}
  <2>1. /\ tail' = tail \ (seen[p] \ kept)
        /\ quarantine' = (quarantine \ seen[p]) \cup kept
    BY <1>2 DEF CompactAroundGap, DeleteRows
  <2> HIDE DEF kept
  <2> QED BY <2>1 DEF CleanRows
<1> QED BY <1>1, <1>2 DEF Fold

(* Whoever counts last sees every clean row. *)
LEMMA TailInvStep == StoreInv /\ TailInv /\ [Next]_vars => TailInv'
<1> SUFFICES ASSUME StoreInv, TailInv, [Next]_vars, ~died', Full(CleanRows')
             PROVE  SomebodyCompacts'
  BY DEF TailInv, Full
<1>0. /\ TypeOK /\ LockDiscipline /\ pc \in [Proc -> {"idle", "count", "lock", "pluck", "fold", "snapshot", "loaded"}]
      /\ CleanRows \in SUBSET RowId /\ seen \in [Proc -> SUBSET RowId]
  BY DEF StoreInv, TypeOK, CleanRows
<1>1. ASSUME NEW p \in Proc, Append(p) \/ Compact(p) PROVE SomebodyCompacts'
  <2>1. pc'[p] \in {"count", "lock"}
    BY <1>0, <1>1 DEF Append, Compact
  <2> QED BY <2>1 DEF SomebodyCompacts
<1>2. ASSUME NEW p \in Proc, Count(p) \/ Lock(p) \/ Pluck(p) PROVE SomebodyCompacts'
  <2>1. CleanRows' = CleanRows
    BY <1>2 DEF Count, Lock, Pluck, tables, CleanRows
  <2>2. pc'[p] \in {"lock", "pluck"} \/ (pc'[p] = "fold" /\ CleanRows \ seen'[p] = {})
    <3>1. CASE Count(p)
      BY <1>0, <2>1, <3>1 DEF Count, Full
    <3>2. CASE Lock(p)
      BY <1>0, <3>2 DEF Lock
    <3>3. CASE Pluck(p)
      <4>1. tail # {}
        BY <2>1, FullFacts DEF CleanRows
      <4> QED BY <1>0, <3>3, <4>1 DEF Pluck, CleanRows
    <3> QED BY <1>2, <3>1, <3>2, <3>3
  <2>3. CASE pc'[p] \in {"lock", "pluck"}
    BY <2>3 DEF SomebodyCompacts
  <2>4. CASE pc'[p] = "fold" /\ CleanRows \ seen'[p] = {}
    <3>1. ~Full(CleanRows \ seen[p])'
      BY <2>1, <2>4, FullFacts DEF Full
    <3> QED BY <2>4, <3>1 DEF SomebodyCompacts
  <2> QED BY <2>2, <2>3, <2>4
<1>3. ASSUME NEW p \in Proc, Fold(p) PROVE SomebodyCompacts'
  <2>1. CleanRows' \subseteq CleanRows \ seen[p] /\ died' = died
    BY <1>3, FoldLeavesNoCleanRow DEF Fold
  <2>2. Full(CleanRows) /\ Full(CleanRows \ seen[p])
    BY <1>0, <2>1, FullFacts
  <2>3. PICK q \in Proc : \/ pc[q] \in {"count", "lock", "pluck"}
                          \/ pc[q] = "fold" /\ ~Full(CleanRows \ seen[q])
    BY <2>1, <2>2 DEF TailInv, SomebodyCompacts
  <2>4. pc[p] = "fold" /\ lock = p
    BY <1>0, <1>3 DEF Fold, LockDiscipline
  <2>5. q # p /\ pc[q] \in {"count", "lock", "pluck"}
    BY <1>0, <2>2, <2>3, <2>4 DEF LockDiscipline
  <2>6. pc'[q] = pc[q]
    BY <1>0, <1>3, <2>5 DEF Fold, Unwind
  <2> QED BY <2>5, <2>6 DEF SomebodyCompacts
<1>4. ASSUME NEW p \in Proc, LoadTail(p) \/ LoadSnapshot(p) \/ Discard(p) PROVE SomebodyCompacts'
  <2>1. /\ pc[p] \in {"idle", "snapshot", "loaded"}
        /\ \A q \in Proc : q # p => pc'[q] = pc[q]
    BY <1>0, <1>4 DEF LoadTail, LoadSnapshot, Discard, Unwind
  <2>2. CleanRows' = CleanRows /\ died' = died /\ \A q \in Proc : q # p => seen'[q] = seen[q]
    BY <1>0, <1>4 DEF LoadTail, LoadSnapshot, Discard, Unwind, tables, CleanRows
  <2>3. PICK q \in Proc : \/ pc[q] \in {"count", "lock", "pluck"}
                          \/ pc[q] = "fold" /\ ~Full(CleanRows \ seen[q])
    BY <2>2 DEF TailInv, SomebodyCompacts
  <2>4. pc'[q] = pc[q] /\ seen'[q] = seen[q]
    BY <2>1, <2>2, <2>3
  <2> QED BY <2>2, <2>3, <2>4 DEF SomebodyCompacts, Full
<1>5. ASSUME NEW p \in Proc, Interrupt(p) PROVE SomebodyCompacts'
  BY <1>5 DEF Interrupt
<1>6. CASE UNCHANGED vars
  BY <1>6 DEF vars, tables, locals, CleanRows, TailInv, SomebodyCompacts, Full
<1> QED BY <1>1, <1>2, <1>3, <1>4, <1>5, <1>6 DEF Next, Call, Proceed

(* Counting after every append, and at or over the threshold rather than at
   it (document.rb append), bounds the tail for any number of processes that
   append at once: of those that jumped past it together, one compacts. *)
THEOREM TailAlwaysBounded == Spec => []TailBounded
<1>1. Init => StoreInv /\ TailInv
  <2>1. Init => CleanRows = {}
    BY DEF Init, CleanRows
  <2> QED BY <2>1, StoreInvInit, FullFacts DEF TailInv
<1>2. StoreInv /\ TailInv /\ [Next]_vars => (StoreInv /\ TailInv)'
  BY StoreInvStep, TailInvStep
<1>3. StoreInv /\ TailInv => TailBounded
  <2> SUFFICES ASSUME StoreInv, TailInv, ~died,
                      \A p \in Proc : pc[p] \in {"idle", "snapshot", "loaded"}
               PROVE  Cardinality(CleanRows) < CompactEvery
    BY DEF TailBounded
  <2>1. ~Full(CleanRows)
    BY DEF TailInv, SomebodyCompacts
  <2>2. CleanRows \in SUBSET RowId
    BY DEF StoreInv, TypeOK, CleanRows
  <2> QED BY <2>1, <2>2, FullFacts
<1> QED BY <1>1, <1>2, <1>3, PTL DEF Spec
=============================================================================
