--------------------------- MODULE DocumentStore ---------------------------
(***************************************************************************)
(* Y::Document (app/models/y/document.rb) for one document row: a snapshot *)
(* column `state` and a table of update rows, shared by any number of web  *)
(* processes.  Every statement that reaches the database is a step of its  *)
(* own, so appends, compactions and loads of different processes           *)
(* interleave; with_lock is a transaction, so its writes appear together   *)
(* at its commit.  A process can die, or an exception unwind it, between   *)
(* any two steps; its open transaction is then rolled back.                *)
(***************************************************************************)
EXTENDS Crdt, Naturals

CONSTANTS Proc,          \* web processes and background jobs
          RowId,         \* ids of update rows, handed out in order (bounds the appends)
          Payload,       \* the updates clients record
          CompactEvery,  \* class_attribute compact_every
          Interrupted,   \* the processes that may die or raise midway
          Nobody         \* the row lock is free

ASSUME StoreAssumption ==
    /\ Payload \subseteq Content
    /\ CompactEvery \in Nat \ {0}
    /\ Interrupted \subseteq Proc
    /\ Nobody \notin Proc
    /\ RowId \subseteq Nat
    /\ IsFiniteSet(RowId)

VARIABLES
    state,       \* the snapshot column; {} also stands for NULL
    tail,        \* ids of the update rows in the table
    used,        \* ids ever handed out
    payload,     \* the payload column, by row id
    quarantine,  \* the ids whose pending column is true
    lock,        \* the process that holds the row lock of the document
    pc,          \* per process: the statement it executes next
    snap,        \* per process: the state attribute read under the lock
    seen,        \* per process: the rows its compaction plucked
    got,         \* per process: the tail its load read, then the load's result
    floor,       \* history: what was stored when the process's load began
    died         \* history: a process has died, or raised, midway

tables == <<state, tail, used, payload, quarantine>>
locals == <<lock, pc, snap, seen>>
reads  == <<got, floor>>
vars   == <<tables, locals, reads, died>>

(* What a set of rows carries, and what the database holds altogether. *)
Merge(ids) == UNION {payload[i] : i \in ids}
Stored == state \cup Merge(tail)

TypeOK ==
    /\ state \in Content
    /\ used \subseteq RowId
    /\ tail \subseteq used
    /\ payload \in [RowId -> Content]
    /\ quarantine \subseteq tail
    /\ lock \in Proc \cup {Nobody}
    /\ pc \in [Proc -> {"idle", "count", "lock", "pluck", "fold",
                     "snapshot", "loaded"}]
    /\ snap \in [Proc -> Content]
    /\ seen \in [Proc -> SUBSET RowId]
    /\ got \in [Proc -> Content]
    /\ floor \in [Proc -> Content]
    /\ died \in BOOLEAN

Init ==
    /\ state = {}
    /\ tail = {}
    /\ used = {}
    /\ payload = [i \in RowId |-> {}]
    /\ quarantine = {}
    /\ lock = Nobody
    /\ pc = [p \in Proc |-> "idle"]
    /\ snap = [p \in Proc |-> {}]
    /\ seen = [p \in Proc |-> {}]
    /\ got = [p \in Proc |-> {}]
    /\ floor = [p \in Proc |-> {}]
    /\ died = FALSE

-----------------------------------------------------------------------------
(* append, first statement: updates.create!(payload: bytes), committed. *)
Append(p) ==
    /\ pc[p] = "idle"
    /\ \E i \in RowId \ used, bytes \in Payload :
           /\ \A j \in RowId \ used : i <= j
           /\ used' = used \cup {i}
           /\ tail' = tail \cup {i}
           /\ payload' = [payload EXCEPT ![i] = bytes]
    /\ pc' = [pc EXCEPT ![p] = "count"]
    /\ UNCHANGED <<state, quarantine, lock, snap, seen, reads, died>>

(* The rows the compaction trigger counts: pending rows never satisfy it. *)
CleanRows == tail \ quarantine

CountExact(p) ==
    /\ pc[p] = "count"
    /\ pc' = [pc EXCEPT ![p] = IF Cardinality(CleanRows) = CompactEvery
                               THEN "lock" ELSE "idle"]
    /\ UNCHANGED <<tables, lock, snap, seen, reads, died>>

(* append, second statement: count the clean rows, compact at or over. *)
Count(p) ==
    /\ pc[p] = "count"
    /\ pc' = [pc EXCEPT ![p] = IF Cardinality(CleanRows) >= CompactEvery
                               THEN "lock" ELSE "idle"]
    /\ UNCHANGED <<tables, lock, snap, seen, reads, died>>

(* compact! called on its own, by a job or the application. *)
Compact(p) ==
    /\ pc[p] = "idle"
    /\ pc' = [pc EXCEPT ![p] = "lock"]
    /\ UNCHANGED <<tables, lock, snap, seen, reads, died>>

(* The call is over: its transaction has ended and its locals are gone. *)
Unwind(p) ==
    /\ pc' = [pc EXCEPT ![p] = "idle"]
    /\ lock' = IF lock = p THEN Nobody ELSE lock
    /\ snap' = [snap EXCEPT ![p] = {}]
    /\ seen' = [seen EXCEPT ![p] = {}]

LockNothing(p) ==
    /\ pc[p] = "lock"
    /\ lock' = p
    /\ snap' = [snap EXCEPT ![p] = state]
    /\ pc' = [pc EXCEPT ![p] = "pluck"]
    /\ UNCHANGED <<tables, seen, reads, died>>

(* with_lock: take the row lock and reload the attributes. *)
Lock(p) ==
    /\ pc[p] = "lock"
    /\ lock = Nobody
    /\ lock' = p
    /\ snap' = [snap EXCEPT ![p] = state]
    /\ pc' = [pc EXCEPT ![p] = "pluck"]
    /\ UNCHANGED <<tables, seen, reads, died>>

(* Inside the lock: read the rows; with none the block is done. *)
Pluck(p) ==
    /\ pc[p] = "pluck"
    /\ IF tail = {}
       THEN Unwind(p)
       ELSE /\ seen' = [seen EXCEPT ![p] = tail]
            /\ pc' = [pc EXCEPT ![p] = "fold"]
            /\ UNCHANGED <<lock, snap>>
    /\ UNCHANGED <<tables, reads, died>>

(* The document a compaction builds: the snapshot, then every plucked row. *)
Folded(p) == snap[p] \cup Merge(seen[p])

(* updates.where(id: ids).delete_all *)
DeleteRows(ids) ==
    /\ tail' = tail \ ids
    /\ payload' = [i \in RowId |-> IF i \in ids THEN {} ELSE payload[i]]

CompactAnyRows(p) ==
    /\ state' = CompactedStateUpdate(Folded(p))
    /\ DeleteRows(seen[p])
    /\ quarantine' = quarantine \ seen[p]

(* compact_rows: nothing in the merge is parked, so it replaces all the rows. *)
CompactRows(p) ==
    /\ ~HasPending(Folded(p))
    /\ state' = CompactedStateUpdate(Folded(p))
    /\ DeleteRows(seen[p])
    /\ quarantine' = quarantine \ seen[p]

(* A row stays in the tail unless the folded state has captured it. *)
StaysInTail(base, i) ==
    \/ ~UpdateIsReady(base, payload[i])
    \/ UpdateAdvances(base, payload[i])

(* compact_around_gap: fold what integrates, quarantine what carries the gap,
   delete the rows that are captured. *)
CompactAroundGap(p) ==
    /\ HasPending(Folded(p))
    /\ LET base == CompactedStateUpdate(Folded(p))
           kept == {i \in seen[p] : StaysInTail(base, i)}
       IN  /\ state' = base
           /\ DeleteRows(seen[p] \ kept)
           /\ quarantine' = (quarantine \ seen[p]) \cup kept

(* The rest of the block and its commit, which releases the lock. *)
Fold(p) ==
    /\ pc[p] = "fold"
    /\ CompactRows(p) \/ CompactAroundGap(p)
    /\ Unwind(p)
    /\ UNCHANGED <<used, reads, died>>

(* load_state, first statement: pluck the payloads of the whole tail. *)
LoadTail(p) ==
    /\ pc[p] = "idle"
    /\ got' = [got EXCEPT ![p] = Merge(tail)]
    /\ floor' = [floor EXCEPT ![p] = Stored]
    /\ pc' = [pc EXCEPT ![p] = "snapshot"]
    /\ UNCHANGED <<tables, lock, snap, seen, died>>

(* load_state, second statement: read the snapshot and merge, losslessly. *)
LoadSnapshot(p) ==
    /\ pc[p] = "snapshot"
    /\ got' = [got EXCEPT ![p] = state \cup got[p]]
    /\ pc' = [pc EXCEPT ![p] = "loaded"]
    /\ UNCHANGED <<tables, lock, snap, seen, floor, died>>

(* The caller has used what load_state returned. *)
Discard(p) ==
    /\ pc[p] = "loaded"
    /\ Unwind(p)
    /\ got' = [got EXCEPT ![p] = {}]
    /\ floor' = [floor EXCEPT ![p] = {}]
    /\ UNCHANGED <<tables, died>>

(* The process dies, or an exception unwinds it: rollback, lock released. *)
Interrupt(p) ==
    /\ p \in Interrupted
    /\ pc[p] # "idle"
    /\ Unwind(p)
    /\ got' = [got EXCEPT ![p] = {}]
    /\ floor' = [floor EXCEPT ![p] = {}]
    /\ died' = TRUE
    /\ UNCHANGED tables

(* A process starts a call. *)
Call(p) == Append(p) \/ Compact(p) \/ LoadTail(p)

(* A process goes on with the call it is in. *)
Proceed(p) == Count(p) \/ Pluck(p) \/ Fold(p) \/ LoadSnapshot(p) \/ Discard(p)

Next == \E p \in Proc : Call(p) \/ Lock(p) \/ Proceed(p) \/ Interrupt(p)

Spec == Init /\ [][Next]_vars

-----------------------------------------------------------------------------
(* The store keeps its promise to the channel: a recorded update never leaves
   the database, whatever compactions race with it or die midway, and a load
   whose two reads straddle a compaction still returns every update that was
   recorded before it began (document.rb load_state and compact!). *)
Durable == INSTANCE DurableDoc
               WITH content <- Stored,
                    loaded <- [p \in Proc |-> IF pc[p] = "loaded" THEN got[p] ELSE {}]
ImplementsDurableDoc == Durable!AbstractSpec

(* "An acked update never leaves the table before its content is durably in
   state": the step that deletes a row leaves its content in the snapshot. *)
DeletedIsCaptured == [][\A i \in tail \ tail' : payload[i] \subseteq state']_vars

(* "Compaction cannot freeze a gap into a snapshot": no struct in the column
   waits for one that is not there, though any row may carry such a struct. *)
SnapshotNeverParks == ~HasPending(state)

(* What the guard against hidden gaps is for (update_advances?): an update
   that is ready and does not advance the snapshot is known there in full.
   "Any insertion past a non-zero cap reveals such a gap", so this is said of
   updates in which no author's clocks both begin late and have a Skip. *)
SkipsLate(U) ==
    \E u \in U \ Deletes :
        /\ \E w \in Earlier(u) : w \notin U /\ Earlier(w) \cap U # {}
        /\ \A v \in UpdateStateVector(U) : Author[v] # Author[u]

KnownNoOp(U) == UpdateIsReady(state, U) /\ ~UpdateAdvances(state, U) => U \subseteq state

HiddenGapsAdvance == \A U \in Payload : SkipsLate(U) \/ KnownNoOp(U)

(* The snapshot only grows: two racing compactions never overwrite each
   other's result. *)
SnapshotGrows == [][state \subseteq state']_vars

(* What the row lock buys: from the moment a compaction has reloaded the row
   until it commits, the snapshot it builds on is the one in the database and
   the rows it has plucked are still there. *)
LockDiscipline ==
    \A p \in Proc :
        /\ pc[p] \in {"pluck", "fold"} => lock = p /\ snap[p] = state
        /\ pc[p] = "fold" => seen[p] \subseteq tail

(* What reading the tail first buys: between its two reads, whatever compacts
   meanwhile, the tail a load holds and the snapshot it has yet to read cover
   all that was recorded when it began; and it never returns a struct that is
   in neither. *)
LoadsNothingLess ==
    \A p \in Proc :
        /\ pc[p] = "snapshot" => floor[p] \subseteq got[p] \cup state
        /\ pc[p] = "loaded" => floor[p] \subseteq got[p]
        /\ pc[p] \in {"snapshot", "loaded"} => got[p] \subseteq Stored

(* The trigger bounds the tail: as long as no process has died midway, fewer
   than compact_every clean rows are left once no append or compaction is
   running, however the appends jumped past the threshold together. *)
TailBounded ==
    ~died /\ (\A p \in Proc : pc[p] \in {"idle", "snapshot", "loaded"})
        => Cardinality(CleanRows) < CompactEvery
=============================================================================
