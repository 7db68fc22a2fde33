---------------------------- MODULE ReliableSync ----------------------------
(***************************************************************************)
(* The delivery queue of a browser tab (packages/client/src/               *)
(* reliable_sync.ts).  Updates get the sequence numbers 1, 2, ... in the   *)
(* order they are made and leave the queue from the front, by cumulative   *)
(* acks, so the queue is a log of the updates of the session and a count   *)
(* of those acknowledged: pending is the log after `acked`, nextSeq the    *)
(* log's length plus one.  The phase ("live", "paused") is the state of    *)
(* the transport and belongs to the module that composes the queue.        *)
(***************************************************************************)
EXTENDS Naturals, Sequences

CONSTANT Update          \* what one enqueue carries: a set of structs

Queue == [log : Seq(Update), acked : Nat]

(* new ReliableSync, or what destroy() leaves behind. *)
EmptyQueue == [log |-> << >>, acked |-> 0]

(* The sequence numbers of the unacknowledged updates, oldest first. *)
Unacked(q) == (q.acked + 1) .. Len(q.log)

(* hasPending *)
HasUnacked(q) == q.acked < Len(q.log)

(* enqueue: the next sequence number, at the back. *)
Enqueue(q, update) == [q EXCEPT !.log = Append(@, update)]

AcknowledgeNext(q, id) ==
    [q EXCEPT !.acked = IF id > @ /\ id < Len(q.log) THEN id + 1 ELSE @]

(* acknowledge: drop everything up to id; an id beyond the newest pending
   update is ignored, and so is one that is already covered. *)
Acknowledge(q, id) ==
    [q EXCEPT !.acked = IF id > @ /\ id <= Len(q.log) THEN id ELSE @]

NewestUpdate(q) == q.log[Len(q.log)]

(* #flush: the whole unacknowledged tail merged into one delta, which is sent
   with the highest sequence number as its id. *)
MergedTail(q) == UNION {q.log[i] : i \in Unacked(q)}
TailId(q) == Len(q.log)
=============================================================================
