---------------------------- MODULE CollabProofs ----------------------------
(***************************************************************************)
(* Reliable delivery for every number of tabs, every editing history, any  *)
(* number of connections, any pool size: an update leaves its tab's queue  *)
(* only when it is durable, nobody sees an edit before it is durable, and  *)
(* a tab that says synced has loaded what was stored when it connected.    *)
(***************************************************************************)
EXTENDS Collab, TLAPS

(* The queue operators keep a queue well formed. *)
LEMMA QueueFacts ==
    ASSUME NEW q \in Queue, q.acked <= Len(q.log)
    PROVE  /\ q.log \in Seq(Content) /\ q.acked \in Nat /\ Len(q.log) \in Nat
           /\ \A i \in 1 .. Len(q.log) : q.log[i] \in Content
           /\ MergedTail(q) \in Content
           /\ TailId(q) \in Nat
           /\ \A i \in 1 .. TailId(q) : i > q.acked => q.log[i] \subseteq MergedTail(q)
  BY DEF Queue, MergedTail, TailId, Unacked, Content

(* Enqueueing appends: the earlier updates keep their ids. *)
LEMMA EnqueueFacts ==
    ASSUME NEW q \in Queue, q.acked <= Len(q.log), NEW u \in Content
    PROVE  /\ Enqueue(q, u) \in Queue
           /\ Enqueue(q, u).acked = q.acked
           /\ Len(Enqueue(q, u).log) = Len(q.log) + 1
           /\ \A i \in 1 .. Len(q.log) : Enqueue(q, u).log[i] = q.log[i]
  BY DEF Queue, Enqueue

(* Acknowledging moves the mark and touches no update. *)
LEMMA AcknowledgeFacts ==
    ASSUME NEW q \in Queue, q.acked <= Len(q.log), NEW id \in Nat
    PROVE  /\ Acknowledge(q, id) \in Queue
           /\ Acknowledge(q, id).log = q.log
           /\ Acknowledge(q, id).acked <= Len(q.log)
           /\ Acknowledge(q, id).acked \in {q.acked, id}
  BY DEF Queue, Acknowledge

(* A new queue is well formed and empty. *)
LEMMA EmptyQueueFacts ==
    EmptyQueue \in Queue /\ EmptyQueue.acked = 0 /\ Len(EmptyQueue.log) = 0
  BY DEF EmptyQueue, Queue

(* A tab that stays is a tab. *)
LEMMA StayersAreTabs == Stayers \subseteq Tab
  BY DEF Stayers

(* The invariant holds to begin with. *)
LEMMA CollabInvInit == Init => CollabInv
  BY CrdtAssumption, CollabAssumption, EmptyQueueFacts, StayersAreTabs
  DEF Init, CollabInv, TypeOK, FramesAreOfTheirTime, IdsAreCovered, RelayedIsDurable,
      HandshakeIsOwn, AckedIsDurable, SeenIsDurable, SyncedHasLoaded, Content

(* The frames a flush puts on the wire keep every promise about frames. *)
LEMMA TailFramesFacts ==
    ASSUME TypeOK, AckedIsDurable, NEW t \in Tab, NEW q \in Queue, q.acked <= Len(q.log),
           \A i \in 1 .. q.acked : q.log[i] \subseteq content,
           NEW m \in TailFrames(t, q)
    PROVE  /\ m \in Frame /\ m.kind = "update" /\ m.tab = t /\ m.conn = conn[t]
           /\ m.id = Len(q.log)
           /\ \A i \in 1 .. m.id : q.log[i] \subseteq content \cup m.body
<1>1. m = FrameOf(t, "update", MergedTail(q), TailId(q))
  BY DEF TailFrames
<1>2. m = [kind |-> "update", tab |-> t, conn |-> conn[t], body |-> MergedTail(q),
           id |-> Len(q.log)]
  BY <1>1 DEF FrameOf, TailId
<1>3. MergedTail(q) \in Content /\ Len(q.log) \in Nat /\ conn[t] \in Nat /\ q.acked \in Nat
  BY QueueFacts DEF TypeOK
<1>4. \A i \in 1 .. Len(q.log) : i > q.acked => q.log[i] \subseteq MergedTail(q)
  BY QueueFacts DEF TailId
<1>5. \A i \in 1 .. Len(q.log) : q.log[i] \subseteq content \cup MergedTail(q)
  BY <1>3, <1>4
<1> QED BY <1>2, <1>3, <1>5 DEF Frame

-----------------------------------------------------------------------------
(* One lemma per action that disturbs the invariant. *)
LEMMA EditKeepsInv ==
    ASSUME CollabInv, NEW t \in Tab, Edit(t) PROVE CollabInv'
<1>0. /\ TypeOK /\ FramesAreOfTheirTime /\ IdsAreCovered /\ RelayedIsDurable
      /\ HandshakeIsOwn /\ AckedIsDurable /\ SeenIsDurable /\ SyncedHasLoaded
  BY DEF CollabInv
<1>1. PICK s \in Struct \ made :
          /\ Author[s] = t
          /\ made' = made \cup {s}
          /\ doc' = [doc EXCEPT ![t] = @ \cup {s}]
          /\ queue' = [queue EXCEPT ![t] = Enqueue(queue[t], {s})]
          /\ up' = IF link[t] = "connected"
                   THEN up \cup TailFrames(t, Enqueue(queue[t], {s})) ELSE up
          /\ UNCHANGED <<content, floor, synced, links, jobs, down>>
  BY DEF Edit
<1> DEFINE q == Enqueue(queue[t], {s})
<1>2. /\ q \in Queue /\ q.acked = queue[t].acked /\ Len(q.log) = Len(queue[t].log) + 1
      /\ \A i \in 1 .. Len(queue[t].log) : q.log[i] = queue[t].log[i]
      /\ Len(queue[t].log) \in Nat /\ queue[t].acked <= Len(queue[t].log)
      /\ queue[t].acked \in Nat /\ q.acked <= Len(q.log)
  <2>1. queue[t] \in Queue /\ queue[t].acked <= Len(queue[t].log) /\ {s} \in Content
    BY <1>0 DEF TypeOK, Content
  <2>2. /\ q \in Queue /\ q.acked = queue[t].acked /\ Len(q.log) = Len(queue[t].log) + 1
        /\ \A i \in 1 .. Len(queue[t].log) : q.log[i] = queue[t].log[i]
    BY <2>1, EnqueueFacts
  <2>3. Len(queue[t].log) \in Nat /\ queue[t].acked \in Nat
    BY <2>1, QueueFacts
  <2> HIDE DEF q
  <2>4. q.acked <= Len(q.log)
    BY <2>1, <2>2, <2>3
  <2> QED BY <2>1, <2>2, <2>3, <2>4
<1>3. queue' = [queue EXCEPT ![t] = q]
  BY <1>1
<1> HIDE DEF q
<1>4. \A i \in 1 .. q.acked : q.log[i] \subseteq content
  BY <1>0, <1>2 DEF AckedIsDurable
<1>5. \A m \in up' : m \in up \/ (/\ m \in Frame /\ m.kind = "update" /\ m.tab = t
                                  /\ m.conn = conn[t] /\ m.id = Len(q.log)
                                  /\ \A i \in 1 .. m.id : q.log[i] \subseteq content \cup m.body)
  <2> SUFFICES ASSUME NEW m \in TailFrames(t, q)
               PROVE  /\ m \in Frame /\ m.kind = "update" /\ m.tab = t
                      /\ m.conn = conn[t] /\ m.id = Len(q.log)
                      /\ \A i \in 1 .. m.id : q.log[i] \subseteq content \cup m.body
    BY <1>1 DEF q
  <2> QED BY <1>0, <1>2, <1>4, TailFramesFacts
<1>6. \A u \in Tab : /\ Len(queue[u].log) <= Len(queue'[u].log)
                     /\ \A i \in 1 .. Len(queue[u].log) : queue'[u].log[i] = queue[u].log[i]
                     /\ queue'[u].acked = queue[u].acked
                     /\ Len(queue[u].log) \in Nat /\ Len(queue'[u].log) \in Nat
  <2>1. \A u \in Tab : Len(queue[u].log) \in Nat
    BY <1>0, QueueFacts DEF TypeOK
  <2>2. \A u \in Tab : u # t => queue'[u] = queue[u]
    BY <1>0, <1>3 DEF TypeOK
  <2>3. queue'[t] = q
    BY <1>0, <1>3 DEF TypeOK
  <2>4. \A i \in 1 .. Len(queue[t].log) : queue'[t].log[i] = queue[t].log[i]
    BY <1>2, <2>3
  <2>5. Len(queue[t].log) <= Len(queue'[t].log) /\ Len(queue'[t].log) \in Nat
    BY <1>2, <2>1, <2>3
  <2> SUFFICES ASSUME NEW u \in Tab
               PROVE  /\ Len(queue[u].log) <= Len(queue'[u].log)
                      /\ \A i \in 1 .. Len(queue[u].log) : queue'[u].log[i] = queue[u].log[i]
                      /\ queue'[u].acked = queue[u].acked
                      /\ Len(queue[u].log) \in Nat /\ Len(queue'[u].log) \in Nat
    OBVIOUS
  <2>6. CASE u = t
    <3>1. queue'[t].acked = queue[t].acked
      BY <1>2, <2>3
    <3> QED BY <2>1, <2>4, <2>5, <2>6, <3>1
  <2>7. CASE u # t
    <3>1. Len(queue[u].log) \in Nat /\ queue'[u] = queue[u]
      BY <2>1, <2>2, <2>7
    <3> QED BY <3>1
  <2> QED BY <2>6, <2>7
<1>7. TypeOK'
  <2>1. queue' \in [Tab -> Queue]
    BY <1>0, <1>2, <1>3 DEF TypeOK
  <2>2. \A u \in Tab : queue'[u].acked <= Len(queue'[u].log)
    BY <1>0, <1>2, <1>3 DEF TypeOK
  <2>3. up' \subseteq Frame
    BY <1>0, <1>5 DEF TypeOK
  <2>4. made' \subseteq Struct /\ doc' \in [Tab -> Content]
    BY <1>0, <1>1 DEF TypeOK, Content
  <2> QED BY <1>0, <1>1, <2>1, <2>2, <2>3, <2>4 DEF TypeOK, links
<1>8. FramesAreOfTheirTime'
  <2>1. conn' = conn /\ jobs' = jobs /\ down' = down /\ conn[t] \in Nat
    BY <1>0, <1>1 DEF links, TypeOK
  <2>2. \A m \in up' : m.conn <= conn[m.tab]
    BY <1>0, <1>5, <2>1 DEF FramesAreOfTheirTime
  <2> QED BY <1>0, <2>1, <2>2 DEF FramesAreOfTheirTime
<1>9. IdsAreCovered'
  <2>1. \A m \in up : m.tab \in Tab /\ m.id \in Nat
    BY <1>0 DEF TypeOK, Frame
  <2>2. \A m \in jobs \cup down : m.tab \in Tab /\ m.id \in Nat
    BY <1>0 DEF TypeOK, Frame
  <2>3. \A m : Alive(m)' = Alive(m)
    BY <1>1 DEF Alive, links
  <2>4. \A m \in up' : Alive(m) =>
           \A i \in 1 .. m.id : i <= Len(queue'[m.tab].log)
                               /\ queue'[m.tab].log[i] \subseteq content \cup m.body
    <3> SUFFICES ASSUME NEW m \in up', Alive(m), NEW i \in 1 .. m.id
                 PROVE  i <= Len(queue'[m.tab].log)
                        /\ queue'[m.tab].log[i] \subseteq content \cup m.body
      OBVIOUS
    <3>1. CASE m \in up
      <4>1. m.tab \in Tab /\ m.id \in Nat /\ i \in 1 .. m.id
        BY <3>1, <2>1
      <4>2. i <= Len(queue[m.tab].log) /\ queue[m.tab].log[i] \subseteq content \cup m.body
        BY <3>1, <1>0 DEF IdsAreCovered
      <4> QED BY <4>1, <4>2, <1>6
    <3>2. CASE m \notin up
      <4>1. queue'[t] = q
        BY <1>0, <1>3 DEF TypeOK
      <4> QED BY <3>2, <1>2, <1>5, <4>1
    <3> QED BY <3>1, <3>2
  <2>5. \A m \in jobs : Alive(m) =>
           \A i \in 1 .. m.id : i <= Len(queue'[m.tab].log)
                               /\ queue'[m.tab].log[i] \subseteq content
    BY <1>0, <1>6, <2>2 DEF IdsAreCovered
  <2>6. \A m \in down : \A i \in 1 .. m.id :
            i <= Len(queue'[m.tab].log) /\ queue'[m.tab].log[i] \subseteq content
    BY <1>0, <1>6, <2>2 DEF IdsAreCovered
  <2> QED BY <1>1, <2>3, <2>4, <2>5, <2>6 DEF IdsAreCovered
<1>10. RelayedIsDurable'
  BY <1>0, <1>1 DEF RelayedIsDurable
<1>11. HandshakeIsOwn'
  BY <1>0, <1>1, <1>5 DEF HandshakeIsOwn, TypeOK, Alive, links, Frame
<1>12. AckedIsDurable'
  <2> SUFFICES ASSUME NEW u \in Tab, NEW i \in 1 .. queue'[u].acked
               PROVE  queue'[u].log[i] \subseteq content'
    BY DEF AckedIsDurable
  <2>1. queue[u].acked \in Nat /\ queue[u].acked <= Len(queue[u].log)
    BY <1>0, QueueFacts DEF TypeOK
  <2>2. i \in 1 .. queue[u].acked /\ i \in 1 .. Len(queue[u].log)
    BY <1>6, <2>1
  <2>3. queue'[u].log[i] = queue[u].log[i]
    BY <1>6, <2>2
  <2> QED BY <1>0, <1>1, <2>2, <2>3 DEF AckedIsDurable
<1>13. SeenIsDurable'
  BY <1>0, <1>1 DEF SeenIsDurable, TypeOK
<1>14. SyncedHasLoaded'
  BY <1>0, <1>1 DEF SyncedHasLoaded, TypeOK
<1> QED
  BY <1>7, <1>8, <1>9, <1>10, <1>11, <1>12, <1>13, <1>14 DEF CollabInv

(* Sending a SyncStep1 and the tail, as Retransmit and Connected do. *)
LEMMA FlushKeepsInv ==
    ASSUME CollabInv, NEW t \in Tab, Retransmit(t) \/ Connected(t) PROVE CollabInv'
<1>0. /\ TypeOK /\ FramesAreOfTheirTime /\ IdsAreCovered /\ RelayedIsDurable
      /\ HandshakeIsOwn /\ AckedIsDurable /\ SeenIsDurable /\ SyncedHasLoaded
  BY DEF CollabInv
<1>1. /\ UNCHANGED <<content, made, doc, queue, conn, left, greeted, stream, jobs, down>>
      /\ link' \in [Tab -> {"disconnected", "connecting", "connected"}]
      /\ \A u \in Tab : u # t => link'[u] = link[u]
      /\ link[t] # "disconnected" /\ link'[t] = "connected"
      /\ link[t] = "connected" \/ floor' = [floor EXCEPT ![t] = content]
      /\ floor' = floor \/ floor' = [floor EXCEPT ![t] = content]
      /\ floor' \in [Tab -> Content] /\ synced' \in [Tab -> BOOLEAN]
      /\ \A u \in Tab : synced'[u] => synced[u] /\ floor'[u] = floor[u]
      /\ \A u \in Tab : floor'[u] # floor[u] => link[u] = "connecting"
  <2>1. CASE Retransmit(t)
    BY <1>0, <2>1 DEF Retransmit, TypeOK, clients, links
  <2>2. CASE Connected(t)
    BY <1>0, <2>2 DEF Connected, TypeOK
  <2> QED BY <2>1, <2>2
<1>2. \A m \in up' : m \in up \/ (/\ m \in Frame /\ m.tab = t /\ m.conn = conn[t]
                                  /\ m.kind \in {"step1", "update"}
                                  /\ m.kind = "step1" => m.body \subseteq doc[t]
                                  /\ \A i \in 1 .. m.id : i <= Len(queue[t].log)
                                         /\ queue[t].log[i] \subseteq content \cup m.body)
  <2> DEFINE hello == FrameOf(t, "step1", StateVector(doc[t]), 0)
  <2>1. /\ queue[t] \in Queue /\ queue[t].acked <= Len(queue[t].log)
        /\ \A i \in 1 .. queue[t].acked : queue[t].log[i] \subseteq content
        /\ Len(queue[t].log) \in Nat
    BY <1>0, QueueFacts DEF TypeOK, AckedIsDurable
  <2>2. \A m \in TailFrames(t, queue[t]) :
            /\ m \in Frame /\ m.kind = "update" /\ m.tab = t /\ m.conn = conn[t]
            /\ m.id = Len(queue[t].log)
            /\ \A i \in 1 .. m.id : queue[t].log[i] \subseteq content \cup m.body
    BY <1>0, <2>1, TailFramesFacts
  <2>3. StateVector(doc[t]) \subseteq doc[t] /\ StateVector(doc[t]) \in Content
    BY <1>0 DEF StateVector, Integrated, TypeOK, Content
  <2>4. /\ hello \in Frame /\ hello.tab = t /\ hello.conn = conn[t] /\ hello.kind = "step1"
        /\ hello.body = StateVector(doc[t]) /\ hello.id = 0
    BY <1>0, <2>3 DEF FrameOf, Frame, TypeOK
  <2>5. up' \subseteq up \cup {hello} \cup TailFrames(t, queue[t])
    BY DEF Retransmit, Connected, Resumed
  <2> HIDE DEF hello
  <2> QED BY <2>1, <2>2, <2>3, <2>4, <2>5
<1>3. TypeOK'
  BY <1>0, <1>1, <1>2 DEF TypeOK
<1>4. FramesAreOfTheirTime'
  BY <1>0, <1>1, <1>2 DEF FramesAreOfTheirTime, TypeOK
<1>5. \A m \in Frame : Alive(m)' = Alive(m)
  BY <1>0, <1>1 DEF Alive, TypeOK, Frame
<1>6. IdsAreCovered'
  <2>1. \A m \in up' : Alive(m)' => \A i \in 1 .. m.id : i <= Len(queue[m.tab].log)
                                /\ queue[m.tab].log[i] \subseteq content \cup m.body
    BY <1>0, <1>2, <1>5 DEF IdsAreCovered, TypeOK
  <2>2. \A m \in jobs : Alive(m)' => \A i \in 1 .. m.id : i <= Len(queue[m.tab].log)
                                /\ queue[m.tab].log[i] \subseteq content
    BY <1>0, <1>5 DEF IdsAreCovered, TypeOK
  <2> QED BY <1>0, <1>1, <2>1, <2>2 DEF IdsAreCovered
<1>7. RelayedIsDurable' /\ AckedIsDurable' /\ SeenIsDurable'
  BY <1>0, <1>1 DEF RelayedIsDurable, AckedIsDurable, SeenIsDurable
<1>8. HandshakeIsOwn'
  <2>1. \A u \in Tab : floor'[u] \subseteq content'
    <3>1. floor \in [Tab -> Content] /\ \A u \in Tab : floor[u] \subseteq content
      BY <1>0 DEF HandshakeIsOwn, TypeOK
    <3> QED BY <1>1, <3>1
  <2>2. \A m \in up' : Alive(m)' /\ m.kind = "step1" /\ m.tab \in Stayers =>
            link'[m.tab] = "connected" /\ m.body \subseteq doc'[m.tab]
    BY <1>0, <1>1, <1>2, <1>5 DEF HandshakeIsOwn, TypeOK, Frame
  <2>3. \A m \in down' : m.kind = "step2" /\ m.tab \in Stayers =>
            link'[m.tab] = "connected" /\ floor'[m.tab] \subseteq doc'[m.tab] \cup m.body
    BY <1>0, <1>1 DEF HandshakeIsOwn, TypeOK, Frame
  <2> QED BY <1>0, <1>1, <2>1, <2>2, <2>3 DEF HandshakeIsOwn
<1>9. SyncedHasLoaded'
  BY <1>0, <1>1, StayersAreTabs DEF SyncedHasLoaded
<1> QED BY <1>3, <1>4, <1>6, <1>7, <1>8, <1>9 DEF CollabInv

(* Subscribing sends nothing yet. *)
LEMMA ConnectKeepsInv ==
    ASSUME CollabInv, NEW t \in Tab, Connect(t) PROVE CollabInv'
<1>0. /\ TypeOK /\ FramesAreOfTheirTime /\ IdsAreCovered /\ RelayedIsDurable
      /\ HandshakeIsOwn /\ AckedIsDurable /\ SeenIsDurable /\ SyncedHasLoaded
  BY DEF CollabInv
<1>1. /\ UNCHANGED <<content, made, doc, queue, floor, synced, conn, left, greeted, stream, up,
                    jobs, down>>
      /\ link[t] = "disconnected"
      /\ link' = [link EXCEPT ![t] = "connecting"]
  BY DEF Connect, clients, network
<1>2. TypeOK'
  BY <1>0, <1>1 DEF TypeOK
<1>3. HandshakeIsOwn'
  BY <1>0, <1>1 DEF HandshakeIsOwn, TypeOK, Frame, Alive
<1> QED
  BY <1>0, <1>1, <1>2, <1>3
  DEF CollabInv, FramesAreOfTheirTime, IdsAreCovered, RelayedIsDurable, AckedIsDurable,
      SeenIsDurable, SyncedHasLoaded, Alive

(* Unsubscribing: the frames on their way stay what they are; a tab that does
   it is none of those that stay. *)
LEMMA DisconnectKeepsInv ==
    ASSUME CollabInv, NEW t \in Tab, Disconnect(t) PROVE CollabInv'
<1>0. /\ TypeOK /\ FramesAreOfTheirTime /\ IdsAreCovered /\ RelayedIsDurable
      /\ HandshakeIsOwn /\ AckedIsDurable /\ SeenIsDurable /\ SyncedHasLoaded
  BY DEF CollabInv
<1>1. /\ UNCHANGED <<content, made, doc, queue, floor, conn, up, jobs, down>>
      /\ left[t] < MaxLeave[t]
      /\ left' = [left EXCEPT ![t] = @ + 1]
      /\ link' = [link EXCEPT ![t] = "disconnected"]
      /\ synced' = [synced EXCEPT ![t] = FALSE]
      /\ greeted' \subseteq greeted /\ stream' \subseteq stream
  BY DEF Disconnect, network
<1>2. TypeOK'
  BY <1>0, <1>1 DEF TypeOK
<1>3. t \notin Stayers
  BY <1>0, <1>1 DEF Stayers, TypeOK
<1>4. HandshakeIsOwn'
  BY <1>0, <1>1, <1>3 DEF HandshakeIsOwn, TypeOK, Frame, Alive
<1>5. SyncedHasLoaded'
  BY <1>0, <1>1, <1>3, StayersAreTabs DEF SyncedHasLoaded, TypeOK
<1> QED
  BY <1>0, <1>1, <1>2, <1>4, <1>5
  DEF CollabInv, FramesAreOfTheirTime, IdsAreCovered, RelayedIsDurable, AckedIsDurable,
      SeenIsDurable, Alive

(* Losing a connection or reloading: the tab's frames are void, so a
   queue that starts again from 1 meets no ack of an earlier page. *)
LEMMA LoseKeepsInv ==
    ASSUME CollabInv, NEW t \in Tab, Lost(t) \/ Reload(t) PROVE CollabInv'
<1>0. /\ TypeOK /\ FramesAreOfTheirTime /\ IdsAreCovered /\ RelayedIsDurable
      /\ HandshakeIsOwn /\ AckedIsDurable /\ SeenIsDurable /\ SyncedHasLoaded
  BY DEF CollabInv
<1>1. /\ UNCHANGED <<content, made, left, floor>>
      /\ up' \subseteq up /\ jobs' \subseteq jobs
      /\ \A m \in jobs : m.kind # "ack" => m \in jobs'
      /\ down' = {m \in down : m.tab # t}
      /\ greeted' \subseteq greeted /\ stream' \subseteq stream
      /\ synced' = [synced EXCEPT ![t] = FALSE]
      /\ conn' = [conn EXCEPT ![t] = @ + 1]
      /\ \/ link' = [link EXCEPT ![t] = "disconnected"]
         \/ link' = [link EXCEPT ![t] = "connecting"]
      /\ doc' = doc \/ doc' = [doc EXCEPT ![t] = {}]
      /\ queue' = queue \/ queue' = [queue EXCEPT ![t] = EmptyQueue]
  BY DEF Lost, Reload, EndConnection
<1>2. TypeOK'
  <2>1. queue' \in [Tab -> Queue] /\ \A u \in Tab : queue'[u].acked <= Len(queue'[u].log)
    <3>1. /\ queue \in [Tab -> Queue] /\ \A u \in Tab : queue[u].acked <= Len(queue[u].log)
          /\ queue' = queue \/ queue' = [queue EXCEPT ![t] = EmptyQueue]
      BY <1>0, <1>1 DEF TypeOK
    <3>2. EmptyQueue \in Queue /\ EmptyQueue.acked <= Len(EmptyQueue.log)
      BY EmptyQueueFacts
    <3>3. CASE queue' = queue
      BY <3>1, <3>3
    <3>4. CASE queue' = [queue EXCEPT ![t] = EmptyQueue]
      BY <3>1, <3>2, <3>4
    <3> QED BY <3>1, <3>3, <3>4
  <2>2. conn' \in [Tab -> Nat]
    <3>1. conn \in [Tab -> Nat] /\ conn' = [conn EXCEPT ![t] = @ + 1]
      BY <1>0, <1>1 DEF TypeOK
    <3> QED BY <3>1
  <2>3. link' \in [Tab -> {"disconnected", "connecting", "connected"}]
    <3>1. /\ link \in [Tab -> {"disconnected", "connecting", "connected"}]
          /\ \/ link' = [link EXCEPT ![t] = "disconnected"]
             \/ link' = [link EXCEPT ![t] = "connecting"]
      BY <1>0, <1>1 DEF TypeOK
    <3> QED BY <3>1
  <2>4. doc' \in [Tab -> Content]
    <3>1. doc \in [Tab -> Content] /\ (doc' = doc \/ doc' = [doc EXCEPT ![t] = {}])
      BY <1>0, <1>1 DEF TypeOK
    <3> QED BY <3>1 DEF Content
  <2>5. synced' \in [Tab -> BOOLEAN]
    <3>1. synced \in [Tab -> BOOLEAN] /\ synced' = [synced EXCEPT ![t] = FALSE]
      BY <1>0, <1>1 DEF TypeOK
    <3> QED BY <3>1
  <2> QED BY <1>0, <1>1, <2>1, <2>2, <2>3, <2>4, <2>5 DEF TypeOK
<1>3. FramesAreOfTheirTime'
  <2>1. \A u \in Tab : conn[u] <= conn'[u] /\ conn[u] \in Nat /\ conn'[u] \in Nat
    BY <1>0, <1>1 DEF TypeOK
  <2>2. \A m \in up' \cup jobs' \cup down' : m \in up \cup jobs \cup down /\ m \in Frame
    BY <1>0, <1>1 DEF TypeOK
  <2> QED BY <1>0, <2>1, <2>2 DEF FramesAreOfTheirTime, Frame
<1>4. \A m \in up \cup jobs : Alive(m)' => m.tab # t /\ Alive(m)
  BY <1>0, <1>1 DEF Alive, FramesAreOfTheirTime, TypeOK, Frame
<1>5. \A u \in Tab : u # t => queue'[u] = queue[u] /\ doc'[u] = doc[u] /\ link'[u] = link[u]
  BY <1>0, <1>1 DEF TypeOK
<1>6. \A m \in up \cup jobs \cup down : m.tab \in Tab
  BY <1>0 DEF TypeOK, Frame
<1>7. IdsAreCovered'
  <2>1. \A m \in up' : Alive(m)' => \A i \in 1 .. m.id : i <= Len(queue'[m.tab].log)
                                /\ queue'[m.tab].log[i] \subseteq content \cup m.body
    BY <1>0, <1>1, <1>4, <1>5, <1>6 DEF IdsAreCovered
  <2>2. \A m \in jobs' : Alive(m)' => \A i \in 1 .. m.id : i <= Len(queue'[m.tab].log)
                                /\ queue'[m.tab].log[i] \subseteq content
    BY <1>0, <1>1, <1>4, <1>5, <1>6 DEF IdsAreCovered
  <2>3. \A m \in down' : \A i \in 1 .. m.id : i <= Len(queue'[m.tab].log)
                                /\ queue'[m.tab].log[i] \subseteq content
    BY <1>0, <1>1, <1>5, <1>6 DEF IdsAreCovered
  <2> QED BY <1>1, <2>1, <2>2, <2>3 DEF IdsAreCovered
<1>8. HandshakeIsOwn'
  <2>1. \A m \in up' : Alive(m)' /\ m.kind = "step1" /\ m.tab \in Stayers =>
            link'[m.tab] = "connected" /\ m.body \subseteq doc'[m.tab]
    BY <1>0, <1>1, <1>4, <1>5, <1>6 DEF HandshakeIsOwn
  <2>2. \A m \in down' : m.kind = "step2" /\ m.tab \in Stayers =>
            link'[m.tab] = "connected" /\ floor'[m.tab] \subseteq doc'[m.tab] \cup m.body
    BY <1>0, <1>1, <1>5, <1>6 DEF HandshakeIsOwn
  <2> QED BY <1>0, <1>1, <2>1, <2>2 DEF HandshakeIsOwn
<1>9. AckedIsDurable'
  <2>1. \A i \in 1 .. EmptyQueue.acked : EmptyQueue.log[i] \subseteq content
    BY EmptyQueueFacts
  <2> QED BY <1>0, <1>1, <2>1 DEF AckedIsDurable, TypeOK
<1>10. RelayedIsDurable' /\ SeenIsDurable'
  BY <1>0, <1>1 DEF RelayedIsDurable, SeenIsDurable, TypeOK
<1>11. SyncedHasLoaded'
  <2>1. \A u \in Tab : synced'[u] => synced[u] /\ u # t
    BY <1>0, <1>1 DEF TypeOK
  <2> QED BY <1>0, <1>1, <1>5, <2>1, StayersAreTabs DEF SyncedHasLoaded
<1> QED BY <1>2, <1>3, <1>7, <1>8, <1>9, <1>10, <1>11 DEF CollabInv

(* The channel's greeting and the stream going live. *)
LEMMA SubscribeKeepsInv ==
    ASSUME CollabInv, NEW t \in Tab, Subscribed(t) \/ StreamLive(t) PROVE CollabInv'
<1>0. /\ TypeOK /\ FramesAreOfTheirTime /\ IdsAreCovered /\ RelayedIsDurable
      /\ HandshakeIsOwn /\ AckedIsDurable /\ SeenIsDurable /\ SyncedHasLoaded
  BY DEF CollabInv
<1> DEFINE hello == FrameOf(t, "step1", StateVector(content), 0)
<1>1. /\ UNCHANGED <<content, made, doc, queue, floor, synced, link, conn, left, up, jobs>>
      /\ down' \subseteq down \cup {hello}
      /\ greeted' \subseteq Tab /\ stream' \subseteq Tab
  BY <1>0 DEF Subscribed, StreamLive, clients, network, TypeOK
<1>2. /\ hello \in Frame /\ hello.tab = t /\ hello.conn = conn[t] /\ hello.kind = "step1"
      /\ hello.id = 0
  <2>1. StateVector(content) \in Content
    BY <1>0 DEF StateVector, Integrated, TypeOK, Content
  <2> QED BY <1>0, <2>1 DEF FrameOf, Frame, TypeOK
<1> HIDE DEF hello
<1>3. TypeOK'
  BY <1>0, <1>1, <1>2 DEF TypeOK
<1>4. FramesAreOfTheirTime'
  BY <1>0, <1>1, <1>2 DEF FramesAreOfTheirTime, TypeOK
<1>5. IdsAreCovered'
  <2>1. \A m \in down' : \A i \in 1 .. m.id : i <= Len(queue[m.tab].log)
                                /\ queue[m.tab].log[i] \subseteq content
    BY <1>0, <1>1, <1>2 DEF IdsAreCovered
  <2> QED BY <1>0, <1>1, <2>1 DEF IdsAreCovered, Alive
<1> QED
  BY <1>0, <1>1, <1>2, <1>3, <1>4, <1>5
  DEF CollabInv, RelayedIsDurable, HandshakeIsOwn, AckedIsDurable, SeenIsDurable,
      SyncedHasLoaded, Alive

(* A handler's answer to the sender of m: nothing, or one frame of m's tab and
   connection, which is alive. *)
LEMMA TransmitFacts ==
    ASSUME TypeOK, NEW m \in Frame, NEW kind \in {"step2", "ack"}, NEW body \in Content,
           NEW id \in Nat, Transmit(m, kind, body, id)
    PROVE  \A n \in down' : n \in down \/ (/\ n \in Frame /\ n.tab = m.tab /\ n.conn = m.conn
                                          /\ n.kind = kind /\ n.body = body /\ n.id = id
                                          /\ Alive(m))
  BY DEF Transmit, Frame

(* A SyncStep1 answered from the store. *)
LEMMA HandleStep1KeepsInv ==
    ASSUME CollabInv, NEW m \in up, HandleStep1(m) PROVE CollabInv'
<1>0. /\ TypeOK /\ FramesAreOfTheirTime /\ IdsAreCovered /\ RelayedIsDurable
      /\ HandshakeIsOwn /\ AckedIsDurable /\ SeenIsDurable /\ SyncedHasLoaded
  BY DEF CollabInv
<1> DEFINE rest == EncodeStateAsUpdate(content, m.body)
<1>1. /\ UNCHANGED <<content, made, doc, queue, floor, synced, link, conn, left, greeted, stream, jobs>>
      /\ up' \subseteq up /\ m.kind = "step1"
      /\ Transmit(m, "step2", rest, 0)
  BY DEF HandleStep1, clients, links
<1>2. rest = content \ m.body /\ rest \in Content /\ m \in Frame
  BY <1>0 DEF EncodeStateAsUpdate, TypeOK, Content
<1> HIDE DEF rest
<1>3. \A n \in down' : n \in down \/ (/\ n \in Frame /\ n.tab = m.tab /\ n.conn = m.conn
                                      /\ n.kind = "step2" /\ n.body = rest /\ n.id = 0
                                      /\ Alive(m))
  BY <1>0, <1>1, <1>2, TransmitFacts
<1>4. TypeOK'
  BY <1>0, <1>1, <1>3 DEF TypeOK
<1>5. FramesAreOfTheirTime'
  BY <1>0, <1>1, <1>3 DEF FramesAreOfTheirTime
<1>6. IdsAreCovered'
  <2>1. \A n \in down' : \A i \in 1 .. n.id : i <= Len(queue[n.tab].log)
                                /\ queue[n.tab].log[i] \subseteq content
    BY <1>0, <1>3 DEF IdsAreCovered
  <2> QED BY <1>0, <1>1, <2>1 DEF IdsAreCovered, Alive
<1>7. HandshakeIsOwn'
  <2>1. \A n \in down' : n.kind = "step2" /\ n.tab \in Stayers =>
            link[n.tab] = "connected" /\ floor[n.tab] \subseteq doc[n.tab] \cup n.body
    <3> SUFFICES ASSUME NEW n \in down', n.kind = "step2", n.tab \in Stayers,
                        n \notin down
                 PROVE  link[n.tab] = "connected" /\ floor[n.tab] \subseteq doc[n.tab] \cup n.body
      BY <1>0 DEF HandshakeIsOwn
    <3>1. n.tab = m.tab /\ n.body = content \ m.body /\ Alive(m) /\ m.tab \in Tab
      BY <1>2, <1>3 DEF Frame
    <3>2. link[m.tab] = "connected" /\ m.body \subseteq doc[m.tab] /\ floor[m.tab] \subseteq content
      BY <1>0, <1>1, <3>1 DEF HandshakeIsOwn
    <3> QED BY <3>1, <3>2
  <2> QED BY <1>0, <1>1, <2>1 DEF HandshakeIsOwn, Alive
<1>8. RelayedIsDurable'
  BY <1>0, <1>1, <1>2, <1>3 DEF RelayedIsDurable
<1> QED
  BY <1>0, <1>1, <1>4, <1>5, <1>6, <1>7, <1>8
  DEF CollabInv, AckedIsDurable, SeenIsDurable, SyncedHasLoaded

(* Recording a change, which turns the frame's claim into a fact, and failing
   to, which leaves it a claim. *)
LEMMA RecordKeepsInv ==
    ASSUME CollabInv, NEW m \in up, Record(m) \/ RecordFails(m) PROVE CollabInv'
<1>0. /\ TypeOK /\ FramesAreOfTheirTime /\ IdsAreCovered /\ RelayedIsDurable
      /\ HandshakeIsOwn /\ AckedIsDurable /\ SeenIsDurable /\ SyncedHasLoaded
  BY DEF CollabInv
<1>1. /\ UNCHANGED <<made, doc, queue, floor, synced, link, conn, left, greeted, stream, down>>
      /\ up' \subseteq up /\ m.kind # "step1" /\ content \subseteq content'
      /\ content' \in Content
      /\ \A n \in jobs' : n \in jobs \/ (n = m /\ content' = content \cup m.body)
  BY <1>0 DEF Record, RecordFails, clients, links, TypeOK, Content, Frame
<1>2. TypeOK'
  BY <1>0, <1>1 DEF TypeOK
<1>3. FramesAreOfTheirTime'
  BY <1>0, <1>1 DEF FramesAreOfTheirTime
<1>4. IdsAreCovered'
  <2>1. \A n : Alive(n)' = Alive(n)
    BY <1>1 DEF Alive
  <2>2. \A n \in jobs' : Alive(n) => \A i \in 1 .. n.id : i <= Len(queue[n.tab].log)
                                /\ queue[n.tab].log[i] \subseteq content'
    BY <1>0, <1>1 DEF IdsAreCovered
  <2>3. \A n \in up' : Alive(n) => \A i \in 1 .. n.id : i <= Len(queue[n.tab].log)
                                /\ queue[n.tab].log[i] \subseteq content' \cup n.body
    BY <1>0, <1>1 DEF IdsAreCovered
  <2>4. \A n \in down : \A i \in 1 .. n.id : i <= Len(queue[n.tab].log)
                                /\ queue[n.tab].log[i] \subseteq content'
    BY <1>0, <1>1 DEF IdsAreCovered
  <2> QED BY <1>1, <2>1, <2>2, <2>3, <2>4 DEF IdsAreCovered
<1>5. RelayedIsDurable'
  BY <1>0, <1>1 DEF RelayedIsDurable
<1>6. HandshakeIsOwn'
  BY <1>0, <1>1 DEF HandshakeIsOwn, Alive
<1> QED
  BY <1>0, <1>1, <1>2, <1>3, <1>4, <1>5, <1>6
  DEF CollabInv, AckedIsDurable, SeenIsDurable, SyncedHasLoaded

(* Relaying: what goes out is in the store, and the ack that is now due speaks
   for the updates the recorded frame covered. *)
LEMMA RelayKeepsInv ==
    ASSUME CollabInv, NEW m \in jobs, Relay(m) PROVE CollabInv'
<1>0. /\ TypeOK /\ FramesAreOfTheirTime /\ IdsAreCovered /\ RelayedIsDurable
      /\ HandshakeIsOwn /\ AckedIsDurable /\ SeenIsDurable /\ SyncedHasLoaded
  BY DEF CollabInv
<1> DEFINE ack == [m EXCEPT !.kind = "ack"]
<1>1. /\ UNCHANGED <<content, made, doc, queue, floor, synced, link, conn, left, greeted, stream, up>>
      /\ \A n \in jobs' : n \in jobs \/ (n = ack /\ Alive(m))
      /\ \A n \in down' : n \in down \/ \E t \in stream : n = Relayed(t, m)
  BY DEF Relay, clients, links, Listeners
<1>2. /\ m \in Frame /\ ack \in Frame /\ ack.kind = "ack" /\ ack.tab = m.tab
      /\ ack.conn = m.conn /\ ack.id = m.id /\ ack.body = m.body
  BY <1>0 DEF TypeOK, Frame
<1> HIDE DEF ack
<1>3. \A n \in down' : n \in down \/ (/\ n \in Frame /\ n.kind = "update" /\ n.id = 0
                                      /\ n.conn = conn[n.tab] /\ n.body = m.body)
  BY <1>0, <1>1, <1>2 DEF Relayed, FrameOf, Frame, TypeOK
<1>4. \A n \in jobs' : n \in jobs \/ (/\ n \in Frame /\ n.kind = "ack" /\ n.tab = m.tab
                                      /\ n.conn = m.conn /\ n.id = m.id /\ n.body = m.body
                                      /\ Alive(m))
  BY <1>1, <1>2
<1>5. TypeOK'
  BY <1>0, <1>1, <1>3, <1>4 DEF TypeOK
<1>6. FramesAreOfTheirTime'
  <2>1. \A n \in jobs' : n.conn <= conn[n.tab]
    BY <1>0, <1>4 DEF FramesAreOfTheirTime
  <2>2. \A n \in down' : n.conn <= conn[n.tab]
    BY <1>0, <1>3 DEF FramesAreOfTheirTime, TypeOK, Frame
  <2> QED BY <1>0, <1>1, <2>1, <2>2 DEF FramesAreOfTheirTime
<1>7. IdsAreCovered'
  <2>1. \A n : Alive(n)' = Alive(n)
    BY <1>1 DEF Alive
  <2>2. \A n \in jobs' : Alive(n) => \A i \in 1 .. n.id : i <= Len(queue[n.tab].log)
                                /\ queue[n.tab].log[i] \subseteq content
    BY <1>0, <1>4 DEF IdsAreCovered
  <2>3. \A n \in down' : \A i \in 1 .. n.id : i <= Len(queue[n.tab].log)
                                /\ queue[n.tab].log[i] \subseteq content
    BY <1>0, <1>3 DEF IdsAreCovered
  <2> QED BY <1>0, <1>1, <2>1, <2>2, <2>3 DEF IdsAreCovered
<1>8. RelayedIsDurable'
  BY <1>0, <1>1, <1>3, <1>4 DEF RelayedIsDurable
<1>9. HandshakeIsOwn'
  BY <1>0, <1>1, <1>3, <1>4 DEF HandshakeIsOwn, Alive
<1> QED
  BY <1>0, <1>1, <1>5, <1>6, <1>7, <1>8, <1>9
  DEF CollabInv, AckedIsDurable, SeenIsDurable, SyncedHasLoaded

(* Acknowledging, and a handler dying before it does. *)
LEMMA FinishKeepsInv ==
    ASSUME CollabInv, NEW m \in jobs, SendAck(m) \/ HandlerDies(m) PROVE CollabInv'
<1>0. /\ TypeOK /\ FramesAreOfTheirTime /\ IdsAreCovered /\ RelayedIsDurable
      /\ HandshakeIsOwn /\ AckedIsDurable /\ SeenIsDurable /\ SyncedHasLoaded
  BY DEF CollabInv
<1>1. /\ UNCHANGED <<content, made, doc, queue, floor, synced, link, conn, left, greeted, stream, up>>
      /\ jobs' \subseteq jobs
      /\ down' = down \/ Transmit(m, "ack", {}, m.id)
  BY DEF SendAck, HandlerDies, clients, links
<1>2. m \in Frame /\ m.id \in Nat /\ {} \in Content
  BY <1>0 DEF TypeOK, Frame, Content
<1>3. \A n \in down' : n \in down \/ (/\ n \in Frame /\ n.tab = m.tab /\ n.conn = m.conn
                                      /\ n.kind = "ack" /\ n.body = {} /\ n.id = m.id
                                      /\ Alive(m))
  BY <1>0, <1>1, <1>2, TransmitFacts
<1>4. TypeOK'
  BY <1>0, <1>1, <1>3 DEF TypeOK
<1>5. FramesAreOfTheirTime'
  BY <1>0, <1>1, <1>3 DEF FramesAreOfTheirTime
<1>6. IdsAreCovered'
  <2>1. \A n \in down' : \A i \in 1 .. n.id : i <= Len(queue[n.tab].log)
                                /\ queue[n.tab].log[i] \subseteq content
    BY <1>0, <1>3 DEF IdsAreCovered
  <2> QED BY <1>0, <1>1, <2>1 DEF IdsAreCovered, Alive
<1>7. RelayedIsDurable'
  BY <1>0, <1>1, <1>3 DEF RelayedIsDurable
<1>8. HandshakeIsOwn'
  BY <1>0, <1>1, <1>3 DEF HandshakeIsOwn, Alive
<1> QED
  BY <1>0, <1>1, <1>4, <1>5, <1>6, <1>7, <1>8
  DEF CollabInv, AckedIsDurable, SeenIsDurable, SyncedHasLoaded

(* A tab answers a SyncStep1. *)
LEMMA AnswerKeepsInv ==
    ASSUME CollabInv, NEW m \in down, Receive(m), Handle(m), m.kind = "step1" PROVE CollabInv'
<1>0. /\ TypeOK /\ FramesAreOfTheirTime /\ IdsAreCovered /\ RelayedIsDurable
      /\ HandshakeIsOwn /\ AckedIsDurable /\ SeenIsDurable /\ SyncedHasLoaded
  BY DEF CollabInv
<1> DEFINE rest == EncodeStateAsUpdate(doc[m.tab], m.body)
           answer == FrameOf(m.tab, "step2", rest, 0)
<1>1. /\ UNCHANGED <<content, made, doc, queue, floor, synced, link, conn, left, greeted, stream, jobs>>
      /\ down' \subseteq down
      /\ up' = up \cup {answer}
  BY DEF Receive, Handle, links
<1>2. m \in Frame /\ m.tab \in Tab /\ rest \in Content
  BY <1>0 DEF TypeOK, Frame, EncodeStateAsUpdate, Content
<1> HIDE DEF rest
<1>3. /\ answer \in Frame /\ answer.kind = "step2" /\ answer.tab = m.tab
      /\ answer.conn = conn[m.tab] /\ answer.id = 0
  BY <1>0, <1>2 DEF FrameOf, Frame, TypeOK
<1> HIDE DEF answer
<1>4. TypeOK'
  BY <1>0, <1>1, <1>3 DEF TypeOK
<1>5. FramesAreOfTheirTime'
  BY <1>0, <1>1, <1>2, <1>3 DEF FramesAreOfTheirTime, TypeOK
<1>6. IdsAreCovered'
  <2>1. \A n \in up' : Alive(n) => \A i \in 1 .. n.id : i <= Len(queue[n.tab].log)
                                /\ queue[n.tab].log[i] \subseteq content \cup n.body
    BY <1>0, <1>1, <1>3 DEF IdsAreCovered
  <2> QED BY <1>0, <1>1, <2>1 DEF IdsAreCovered, Alive
<1>7. HandshakeIsOwn'
  BY <1>0, <1>1, <1>3 DEF HandshakeIsOwn, Alive
<1> QED
  BY <1>0, <1>1, <1>4, <1>5, <1>6, <1>7
  DEF CollabInv, RelayedIsDurable, AckedIsDurable, SeenIsDurable, SyncedHasLoaded

(* A tab applies a relayed change or the answer to its SyncStep1. *)
LEMMA ApplyKeepsInv ==
    ASSUME CollabInv, NEW m \in down, Receive(m), Handle(m), m.kind \in {"step2", "update"}
    PROVE  CollabInv'
<1>0. /\ TypeOK /\ FramesAreOfTheirTime /\ IdsAreCovered /\ RelayedIsDurable
      /\ HandshakeIsOwn /\ AckedIsDurable /\ SeenIsDurable /\ SyncedHasLoaded
  BY DEF CollabInv
<1>1. /\ UNCHANGED <<content, made, queue, floor, link, conn, left, greeted, stream, up, jobs>>
      /\ down' \subseteq down
      /\ doc' = [doc EXCEPT ![m.tab] = @ \cup m.body]
      /\ synced' = synced \/ (synced' = [synced EXCEPT ![m.tab] = TRUE] /\ m.kind = "step2")
  BY DEF Receive, Handle, links
<1>2. m \in Frame /\ m.tab \in Tab /\ m.body \subseteq Struct
  BY <1>0 DEF TypeOK, Frame, Content
<1>3. /\ doc' \in [Tab -> Content]
      /\ \A t \in Tab : doc[t] \subseteq doc'[t] /\ doc'[t] \subseteq doc[t] \cup content
      /\ doc'[m.tab] = doc[m.tab] \cup m.body
  BY <1>0, <1>1, <1>2 DEF TypeOK, Content, RelayedIsDurable
<1>4. TypeOK'
  <2>1. synced' \in [Tab -> BOOLEAN]
    <3>1. synced \in [Tab -> BOOLEAN]
      BY <1>0 DEF TypeOK
    <3> QED BY <1>1, <3>1
  <2> QED BY <1>0, <1>1, <1>3, <2>1 DEF TypeOK
<1>5. HandshakeIsOwn'
  <2>1. \A n \in up \cup down : n.tab \in Tab
    BY <1>0 DEF TypeOK, Frame
  <2> QED BY <1>0, <1>1, <1>3, <2>1 DEF HandshakeIsOwn, Alive
<1>6. SeenIsDurable'
  BY <1>0, <1>1, <1>3 DEF SeenIsDurable
<1>7. SyncedHasLoaded'
  <2> SUFFICES ASSUME NEW t \in Stayers, synced'[t] PROVE floor[t] \subseteq doc'[t]
    BY <1>1 DEF SyncedHasLoaded
  <2>0. t \in Tab
    BY StayersAreTabs
  <2>1. CASE synced[t]
    BY <1>0, <1>3, <2>0, <2>1 DEF SyncedHasLoaded
  <2>2. CASE ~synced[t]
    <3>1. t = m.tab /\ m.kind = "step2"
      BY <1>0, <1>1, <1>2, <2>0, <2>2 DEF TypeOK
    <3> QED BY <1>0, <1>3, <3>1 DEF HandshakeIsOwn
  <2> QED BY <2>1, <2>2
<1> QED
  BY <1>0, <1>1, <1>4, <1>5, <1>6, <1>7
  DEF CollabInv, FramesAreOfTheirTime, IdsAreCovered, RelayedIsDurable, AckedIsDurable, Alive

(* A tab takes an ack: the prefix it drops is durable, because the ack on its
   way spoke for durable updates only. *)
LEMMA AckKeepsInv ==
    ASSUME CollabInv, NEW m \in down, Receive(m), Handle(m), m.kind = "ack" PROVE CollabInv'
<1>0. /\ TypeOK /\ FramesAreOfTheirTime /\ IdsAreCovered /\ RelayedIsDurable
      /\ HandshakeIsOwn /\ AckedIsDurable /\ SeenIsDurable /\ SyncedHasLoaded
  BY DEF CollabInv
<1> DEFINE q == Acknowledge(queue[m.tab], m.id)
<1>1. /\ UNCHANGED <<content, made, doc, floor, synced, link, conn, left, greeted, stream, up, jobs>>
      /\ down' \subseteq down
      /\ queue' = [queue EXCEPT ![m.tab] = q]
  BY DEF Receive, Handle, links
<1>2. /\ m.tab \in Tab /\ m.id \in Nat
      /\ queue[m.tab] \in Queue /\ queue[m.tab].acked <= Len(queue[m.tab].log)
  BY <1>0 DEF TypeOK, Frame
<1>3. /\ q \in Queue /\ q.log = queue[m.tab].log /\ q.acked <= Len(queue[m.tab].log)
      /\ q.acked \in {queue[m.tab].acked, m.id}
  BY <1>2, AcknowledgeFacts
<1> HIDE DEF q
<1>4. \A t \in Tab : queue'[t].log = queue[t].log
  BY <1>0, <1>1, <1>3 DEF TypeOK
<1>5. TypeOK'
  <2>1. queue' \in [Tab -> Queue] /\ \A t \in Tab : queue'[t].acked <= Len(queue'[t].log)
    BY <1>0, <1>1, <1>2, <1>3 DEF TypeOK
  <2> QED BY <1>0, <1>1, <2>1 DEF TypeOK
<1>6. IdsAreCovered'
  <2>1. \A n \in up \cup jobs \cup down : n.tab \in Tab
    BY <1>0 DEF TypeOK, Frame
  <2> QED BY <1>0, <1>1, <1>4, <2>1 DEF IdsAreCovered, Alive
<1>7. AckedIsDurable'
  <2> SUFFICES ASSUME NEW t \in Tab, NEW i \in 1 .. queue'[t].acked
               PROVE  queue[t].log[i] \subseteq content
    BY <1>1, <1>4 DEF AckedIsDurable
  <2>1. CASE queue'[t].acked = queue[t].acked
    BY <1>0, <2>1 DEF AckedIsDurable
  <2>2. CASE queue'[t].acked # queue[t].acked
    <3>1. t = m.tab /\ queue'[t].acked = m.id
      BY <1>0, <1>1, <1>2, <1>3, <2>2 DEF TypeOK
    <3> QED BY <1>0, <3>1 DEF IdsAreCovered
  <2> QED BY <2>1, <2>2
<1> QED
  BY <1>0, <1>1, <1>5, <1>6, <1>7
  DEF CollabInv, FramesAreOfTheirTime, RelayedIsDurable, HandshakeIsOwn, SeenIsDurable,
      SyncedHasLoaded, Alive

(* A frame for which nothing is subscribed any more is dropped. *)
LEMMA DropKeepsInv ==
    ASSUME CollabInv, NEW m \in down, Receive(m), UNCHANGED <<doc, queue, synced, up>>
    PROVE  CollabInv'
<1>1. /\ UNCHANGED <<content, made, doc, queue, floor, synced, link, conn, left, greeted, stream,
                    up, jobs>>
      /\ down' \subseteq down
  BY DEF Receive, links
<1> QED
  BY <1>1
  DEF CollabInv, TypeOK, FramesAreOfTheirTime, IdsAreCovered, RelayedIsDurable, HandshakeIsOwn,
      AckedIsDurable, SeenIsDurable, SyncedHasLoaded, Alive

-----------------------------------------------------------------------------
(* Every step of the system keeps the invariant. *)
LEMMA CollabInvStep == CollabInv /\ [Next]_vars => CollabInv'
<1> SUFFICES ASSUME CollabInv, [Next]_vars PROVE CollabInv'
  OBVIOUS
<1>1. ASSUME NEW t \in Tab, TabStep(t) PROVE CollabInv'
  BY <1>1, EditKeepsInv, FlushKeepsInv, ConnectKeepsInv, DisconnectKeepsInv,
     LoseKeepsInv DEF TabStep
<1>2. CASE ServerStep
  BY <1>2, SubscribeKeepsInv, HandleStep1KeepsInv, RecordKeepsInv, RelayKeepsInv,
     FinishKeepsInv DEF ServerStep
<1>3. ASSUME NEW m \in down, Receive(m) PROVE CollabInv'
  <2>1. m.kind \in {"step1", "step2", "update", "ack"}
    BY DEF CollabInv, TypeOK, Frame
  <2>2. CASE Handle(m)
    BY <1>3, <2>1, <2>2, AnswerKeepsInv, ApplyKeepsInv, AckKeepsInv
  <2>3. CASE UNCHANGED <<doc, queue, synced, up>>
    BY <1>3, <2>3, DropKeepsInv
  <2> QED BY <1>3, <2>2, <2>3 DEF Receive
<1>4. CASE UNCHANGED vars
  BY <1>4
  DEF vars, clients, links, network, CollabInv, TypeOK, FramesAreOfTheirTime, IdsAreCovered,
      RelayedIsDurable, HandshakeIsOwn, AckedIsDurable, SeenIsDurable, SyncedHasLoaded, Alive
<1> QED BY <1>1, <1>2, <1>3, <1>4 DEF Next

(* The inductive invariant: frames are of their time, ids are covered by what
   a frame carries or the store has, and a handshake is its tab's own. *)
THEOREM CollabInvariant == Spec => []CollabInv
  BY CollabInvInit, CollabInvStep, PTL DEF Spec

(* Every variable keeps its type, and no queue has acknowledged more than it
   was given (acknowledge in reliable_sync.ts), reloads included. *)
THEOREM TypeCorrect == Spec => []TypeOK
<1>1. CollabInv => TypeOK
  BY DEF CollabInv
<1> QED BY <1>1, CollabInvariant, PTL

(* An update leaves a queue only when the store has it: an ack follows the
   record (sync_receive), its id covers only what its frame carried or an
   earlier ack spoke for (#flush), and none outlives its connection. *)
THEOREM AckedAlwaysDurable == Spec => []AckedIsDurable
<1>1. CollabInv => AckedIsDurable
  BY DEF CollabInv
<1> QED BY <1>1, CollabInvariant, PTL

(* Nobody sees another tab's edit before it is durable: sync_handle_frame
   records before it relays, and a SyncStep2 is computed from the store. *)
THEOREM SeenAlwaysDurable == Spec => []SeenIsDurable
<1>1. CollabInv => SeenIsDurable
  BY DEF CollabInv
<1> QED BY <1>1, CollabInvariant, PTL

(* A tab that reports synced has loaded all that was stored when it connected:
   only the answer to its own SyncStep1 reaches it as a SyncStep2. *)
THEOREM SyncedAlwaysLoaded == Spec => []SyncedHasLoaded
<1>1. CollabInv => SyncedHasLoaded
  BY DEF CollabInv
<1> QED BY <1>1, CollabInvariant, PTL
-----------------------------------------------------------------------------
(* Why the store has no gaps: what a tab has is stored or in its queue, so a
   tail, sent whole, needs nothing but what is stored. *)

(* What the structs of U need is in U or in C. *)
WholeOver(C, U) == \A u \in U : Past[u] \subseteq C \cup U

(* All updates of a queue, acknowledged or not. *)
LoggedIn(q) == UNION {q.log[i] : i \in 1 .. Len(q.log)}
Logged(t)   == LoggedIn(queue[t])

DocsAreBacked ==
    \A t \in Tab : /\ WholeOver(content, doc[t])
                   /\ doc[t] \subseteq content \cup Logged(t)
                   /\ Logged(t) \subseteq doc[t]

ChangesAreWhole == \A m \in up : m.kind \in {"step2", "update"} => WholeOver(content, m.body)

AnnouncedIsStored == \A m \in down : m.kind = "step1" => m.body \subseteq content

GapInv == StoreGapFree /\ DocsAreBacked /\ ChangesAreWhole /\ AnnouncedIsStored

(* No tab's document held anything before its session. *)
Unseeded == \A t \in Tab : Seed[t] = {}

(* An empty store, empty documents and queues have no gap. *)
LEMMA GapInvInit == ASSUME Unseeded PROVE Init => GapInv
  BY CollabAssumption, EmptyQueueFacts
  DEF Unseeded, Init, GapInv, StoreGapFree, DocsAreBacked, WholeOver, Logged, LoggedIn,
      ChangesAreWhole, AnnouncedIsStored

(* The store only grows, so what is whole over it stays so. *)
LEMMA WholeGrows ==
    ASSUME NEW C, NEW D, NEW U, C \subseteq D, WholeOver(C, U)
    PROVE  WholeOver(D, U)
  BY DEF WholeOver

(* A document less what the server has announced. *)
LEMMA AnswerIsWhole ==
    ASSUME NEW C, NEW D, NEW sv, sv \subseteq C, WholeOver(C, D)
    PROVE  WholeOver(C, EncodeStateAsUpdate(D, sv))
  BY DEF WholeOver, EncodeStateAsUpdate

(* "One merged, causally complete delta": a queue's tail, if what is
   acknowledged is stored and what the tab has is stored or logged. *)
LEMMA TailIsWhole ==
    ASSUME NEW q \in Queue, q.acked <= Len(q.log), NEW C, NEW D,
           WholeOver(C, D),
           \A i \in 1 .. q.acked : q.log[i] \subseteq C,
           D \subseteq C \cup UNION {q.log[i] : i \in 1 .. Len(q.log)},
           \A i \in 1 .. Len(q.log) : q.log[i] \subseteq D
    PROVE  WholeOver(C, MergedTail(q))
<1>0. q.acked \in Nat /\ Len(q.log) \in Nat
  BY QueueFacts
<1>1. \A i \in 1 .. Len(q.log) : q.log[i] \subseteq C \cup MergedTail(q)
  BY <1>0 DEF MergedTail, Unacked
<1>2. D \subseteq C \cup MergedTail(q)
  BY <1>1
<1>3. MergedTail(q) \subseteq D
  BY <1>0 DEF MergedTail, Unacked
<1> QED BY <1>2, <1>3 DEF WholeOver

(* A step that changes neither the store nor what tabs have, and sends nothing
   but handshakes and whole changes. *)
LEMMA GapQuiet ==
    ASSUME CollabInv, GapInv, content' = content, doc' = doc,
           \A t \in Tab : queue'[t].log = queue[t].log,
           \A m \in up' : m \in up \/ m.kind = "step1" \/ WholeOver(content, m.body),
           \A m \in down' : m \in down \/ m.kind # "step1" \/ m.body \subseteq content
    PROVE  GapInv'
<1>1. StoreGapFree'
  BY DEF GapInv, StoreGapFree
<1>2. DocsAreBacked'
  BY DEF GapInv, DocsAreBacked, WholeOver, Logged, LoggedIn
<1>3. ChangesAreWhole'
  BY DEF GapInv, ChangesAreWhole, WholeOver
<1>4. AnnouncedIsStored'
  BY DEF GapInv, AnnouncedIsStored
<1> QED BY <1>1, <1>2, <1>3, <1>4 DEF GapInv

(* What a flush sends is whole. *)
LEMMA FlushIsWhole ==
    ASSUME CollabInv, GapInv, NEW t \in Tab, NEW m \in TailFrames(t, queue[t])
    PROVE  WholeOver(content, m.body)
<1>1. queue[t] \in Queue /\ queue[t].acked <= Len(queue[t].log)
  BY DEF CollabInv, TypeOK
<1>2. WholeOver(content, MergedTail(queue[t]))
  <2>1. \A i \in 1 .. queue[t].acked : queue[t].log[i] \subseteq content
    BY DEF CollabInv, AckedIsDurable
  <2>2. /\ WholeOver(content, doc[t])
        /\ doc[t] \subseteq content \cup UNION {queue[t].log[i] : i \in 1 .. Len(queue[t].log)}
        /\ \A i \in 1 .. Len(queue[t].log) : queue[t].log[i] \subseteq doc[t]
    BY DEF GapInv, DocsAreBacked, Logged, LoggedIn
  <2> QED BY <1>1, <2>1, <2>2, TailIsWhole
<1>3. m.body = MergedTail(queue[t])
  BY DEF TailFrames, FrameOf
<1> QED BY <1>2, <1>3

(* An edit needs only what its tab has integrated. *)
LEMMA EditKeepsGapInv ==
    ASSUME CollabInv, GapInv, NEW t \in Tab, Edit(t) PROVE GapInv'
<1>1. PICK s \in Struct \ made :
          /\ Past[s] \subseteq Integrated(doc[t])
          /\ doc' = [doc EXCEPT ![t] = @ \cup {s}]
          /\ queue' = [queue EXCEPT ![t] = Enqueue(queue[t], {s})]
          /\ up' = IF link[t] = "connected"
                   THEN up \cup TailFrames(t, Enqueue(queue[t], {s})) ELSE up
          /\ UNCHANGED <<content, floor, synced, links, jobs, down>>
  BY DEF Edit
<1> DEFINE q == Enqueue(queue[t], {s})
<1>2. queue[t] \in Queue /\ queue[t].acked <= Len(queue[t].log) /\ {s} \in Content
  BY DEF CollabInv, TypeOK, Content
<1>3. /\ q \in Queue /\ q.acked = queue[t].acked /\ Len(q.log) = Len(queue[t].log) + 1
      /\ \A i \in 1 .. Len(queue[t].log) : q.log[i] = queue[t].log[i]
      /\ Len(queue[t].log) \in Nat /\ queue[t].acked \in Nat
  BY <1>2, EnqueueFacts, QueueFacts
<1>4. q.log[Len(q.log)] = {s}
  BY <1>2, <1>3 DEF Enqueue, Queue
<1>5. doc \in [Tab -> Content] /\ queue \in [Tab -> Queue]
  BY DEF CollabInv, TypeOK
<1>6. doc'[t] = doc[t] \cup {s} /\ queue'[t] = q
  BY <1>1, <1>5
<1>7. \A r \in Tab : r # t => doc'[r] = doc[r] /\ queue'[r] = queue[r]
  BY <1>1, <1>5
<1>8. q.acked <= Len(q.log)
  BY <1>2, <1>3
<1> HIDE DEF q
<1>9. WholeOver(content, doc'[t])
  <2>1. WholeOver(content, doc[t])
    BY DEF GapInv, DocsAreBacked
  <2> QED BY <1>1, <1>6, <2>1 DEF WholeOver, Integrated
<1>10. LoggedIn(q) = Logged(t) \cup {s}
  <2>1. \A i \in 1 .. Len(q.log) : i \in 1 .. Len(queue[t].log) \/ i = Len(q.log)
    BY <1>3
  <2>2. \A i \in 1 .. Len(queue[t].log) : i \in 1 .. Len(q.log)
    BY <1>3
  <2>3. Len(q.log) \in 1 .. Len(q.log)
    BY <1>3
  <2> QED BY <1>3, <1>4, <2>1, <2>2, <2>3 DEF Logged, LoggedIn
<1>11. doc'[t] \subseteq content \cup (Logged(t) \cup {s}) /\ Logged(t) \cup {s} \subseteq doc'[t]
  BY <1>6 DEF GapInv, DocsAreBacked
<1>12. WholeOver(content, MergedTail(q))
  <2>1. \A i \in 1 .. q.acked : q.log[i] \subseteq content
    BY <1>2, <1>3 DEF CollabInv, AckedIsDurable
  <2>2. \A i \in 1 .. Len(q.log) : q.log[i] \subseteq doc'[t]
    BY <1>10, <1>11 DEF LoggedIn
  <2>3. doc'[t] \subseteq content \cup UNION {q.log[i] : i \in 1 .. Len(q.log)}
    BY <1>10, <1>11 DEF LoggedIn
  <2> QED BY <1>3, <1>8, <1>9, <2>1, <2>2, <2>3, TailIsWhole
<1>13. \A m \in up' : m \in up \/ m.body = MergedTail(q)
  BY <1>1 DEF q, TailFrames, FrameOf
<1>14. StoreGapFree' /\ AnnouncedIsStored'
  BY <1>1 DEF GapInv, StoreGapFree, AnnouncedIsStored
<1>15. ChangesAreWhole'
  BY <1>1, <1>12, <1>13 DEF GapInv, ChangesAreWhole
<1>16. DocsAreBacked'
  <2> SUFFICES ASSUME NEW r \in Tab
               PROVE  /\ WholeOver(content, doc'[r])
                      /\ doc'[r] \subseteq content \cup Logged(r)'
                      /\ Logged(r)' \subseteq doc'[r]
    BY <1>1 DEF DocsAreBacked
  <2>1. CASE r = t
    <3>1. Logged(t)' = Logged(t) \cup {s}
      BY <1>6, <1>10 DEF Logged
    <3> QED BY <1>9, <1>11, <2>1, <3>1
  <2>2. CASE r # t
    BY <1>7, <2>2 DEF GapInv, DocsAreBacked, Logged
  <2> QED BY <2>1, <2>2
<1> QED BY <1>14, <1>15, <1>16 DEF GapInv

(* What tabs send and lose without editing: a flush is whole, a SyncStep1 is no
   change. *)
LEMMA TabKeepsGapInv ==
    ASSUME CollabInv, GapInv, NEW t \in Tab,
           \/ Retransmit(t) \/ Connected(t) \/ Connect(t) \/ Lost(t)
           \/ Disconnect(t) \/ Subscribed(t) \/ StreamLive(t)
    PROVE  GapInv'
<1>1. content' = content /\ doc' = doc /\ queue' = queue
  BY DEF Retransmit, Connected, Connect, Lost, Disconnect, Subscribed, StreamLive, clients
<1>2. \A m \in up' : m \in up \/ m.kind = "step1" \/ WholeOver(content, m.body)
  <2>1. up' \subseteq up \cup Resumed(t)
    BY DEF Retransmit, Connected, Connect, Lost, EndConnection, Disconnect, Subscribed,
           StreamLive, network, Resumed
  <2>2. \A m \in Resumed(t) : m.kind = "step1" \/ m \in TailFrames(t, queue[t])
    BY DEF Resumed, FrameOf
  <2> QED BY <2>1, <2>2, FlushIsWhole
<1>3. \A m \in down' : m \in down \/ m.body \subseteq content
  <2>1. down' \subseteq down \cup {FrameOf(t, "step1", StateVector(content), 0)}
    BY DEF Retransmit, Connected, Connect, Lost, EndConnection, Disconnect, Subscribed,
           StreamLive, network
  <2>2. FrameOf(t, "step1", StateVector(content), 0).body \subseteq content
    BY DEF FrameOf, StateVector, Integrated
  <2> QED BY <2>1, <2>2
<1> QED BY <1>1, <1>2, <1>3, GapQuiet

(* What the server does after, or instead of, recording a change. *)
LEMMA ServerKeepsGapInv ==
    ASSUME CollabInv, GapInv, NEW m,
           \/ m \in up /\ (HandleStep1(m) \/ RecordFails(m))
           \/ m \in jobs /\ (Relay(m) \/ SendAck(m) \/ HandlerDies(m))
    PROVE  GapInv'
<1>0. m \in Frame /\ TypeOK
  BY DEF CollabInv, TypeOK
<1>1. content' = content /\ doc' = doc /\ queue' = queue
  BY DEF HandleStep1, RecordFails, Relay, SendAck, HandlerDies, clients
<1>2. up' \subseteq up
  BY DEF HandleStep1, RecordFails, Relay, SendAck, HandlerDies
<1>3. \A n \in down' : n \in down \/ n.kind # "step1"
  <2>1. CASE HandleStep1(m)
    <3>1. Transmit(m, "step2", EncodeStateAsUpdate(content, m.body), 0)
      BY <2>1 DEF HandleStep1
    <3> QED BY <1>0, <3>1 DEF Transmit, Frame
  <2>2. CASE SendAck(m)
    <3>1. Transmit(m, "ack", {}, m.id)
      BY <2>2 DEF SendAck
    <3> QED BY <1>0, <3>1 DEF Transmit, Frame
  <2>3. CASE Relay(m)
    BY <2>3 DEF Relay, Relayed, FrameOf
  <2>4. CASE RecordFails(m) \/ HandlerDies(m)
    BY <2>4 DEF RecordFails, HandlerDies
  <2> QED BY <2>1, <2>2, <2>3, <2>4
<1> QED BY <1>1, <1>2, <1>3, GapQuiet

(* A new page has nothing and owes nothing. *)
LEMMA ReloadKeepsGapInv ==
    ASSUME CollabInv, GapInv, NEW t \in Tab, Reload(t) PROVE GapInv'
<1>1. /\ content' = content
      /\ doc' = [doc EXCEPT ![t] = {}]
      /\ queue' = [queue EXCEPT ![t] = EmptyQueue]
      /\ up' \subseteq up /\ down' \subseteq down
  BY DEF Reload, EndConnection
<1>2. doc \in [Tab -> Content] /\ queue \in [Tab -> Queue]
  BY DEF CollabInv, TypeOK
<1>3. DocsAreBacked'
  <2> SUFFICES ASSUME NEW r \in Tab
               PROVE  /\ WholeOver(content, doc'[r])
                      /\ doc'[r] \subseteq content \cup Logged(r)'
                      /\ Logged(r)' \subseteq doc'[r]
    BY <1>1 DEF DocsAreBacked
  <2>1. CASE r = t
    <3>1. doc'[r] = {} /\ queue'[r] = EmptyQueue
      BY <1>1, <1>2, <2>1
    <3>2. LoggedIn(EmptyQueue) = {}
      BY EmptyQueueFacts DEF LoggedIn
    <3> QED BY <3>1, <3>2 DEF WholeOver, Logged
  <2>2. CASE r # t
    <3>1. doc'[r] = doc[r] /\ queue'[r] = queue[r]
      BY <1>1, <1>2, <2>2
    <3> QED BY <3>1 DEF GapInv, DocsAreBacked, Logged
  <2> QED BY <2>1, <2>2
<1>4. StoreGapFree' /\ ChangesAreWhole' /\ AnnouncedIsStored'
  BY <1>1 DEF GapInv, StoreGapFree, ChangesAreWhole, AnnouncedIsStored, WholeOver
<1> QED BY <1>3, <1>4 DEF GapInv

(* A whole change leaves no gap in a store without one. *)
LEMMA RecordKeepsGapInv ==
    ASSUME CollabInv, GapInv, NEW m \in up, Record(m) PROVE GapInv'
<1>1. /\ content' = content \cup m.body /\ m.kind \in {"step2", "update"}
      /\ up' \subseteq up /\ down' = down /\ doc' = doc /\ queue' = queue
  BY DEF Record, clients
<1>2. StoreGapFree'
  BY <1>1 DEF GapInv, StoreGapFree, ChangesAreWhole, GapFree, WholeOver
<1>3. DocsAreBacked'
  BY <1>1 DEF GapInv, DocsAreBacked, WholeOver, Logged
<1>4. ChangesAreWhole' /\ AnnouncedIsStored'
  BY <1>1 DEF GapInv, ChangesAreWhole, AnnouncedIsStored, WholeOver
<1> QED BY <1>2, <1>3, <1>4 DEF GapInv

(* What reaches a tab is stored; what it answers is its document, whole, less
   what the server has. *)
LEMMA ReceiveKeepsGapInv ==
    ASSUME CollabInv, GapInv, NEW m \in down, Receive(m) PROVE GapInv'
<1>0. /\ TypeOK /\ m.tab \in Tab /\ m.id \in Nat
      /\ content' = content /\ down' \subseteq down
  BY DEF CollabInv, TypeOK, Frame, Receive
<1>1. CASE UNCHANGED <<doc, queue, synced, up>>
  BY <1>0, <1>1, GapQuiet
<1>2. CASE Handle(m) /\ m.kind = "step1"
  <2>1. /\ doc' = doc /\ queue' = queue
        /\ up' = up \cup {FrameOf(m.tab, "step2", EncodeStateAsUpdate(doc[m.tab], m.body), 0)}
    BY <1>2 DEF Handle
  <2>2. WholeOver(content, doc[m.tab]) /\ m.body \subseteq content
    BY <1>0, <1>2 DEF GapInv, DocsAreBacked, AnnouncedIsStored
  <2>3. WholeOver(content, EncodeStateAsUpdate(doc[m.tab], m.body))
    BY <2>2, AnswerIsWhole
  <2>4. \A n \in up' : n \in up \/ WholeOver(content, n.body)
    BY <2>1, <2>3 DEF FrameOf
  <2> QED BY <1>0, <2>1, <2>4, GapQuiet
<1>3. CASE Handle(m) /\ m.kind \in {"step2", "update"}
  <2>1. doc' = [doc EXCEPT ![m.tab] = @ \cup m.body] /\ queue' = queue /\ up' = up
    BY <1>3 DEF Handle
  <2>2. doc \in [Tab -> Content] /\ m.body \subseteq content
    BY <1>0, <1>3 DEF TypeOK, CollabInv, RelayedIsDurable
  <2>3. \A r \in Tab : doc'[r] = doc[r] \/ doc'[r] = doc[r] \cup m.body
    BY <2>1, <2>2
  <2>4. WholeOver(content, m.body)
    BY <2>2 DEF GapInv, StoreGapFree, GapFree, WholeOver
  <2>5. DocsAreBacked'
    <3> SUFFICES ASSUME NEW r \in Tab
                 PROVE  /\ WholeOver(content, doc'[r])
                        /\ doc'[r] \subseteq content \cup Logged(r)
                        /\ Logged(r) \subseteq doc'[r]
      BY <1>0, <2>1 DEF DocsAreBacked, Logged
    <3>1. /\ WholeOver(content, doc[r])
          /\ doc[r] \subseteq content \cup Logged(r)
          /\ Logged(r) \subseteq doc[r]
      BY DEF GapInv, DocsAreBacked
    <3>2. WholeOver(content, doc'[r])
      BY <2>3, <2>4, <3>1 DEF WholeOver
    <3> QED BY <2>2, <2>3, <3>1, <3>2
  <2> QED BY <1>0, <2>1, <2>5 DEF GapInv, StoreGapFree, ChangesAreWhole, AnnouncedIsStored
<1>4. CASE Handle(m) /\ m.kind = "ack"
  <2>1. /\ queue' = [queue EXCEPT ![m.tab] = Acknowledge(@, m.id)]
        /\ doc' = doc /\ up' = up
    BY <1>4 DEF Handle
  <2>2. queue[m.tab] \in Queue /\ queue[m.tab].acked <= Len(queue[m.tab].log)
    BY <1>0 DEF TypeOK
  <2>3. Acknowledge(queue[m.tab], m.id).log = queue[m.tab].log
    BY <1>0, <2>2, AcknowledgeFacts
  <2>4. \A t \in Tab : queue'[t].log = queue[t].log
    BY <1>0, <2>1, <2>3 DEF TypeOK
  <2> QED BY <1>0, <2>1, <2>4, GapQuiet
<1>5. m.kind \in {"step1", "step2", "update", "ack"}
  BY <1>0 DEF TypeOK, Frame
<1> QED BY <1>1, <1>2, <1>3, <1>4, <1>5 DEF Receive

(* Nor does any step of a tab, the network or a handler make one. *)
LEMMA GapInvStep == CollabInv /\ GapInv /\ [Next]_vars => GapInv'
<1> SUFFICES ASSUME CollabInv, GapInv, [Next]_vars PROVE GapInv'
  OBVIOUS
<1>1. ASSUME NEW t \in Tab, TabStep(t) PROVE GapInv'
  BY <1>1, EditKeepsGapInv, TabKeepsGapInv, ReloadKeepsGapInv DEF TabStep
<1>2. CASE ServerStep
  BY <1>2, TabKeepsGapInv, ServerKeepsGapInv, RecordKeepsGapInv DEF ServerStep
<1>3. CASE UNCHANGED vars
  BY <1>3, GapQuiet DEF vars, clients, network
<1> QED BY <1>1, <1>2, <1>3, ReceiveKeepsGapInv DEF Next

(* "One merged, causally complete delta so the server never sees an internal
   gap" (#flush in reliable_sync.ts): tabs that edit through their sessions
   leave no gap in the store, whatever is lost, retried, reordered, or dies
   half way.  A document that held structs before its session, which no queue
   has and #flush never sends, is the exception: see GapHeals. *)
THEOREM StoreNeverHasGaps == ASSUME Unseeded PROVE Spec => []StoreGapFree
<1>1. Init => CollabInv /\ GapInv
  BY CollabInvInit, GapInvInit
<1>2. CollabInv /\ GapInv /\ [Next]_vars => (CollabInv /\ GapInv)'
  BY CollabInvStep, GapInvStep
<1>3. GapInv => StoreGapFree
  BY DEF GapInv
<1> QED BY <1>1, <1>2, <1>3, PTL DEF Spec

-----------------------------------------------------------------------------
(* Why a synced tab misses nothing: whoever is synced, or about to be, has a
   live stream, so a handler's relay becomes a frame of its own; and what its
   SyncStep2 does not bring is on its way to it as well. *)

OnItsWay(t, s) ==
    \/ \E m \in down : m.tab = t /\ s \in m.body /\ m.kind \in {"step2", "update"}
    \/ \E m \in jobs : m.kind # "ack" /\ s \in m.body

ConnectedIsStreamed == \A t \in Tab : link[t] = "connected" => t \in stream

SyncedIsConnected == \A t \in Stayers : synced[t] => link[t] = "connected"

SyncedIsServed == \A t \in Stayers : synced[t] => \A s \in content \ doc[t] : OnItsWay(t, s)

AnswersAreServed ==
    \A m \in down : m.kind = "step2" /\ m.tab \in Stayers =>
        \A s \in content \ (doc[m.tab] \cup m.body) : OnItsWay(m.tab, s)

MissInv == ConnectedIsStreamed /\ SyncedIsConnected /\ SyncedIsServed /\ AnswersAreServed

(* A handler that dies has relayed: only the ack is still due. *)
RelaysSucceed == Faulty \subseteq {"ack"}

(* Nobody is synced to begin with. *)
LEMMA MissInvInit == Init => MissInv
  BY StayersAreTabs
  DEF Init, MissInv, ConnectedIsStreamed, SyncedIsConnected, SyncedIsServed, AnswersAreServed

(* What a step has to keep: the ways to the tabs that are synced or have their
   answer in sight, a way to all of them for what is new in the store, and
   answers that bring, with what is on its way, all there is. *)
LEMMA WaysAreKept ==
    ASSUME CollabInv, MissInv, ConnectedIsStreamed', SyncedIsConnected',
           \A t \in Stayers : synced'[t] =>
               \/ synced[t]
               \/ \A s \in content \ doc'[t] : OnItsWay(t, s),
           \A t \in Stayers : synced'[t] \/ (\E m \in down' : m.kind = "step2" /\ m.tab = t) =>
               /\ doc[t] \subseteq doc'[t]
               /\ \A s \in content \ doc'[t] : OnItsWay(t, s) => OnItsWay(t, s)',
           \A t \in Stayers : \A s \in content' \ content : OnItsWay(t, s)',
           \A m \in down' : m.kind = "step2" /\ m.tab \in Stayers =>
               m \in down \/ content \subseteq doc'[m.tab] \cup m.body
    PROVE  MissInv'
<1>1. SyncedIsServed'
  <2> SUFFICES ASSUME NEW t \in Stayers, synced'[t], NEW s \in content' \ doc'[t]
               PROVE  OnItsWay(t, s)'
    BY DEF SyncedIsServed
  <2>1. CASE s \in content
    BY <2>1 DEF MissInv, SyncedIsServed
  <2> QED BY <2>1
<1>2. AnswersAreServed'
  <2> SUFFICES ASSUME NEW m \in down', m.kind = "step2", m.tab \in Stayers,
                      NEW s \in content' \ (doc'[m.tab] \cup m.body)
               PROVE  OnItsWay(m.tab, s)'
    BY DEF AnswersAreServed
  <2>1. CASE s \notin content
    BY <2>1
  <2>2. CASE s \in content
    <3>1. m \in down /\ doc[m.tab] \subseteq doc'[m.tab]
      BY <2>2
    <3>2. OnItsWay(m.tab, s)
      BY <2>2, <3>1 DEF MissInv, AnswersAreServed
    <3> QED BY <2>2, <3>2
  <2> QED BY <2>1, <2>2
<1> QED BY <1>1, <1>2 DEF MissInv

(* What a tab does besides receiving, and its subscription. *)
LEMMA TabKeepsMissInv ==
    ASSUME CollabInv, MissInv, NEW t \in Tab,
           \/ Edit(t) \/ Retransmit(t) \/ Connect(t) \/ Connected(t) \/ Disconnect(t)
           \/ Subscribed(t) \/ StreamLive(t)
    PROVE  MissInv'
<1>0. TypeOK /\ HandshakeIsOwn
  BY DEF CollabInv
<1>1. content' = content /\ jobs' = jobs /\ conn' = conn
  BY DEF Edit, Retransmit, Connect, Connected, Disconnect, Subscribed, StreamLive, clients,
         links, network
<1>2. down \subseteq down' /\ \A m \in down' : m \in down \/ m.kind = "step1"
  <2>1. CASE Subscribed(t)
    BY <2>1 DEF Subscribed, FrameOf
  <2>2. CASE ~Subscribed(t)
    <3>1. down' = down
      BY <2>2 DEF Edit, Retransmit, Connect, Connected, Disconnect, StreamLive, network
    <3> QED BY <3>1
  <2> QED BY <2>1, <2>2
<1>3. \A u \in Tab : doc[u] \subseteq doc'[u]
  <2>1. CASE Edit(t)
    BY <1>0, <2>1 DEF Edit, TypeOK
  <2>2. CASE ~Edit(t)
    BY <2>2 DEF Retransmit, Connect, Connected, Disconnect, Subscribed, StreamLive, clients
  <2> QED BY <2>1, <2>2
<1>4. ConnectedIsStreamed'
  BY <1>0 DEF Edit, Retransmit, Connect, Connected, Disconnect, Subscribed, StreamLive, clients,
              links, TypeOK, MissInv, ConnectedIsStreamed
<1>5. \A u \in Tab : synced'[u] => synced[u]
  BY <1>0 DEF Edit, Retransmit, Connect, Connected, Disconnect, Subscribed, StreamLive, clients,
              TypeOK
<1>6. SyncedIsConnected'
  BY <1>0, StayersAreTabs
  DEF Edit, Retransmit, Connect, Connected, Disconnect, Subscribed, StreamLive, clients,
      links, TypeOK, MissInv, SyncedIsConnected
<1>7. \A u \in Stayers : \A s \in content \ doc'[u] : OnItsWay(u, s) => OnItsWay(u, s)'
  BY <1>1, <1>2 DEF OnItsWay
<1> QED BY <1>1, <1>2, <1>3, <1>4, <1>5, <1>6, <1>7, StayersAreTabs, WaysAreKept

(* A connection that ends takes its own tab's frames with it, and of the
   handlers only those that have relayed. *)
LEMMA LoseKeepsMissInv ==
    ASSUME CollabInv, MissInv, NEW t \in Tab, Lost(t) \/ Reload(t) PROVE MissInv'
<1>0. TypeOK
  BY DEF CollabInv
<1>1. /\ content' = content
      /\ \A m \in jobs : m.kind # "ack" => m \in jobs'
      /\ down' = {m \in down : m.tab # t}
      /\ stream' = stream \ {t}
      /\ synced' = [synced EXCEPT ![t] = FALSE]
      /\ \/ link' = [link EXCEPT ![t] = "disconnected"]
         \/ link' = [link EXCEPT ![t] = "connecting"]
      /\ doc' = doc \/ doc' = [doc EXCEPT ![t] = {}]
  BY DEF Lost, Reload, EndConnection
<1>2. ~synced'[t] /\ link'[t] # "connected"
  BY <1>0, <1>1 DEF TypeOK
<1>3. \A u \in Tab : u # t => synced'[u] = synced[u] /\ link'[u] = link[u] /\ doc'[u] = doc[u]
  BY <1>0, <1>1 DEF TypeOK
<1>4. ConnectedIsStreamed'
  BY <1>1, <1>2, <1>3 DEF MissInv, ConnectedIsStreamed
<1>5. SyncedIsConnected'
  BY <1>2, <1>3, StayersAreTabs DEF MissInv, SyncedIsConnected
<1>6. \A u \in Stayers : u # t => \A s : OnItsWay(u, s) => OnItsWay(u, s)'
  BY <1>1 DEF OnItsWay
<1>7. \A u \in Stayers : synced'[u] \/ (\E m \in down' : m.kind = "step2" /\ m.tab = u) => u # t
  BY <1>1, <1>2
<1>8. \A u \in Stayers : synced'[u] => synced[u]
  BY <1>2, <1>3, StayersAreTabs
<1> QED BY <1>1, <1>3, <1>4, <1>5, <1>6, <1>7, <1>8, StayersAreTabs, WaysAreKept

(* Answering a SyncStep1 brings the tab all it lacks; recording a change puts
   it in the hands of a handler; the rest of the server but the relay leaves
   the ways alone. *)
LEMMA ServerKeepsMissInv ==
    ASSUME RelaysSucceed, CollabInv, MissInv, NEW m,
           \/ m \in up /\ (HandleStep1(m) \/ Record(m) \/ RecordFails(m))
           \/ m \in jobs /\ (SendAck(m) \/ HandlerDies(m))
    PROVE  MissInv'
<1>0. TypeOK /\ HandshakeIsOwn /\ m \in Frame
  BY DEF CollabInv, TypeOK
<1>1. /\ UNCHANGED <<doc, synced, link, conn, stream>>
      /\ content \subseteq content' /\ down \subseteq down'
  BY DEF HandleStep1, Record, RecordFails, SendAck, HandlerDies, Transmit, clients, links
<1>2. \A n \in jobs : n.kind # "ack" => n \in jobs'
  BY DEF HandleStep1, Record, RecordFails, SendAck, HandlerDies, RelaysSucceed
<1>3. \A s \in content' \ content : \E n \in jobs' : n.kind # "ack" /\ s \in n.body
  BY DEF HandleStep1, Record, RecordFails, SendAck, HandlerDies, NoChange
<1>4. \A n \in down' : n.kind = "step2" /\ n.tab \in Stayers =>
          n \in down \/ content \subseteq doc'[n.tab] \cup n.body
  <2>1. CASE m \in up /\ HandleStep1(m)
    <3>1. Transmit(m, "step2", content \ m.body, 0) /\ m.kind = "step1"
      BY <2>1 DEF HandleStep1, EncodeStateAsUpdate
    <3>2. \A n \in down' : n \in down \/ (/\ n.tab = m.tab /\ n.body = content \ m.body
                                          /\ Alive(m))
      <4>1. content \ m.body \in Content
        BY <1>0 DEF TypeOK, Content
      <4> QED BY <1>0, <3>1, <4>1, TransmitFacts
    <3> QED BY <1>0, <1>1, <2>1, <3>1, <3>2 DEF HandshakeIsOwn
  <2>2. CASE SendAck(m)
    <3>1. Transmit(m, "ack", {}, m.id)
      BY <2>2 DEF SendAck
    <3> QED BY <1>0, <3>1 DEF Transmit, Frame
  <2>3. CASE Record(m) \/ RecordFails(m) \/ HandlerDies(m)
    BY <2>3 DEF Record, RecordFails, HandlerDies
  <2> QED BY <2>1, <2>2, <2>3
<1>5. ConnectedIsStreamed' /\ SyncedIsConnected'
  BY <1>1 DEF MissInv, ConnectedIsStreamed, SyncedIsConnected
<1>6. \A u \in Stayers : \A s : OnItsWay(u, s) => OnItsWay(u, s)'
  BY <1>1, <1>2 DEF OnItsWay
<1>7. \A u \in Stayers : \A s \in content' \ content : OnItsWay(u, s)'
  BY <1>3 DEF OnItsWay
<1> QED BY <1>1, <1>4, <1>5, <1>6, <1>7, WaysAreKept

(* A relay hands the change to every live stream whose tab lacks it. *)
LEMMA RelayKeepsMissInv ==
    ASSUME CollabInv, MissInv, NEW m \in jobs, Relay(m) PROVE MissInv'
<1>0. TypeOK /\ HandshakeIsOwn
  BY DEF CollabInv
<1>1. /\ UNCHANGED <<content, doc, synced, link, conn, stream>>
      /\ down' = down \cup {Relayed(t, m) : t \in Listeners(m)}
      /\ \A n \in jobs : n # m => n \in jobs'
  BY DEF Relay, clients, links
<1>2. \A n \in down' : n \in down \/ n.kind = "update"
  BY <1>1 DEF Relayed, FrameOf
<1>3. ConnectedIsStreamed' /\ SyncedIsConnected'
  BY <1>1 DEF MissInv, ConnectedIsStreamed, SyncedIsConnected
<1>4. ASSUME NEW t \in Stayers,
             synced'[t] \/ (\E n \in down' : n.kind = "step2" /\ n.tab = t),
             NEW s \in content \ doc'[t], OnItsWay(t, s)
      PROVE  OnItsWay(t, s)'
  <2>1. t \in stream
    <3>1. link[t] = "connected"
      BY <1>0, <1>1, <1>2, <1>4 DEF MissInv, SyncedIsConnected, HandshakeIsOwn
    <3> QED BY <3>1, StayersAreTabs DEF MissInv, ConnectedIsStreamed
  <2>2. CASE s \in m.body
    <3>1. t \in Listeners(m)
      BY <1>1, <2>1, <2>2, <1>4 DEF Listeners
    <3>2. Relayed(t, m) \in down'
      BY <1>1, <3>1
    <3>3. /\ Relayed(t, m).tab = t /\ Relayed(t, m).kind = "update"
          /\ Relayed(t, m).body = m.body
      BY DEF Relayed, FrameOf
    <3> QED BY <2>2, <3>2, <3>3 DEF OnItsWay
  <2>3. CASE s \notin m.body
    BY <1>1, <1>4, <2>3 DEF OnItsWay
  <2> QED BY <2>2, <2>3
<1> QED BY <1>1, <1>2, <1>3, <1>4, WaysAreKept

(* A frame that arrives is applied, as its tab has not left. *)
LEMMA ReceiveKeepsMissInv ==
    ASSUME CollabInv, MissInv, NEW m \in down, Receive(m) PROVE MissInv'
<1>0. TypeOK /\ HandshakeIsOwn /\ m.tab \in Tab
  BY DEF CollabInv, TypeOK, Frame
<1>1. /\ UNCHANGED <<content, jobs, link, conn, stream>>
      /\ down' = down \ {m}
  BY DEF Receive, links
<1>2. \A t \in Tab : doc[t] \subseteq doc'[t]
  BY <1>0 DEF Receive, Handle, TypeOK
<1>3. link[m.tab] # "disconnected" /\ m.kind \in {"step2", "update"} => m.body \subseteq doc'[m.tab]
  BY <1>0 DEF Receive, Handle, TypeOK
<1>4. \A t \in Tab : synced'[t] => synced[t] \/ (t = m.tab /\ m.kind = "step2")
  BY <1>0 DEF Receive, Handle, TypeOK
<1>5. ConnectedIsStreamed'
  BY <1>1 DEF MissInv, ConnectedIsStreamed
<1>6. SyncedIsConnected'
  BY <1>0, <1>1, <1>4, StayersAreTabs DEF MissInv, SyncedIsConnected, HandshakeIsOwn
<1>7. ASSUME NEW t \in Stayers, synced'[t] PROVE synced[t] \/ \A s \in content \ doc'[t] : OnItsWay(t, s)
  <2>1. CASE ~synced[t]
    <3>1. t = m.tab /\ m.kind = "step2"
      BY <1>4, <1>7, <2>1, StayersAreTabs
    <3>2. link[t] = "connected"
      BY <1>0, <3>1 DEF HandshakeIsOwn
    <3>3. doc[t] \cup m.body \subseteq doc'[t]
      BY <1>0, <1>2, <1>3, <3>1, <3>2
    <3> QED BY <3>1, <3>3 DEF MissInv, AnswersAreServed
  <2> QED BY <2>1
<1>8. ASSUME NEW t \in Stayers,
             synced'[t] \/ (\E n \in down' : n.kind = "step2" /\ n.tab = t),
             NEW s \in content \ doc'[t], OnItsWay(t, s)
      PROVE  OnItsWay(t, s)'
  <2>1. link[t] = "connected"
    BY <1>0, <1>1, <1>6, <1>8 DEF SyncedIsConnected, HandshakeIsOwn
  <2>2. ~(m.tab = t /\ s \in m.body /\ m.kind \in {"step2", "update"})
    BY <1>3, <1>8, <2>1
  <2> QED BY <1>1, <1>8, <2>2 DEF OnItsWay
<1> QED BY <1>1, <1>2, <1>5, <1>6, <1>7, <1>8, StayersAreTabs, WaysAreKept

(* No step breaks the way of a change to a synced tab. *)
LEMMA MissInvStep == ASSUME RelaysSucceed PROVE CollabInv /\ MissInv /\ [Next]_vars => MissInv'
<1> SUFFICES ASSUME CollabInv, MissInv, [Next]_vars PROVE MissInv'
  OBVIOUS
<1>1. ASSUME NEW t \in Tab, TabStep(t) PROVE MissInv'
  BY <1>1, TabKeepsMissInv, LoseKeepsMissInv DEF TabStep
<1>2. CASE ServerStep
  BY <1>2, TabKeepsMissInv, ServerKeepsMissInv, RelayKeepsMissInv DEF ServerStep
<1>3. CASE UNCHANGED vars
  BY <1>3
  DEF vars, clients, links, network, MissInv, ConnectedIsStreamed, SyncedIsConnected,
      SyncedIsServed, AnswersAreServed, OnItsWay
<1> QED BY <1>1, <1>2, <1>3, ReceiveKeepsMissInv DEF Next

(* Between a change and a synced tab there is always something that brings it
   there: sync_subscribed makes the stream before it answers, and the answer is
   read from a store that has what the stream did not bring.  A handler that
   dies between its record and its relay breaks this until the next handshake,
   so the theorem is about those that die later or not at all. *)
THEOREM SyncedNeverMisses == ASSUME RelaysSucceed PROVE Spec => []SyncedMissesNothing
<1>1. Init => CollabInv /\ MissInv
  BY CollabInvInit, MissInvInit
<1>2. CollabInv /\ MissInv /\ [Next]_vars => (CollabInv /\ MissInv)'
  BY CollabInvStep, MissInvStep
<1>3. MissInv => SyncedMissesNothing
  BY DEF MissInv, SyncedIsServed, SyncedMissesNothing, OnItsWay
<1> QED BY <1>1, <1>2, <1>3, PTL DEF Spec
=============================================================================
