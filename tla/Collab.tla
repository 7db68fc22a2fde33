------------------------------- MODULE Collab -------------------------------
(***************************************************************************)
(* One collaborative document, end to end: browser tabs with a Y.Doc and a *)
(* delivery queue (y_protocol_session.ts, reliable_sync.ts), their         *)
(* connections (actioncable_provider.ts), the channel that serves them     *)
(* (lib/y/action_cable/sync.rb) and the durable store, which is what       *)
(* DurableDoc promises: content only grows and a load returns at least     *)
(* what was there when it began.                                           *)
(*                                                                         *)
(* The channel keeps nothing between messages and a worker pool runs its   *)
(* handlers, so any frame on the server may be handled next, handlers run  *)
(* side by side, and frames reach a tab in any order.  A frame is lost     *)
(* with its connection.  A handler can die between its steps: record,      *)
(* relay, ack.                                                             *)
(***************************************************************************)
EXTENDS Crdt, Naturals, Sequences

CONSTANTS Tab,      \* browser tabs; a tab's Yjs client id is the tab
          History,  \* what the store holds of the document to begin with
          Seed,     \* per tab: structs its Y.Doc held before the session
          MaxConn,  \* bound, per tab: the cable connections it goes through
          Workers,  \* size of the server's worker pool
          MaxUp,    \* bound: frames on their way to the server when a timer ticks
          Faulty,   \* the frames whose handlers may die or fail to record
          Reloads,  \* the tabs whose page may be reloaded
          MaxLeave  \* bound, per tab: the times it disconnects by itself

ASSUME CollabAssumption ==
    /\ Client = Tab
    /\ History \in Content /\ GapFree(History)
    /\ Seed \in [Tab -> SUBSET Struct]
    /\ MaxConn \in [Tab -> Nat]
    /\ Workers \in Nat \ {0}
    /\ MaxUp \in Nat \ {0}
    /\ Faulty \subseteq {"step2", "update", "ack"}
    /\ Reloads \subseteq Tab
    /\ MaxLeave \in [Tab -> Nat]

INSTANCE ReliableSync WITH Update <- Content

VARIABLES
    content,  \* the durable store
    made,     \* history: the structs edited so far
    doc,      \* per tab: its Y.Doc
    queue,    \* per tab: its delivery queue
    link,     \* per tab: the provider's phase
    conn,     \* per tab: the number of its cable connection (its socket)
    left,     \* per tab: how often it disconnected by itself
    floor,    \* history, per tab: what was stored when it last connected
    synced,   \* per tab: the session has its SyncStep2
    greeted,  \* the tabs whose subscribed callback has run, this subscription
    stream,   \* the tabs whose document stream is live, this subscription
    up,       \* frames on their way to the channel
    jobs,     \* document updates being handled: recorded, not yet done
    down      \* frames and acks on their way to a tab

clients == <<made, doc, queue, floor, synced>>
links   == <<link, conn, left, greeted, stream>>
network == <<up, jobs, down>>
vars    == <<content, clients, links, network>>

(* A frame: what it is, whose, on which connection; what it carries (structs,
   or the clocks of a SyncStep1) and the delivery id, 0 where there is none. *)
Frame == [kind : {"step1", "step2", "update", "ack"},
          tab : Tab, conn : Nat, body : Content, id : Nat]

TypeOK ==
    /\ content \in Content
    /\ made \subseteq Struct
    /\ doc \in [Tab -> Content]
    /\ queue \in [Tab -> Queue]
    /\ \A t \in Tab : queue[t].acked <= Len(queue[t].log)
    /\ link \in [Tab -> {"disconnected", "connecting", "connected"}]
    /\ conn \in [Tab -> Nat]
    /\ left \in [Tab -> Nat]
    /\ floor \in [Tab -> Content]
    /\ synced \in [Tab -> BOOLEAN]
    /\ greeted \subseteq Tab
    /\ stream \subseteq Tab
    /\ up \subseteq Frame
    /\ jobs \subseteq Frame
    /\ down \subseteq Frame

Init ==
    /\ content = History
    /\ made = History \cup UNION {Seed[t] : t \in Tab}
    /\ doc = Seed
    /\ queue = [t \in Tab |-> EmptyQueue]
    /\ link = [t \in Tab |-> "disconnected"]
    /\ conn = [t \in Tab |-> 1]
    /\ left = [t \in Tab |-> 0]
    /\ floor = [t \in Tab |-> {}]
    /\ synced = [t \in Tab |-> FALSE]
    /\ greeted = {}
    /\ stream = {}
    /\ up = {}
    /\ jobs = {}
    /\ down = {}

-----------------------------------------------------------------------------
(* Frames of tab t's current connection. *)
FrameOf(t, kind, body, id) ==
    [kind |-> kind, tab |-> t, conn |-> conn[t], body |-> body, id |-> id]

(* #flush of queue q: the tail as one update frame, if there is any. *)
TailFrames(t, q) ==
    IF HasUnacked(q) THEN {FrameOf(t, "update", MergedTail(q), TailId(q))} ELSE {}

(* A local edit: the doc changes, the session enqueues the update and sends
   the tail when the delivery is live. *)
Edit(t) ==
    \E s \in Struct \ made :
        /\ Author[s] = t
        /\ Past[s] \subseteq Integrated(doc[t])
        /\ made' = made \cup {s}
        /\ doc' = [doc EXCEPT ![t] = @ \cup {s}]
        /\ LET q == Enqueue(queue[t], {s})
           IN  /\ queue' = [queue EXCEPT ![t] = q]
               /\ up' = IF link[t] = "connected" THEN up \cup TailFrames(t, q) ELSE up
        /\ UNCHANGED <<content, floor, synced, links, jobs, down>>

NoTimer(t) == FALSE /\ t \in Tab /\ UNCHANGED vars

(* The retransmit timer, which runs while live with something unacked. *)
Retransmit(t) ==
    /\ link[t] = "connected"
    /\ HasUnacked(queue[t])
    /\ Cardinality(up) < MaxUp
    /\ up' = up \cup TailFrames(t, queue[t])
    /\ UNCHANGED <<content, clients, links, jobs, down>>

-----------------------------------------------------------------------------
(* The tabs that stay: their subscriptions end with their connections. *)
Stayers == {t \in Tab : MaxLeave[t] = 0}

(* The cable connection of a tab is gone, and with it the subscription, what
   was on its way to the tab, and any answer it was still owed.  The changes
   the tab had sent are lost with it, or have reached the server and are
   handled later. *)
EndConnection(t) ==
    /\ conn[t] < MaxConn[t]
    /\ conn' = [conn EXCEPT ![t] = @ + 1]
    /\ synced' = [synced EXCEPT ![t] = FALSE]
    /\ greeted' = greeted \ {t}
    /\ stream' = stream \ {t}
    /\ down' = {m \in down : m.tab # t}
    /\ jobs' = {m \in jobs : m.tab # t \/ m.kind # "ack"}
    /\ \/ up' = {m \in up : m.tab # t}
       \/ up' = {m \in up : m.tab # t \/ m.kind # "step1"}

(* provider.connect(): subscribe. *)
Connect(t) ==
    /\ link[t] = "disconnected"
    /\ link' = [link EXCEPT ![t] = "connecting"]
    /\ UNCHANGED <<content, clients, conn, left, greeted, stream, network>>

(* The connection drops: the session pauses, the consumer opens another one
   and subscribes again. *)
Lost(t) ==
    /\ link[t] # "disconnected"
    /\ link' = [link EXCEPT ![t] = "connecting"]
    /\ EndConnection(t)
    /\ UNCHANGED <<content, made, doc, queue, left, floor>>

(* provider.disconnect(): unsubscribe, keep the doc and the queue.  The cable
   connection stays, and so does what is on its way: the consumer hands it to
   whatever subscribes under the same identifier (external). *)
Disconnect(t) ==
    /\ link[t] # "disconnected"
    /\ left[t] < MaxLeave[t]
    /\ left' = [left EXCEPT ![t] = @ + 1]
    /\ link' = [link EXCEPT ![t] = "disconnected"]
    /\ synced' = [synced EXCEPT ![t] = FALSE]
    /\ greeted' = greeted \ {t}
    /\ stream' = stream \ {t}
    /\ UNCHANGED <<content, made, doc, queue, floor, conn, network>>

(* The page is reloaded: another doc and another queue, which numbers its
   updates from 1 again; what was not delivered is gone with the page. *)
Reload(t) ==
    /\ t \in Reloads
    /\ link' = [link EXCEPT ![t] = "disconnected"]
    /\ doc' = [doc EXCEPT ![t] = {}]
    /\ queue' = [queue EXCEPT ![t] = EmptyQueue]
    /\ EndConnection(t)
    /\ UNCHANGED <<content, made, left, floor>>

(* The connection a frame came on is still there. *)
Alive(m) == m.conn = conn[m.tab]

-----------------------------------------------------------------------------
SubscribedSilently(t) ==
    /\ link[t] = "connecting"
    /\ t \notin greeted
    /\ greeted' = greeted \cup {t}
    /\ UNCHANGED <<content, clients, link, conn, left, stream, network>>

(* sync_subscribed, accepted: load the document, ask the tab for what the
   store lacks.  stream_from was called before, but the stream goes live when
   the pub/sub server says so, before or after this. *)
Subscribed(t) ==
    /\ link[t] = "connecting"
    /\ t \notin greeted
    /\ greeted' = greeted \cup {t}
    /\ down' = down \cup {FrameOf(t, "step1", StateVector(content), 0)}
    /\ UNCHANGED <<content, clients, link, conn, left, stream, up, jobs>>

(* The pub/sub subscription is made (external). *)
StreamLive(t) ==
    /\ link[t] # "disconnected"
    /\ t \notin stream
    /\ stream' = stream \cup {t}
    /\ UNCHANGED <<content, clients, link, conn, left, greeted, network>>

(* session.resume(): the opening SyncStep1, then the delivery goes live with
   its tail. *)
Resumed(t) == {FrameOf(t, "step1", StateVector(doc[t]), 0)} \cup TailFrames(t, queue[t])

ConnectedEarly(t) ==
    /\ link[t] = "connecting"
    /\ t \in greeted
    /\ link' = [link EXCEPT ![t] = "connected"]
    /\ synced' = [synced EXCEPT ![t] = FALSE]
    /\ floor' = [floor EXCEPT ![t] = content]
    /\ up' = up \cup Resumed(t)
    /\ UNCHANGED <<content, made, doc, queue, conn, left, greeted, stream, jobs, down>>

(* The confirmation, sent once subscribed has returned and the stream is live
   (external), reaches the provider. *)
Connected(t) ==
    /\ link[t] = "connecting"
    /\ t \in greeted \cap stream
    /\ link' = [link EXCEPT ![t] = "connected"]
    /\ synced' = [synced EXCEPT ![t] = FALSE]
    /\ floor' = [floor EXCEPT ![t] = content]
    /\ up' = up \cup Resumed(t)
    /\ UNCHANGED <<content, made, doc, queue, conn, left, greeted, stream, jobs, down>>

-----------------------------------------------------------------------------
(* transmit: to the connection the frame came on, if it is still there. *)
Transmit(m, kind, body, id) ==
    down' = IF Alive(m)
            THEN down \cup {[m EXCEPT !.kind = kind, !.body = body, !.id = id]}
            ELSE down

(* A tab's SyncStep1 is answered from the store, pending structs included. *)
HandleStep1(m) ==
    /\ m \in up
    /\ m.kind = "step1"
    /\ up' = up \ {m}
    /\ Transmit(m, "step2", EncodeStateAsUpdate(content, m.body), 0)
    /\ UNCHANGED <<content, clients, links, jobs>>

RelayWithoutRecord(m) ==
    /\ m \in up
    /\ m.kind \in {"step2", "update"}
    /\ Cardinality(jobs) < Workers
    /\ up' = up \ {m}
    /\ jobs' = IF NoChange(m.body) THEN jobs ELSE jobs \cup {m}
    /\ UNCHANGED <<content, clients, links, down>>

(* A tab's update, or its SyncStep2: nothing to do when it changes nothing,
   otherwise record it before anything else. *)
Record(m) ==
    /\ m \in up
    /\ m.kind \in {"step2", "update"}
    /\ Cardinality(jobs) < Workers
    /\ up' = up \ {m}
    /\ content' = content \cup m.body
    /\ jobs' = IF NoChange(m.body) THEN jobs ELSE jobs \cup {m}
    /\ UNCHANGED <<clients, links, down>>

(* The frame is dropped or on_change raises: no record, no relay, no ack. *)
RecordFails(m) ==
    /\ m \in up
    /\ m.kind \in {"step2", "update"} \cap Faulty
    /\ up' = up \ {m}
    /\ UNCHANGED <<content, clients, links, jobs, down>>

RelayedAsIs(t, m) == FrameOf(t, m.kind, m.body, 0)

(* What a relayed change looks like on a tab's stream: always a plain update,
   also when it came as the SyncStep2 of some tab. *)
Relayed(t, m) == FrameOf(t, "update", m.body, 0)

(* The tabs whose document a relayed change reaches and changes: of the live
   streams, those that lack some of it.  The others get the frame as well, the
   sender among them, and applying it is a no-op for as long as they live. *)
Listeners(m) == {t \in stream : ~(m.body \subseteq doc[t])}

(* Recorded, so relay it; the ack comes after, for a frame with an id whose
   sender is still there. *)
Relay(m) ==
    /\ m \in jobs
    /\ m.kind # "ack"
    /\ down' = down \cup {Relayed(t, m) : t \in Listeners(m)}
    /\ jobs' = (jobs \ {m}) \cup (IF m.id # 0 /\ Alive(m) THEN {[m EXCEPT !.kind = "ack"]} ELSE {})
    /\ UNCHANGED <<content, clients, links, up>>

(* Relayed, so acknowledge it. *)
SendAck(m) ==
    /\ m \in jobs
    /\ m.kind = "ack"
    /\ jobs' = jobs \ {m}
    /\ Transmit(m, "ack", {}, m.id)
    /\ UNCHANGED <<content, clients, links, up>>

(* The handler dies, or broadcasting or transmitting raises. *)
HandlerDies(m) ==
    /\ m \in jobs
    /\ m.kind \in Faulty
    /\ jobs' = jobs \ {m}
    /\ UNCHANGED <<content, clients, links, up, down>>

-----------------------------------------------------------------------------
(* What the session does with a frame. *)
Handle(m) ==
    \/ /\ m.kind = "step1"    \* answer with what the server lacks
       /\ up' = up \cup {FrameOf(m.tab, "step2",
                                 EncodeStateAsUpdate(doc[m.tab], m.body), 0)}
       /\ UNCHANGED <<doc, queue, synced>>
    \/ /\ m.kind = "step2"    \* the answer to a SyncStep1 of ours: caught up
       /\ doc' = [doc EXCEPT ![m.tab] = @ \cup m.body]
       /\ synced' = [synced EXCEPT ![m.tab] = TRUE]
       /\ UNCHANGED <<queue, up>>
    \/ /\ m.kind = "update"
       /\ doc' = [doc EXCEPT ![m.tab] = @ \cup m.body]
       /\ UNCHANGED <<queue, synced, up>>
    \/ /\ m.kind = "ack"
       /\ queue' = [queue EXCEPT ![m.tab] = Acknowledge(@, m.id)]
       /\ UNCHANGED <<doc, synced, up>>

(* A frame reaches the tab's session, unless nothing is subscribed any more. *)
Receive(m) ==
    /\ m \in down
    /\ down' = down \ {m}
    /\ \/ /\ link[m.tab] = "disconnected"
          /\ UNCHANGED <<doc, queue, synced, up>>
       \/ /\ link[m.tab] # "disconnected"
          /\ Handle(m)
    /\ UNCHANGED <<content, made, floor, links, jobs>>

TabStep(t) == \/ Edit(t) \/ Retransmit(t) \/ Connect(t) \/ Lost(t)
              \/ Disconnect(t) \/ Reload(t) \/ Connected(t)

ServerStep == \/ \E t \in Tab : Subscribed(t) \/ StreamLive(t)
              \/ \E m \in up : HandleStep1(m) \/ Record(m) \/ RecordFails(m)
              \/ \E m \in jobs : Relay(m) \/ SendAck(m) \/ HandlerDies(m)

Next == \/ \E t \in Tab : TabStep(t)
        \/ ServerStep
        \/ \E m \in down : Receive(m)

Spec == Init /\ [][Next]_vars

(* The browser keeps a connection open and its timer ticking, the server runs
   every handler it has a frame for, and the network delivers on a connection
   that stays up.  A handler may die any number of times; of an update that is
   retried for ever, some try records, relays and acks. *)
Fairness ==
    \A t \in Tab :
        /\ WF_vars(Connect(t)) /\ WF_vars(Subscribed(t))
        /\ WF_vars(StreamLive(t)) /\ WF_vars(Connected(t))
        /\ WF_vars(Retransmit(t))
        /\ WF_vars(\E m \in up : m.tab = t /\ HandleStep1(m))
        /\ SF_vars(\E m \in up : m.tab = t /\ m.kind = "update" /\ Record(m))
        /\ WF_vars(\E m \in up : m.tab = t /\ m.kind = "step2" /\ Record(m))
        /\ SF_vars(\E m \in jobs : m.tab = t /\ Relay(m))
        /\ SF_vars(\E m \in jobs : m.tab = t /\ SendAck(m))
        /\ \A k \in {"step1", "step2", "update", "ack"} :
               WF_vars(\E m \in down : m.tab = t /\ m.kind = k /\ Receive(m))

FairSpec == Spec /\ Fairness

-----------------------------------------------------------------------------
(* An update leaves a tab's queue only when it is in the store, whatever acks
   are delayed, lost, reordered or meant for an earlier page of the tab
   (sync_send_ack against the cumulative acknowledge). *)
AckedIsDurable ==
    \A t \in Tab : \A i \in 1 .. queue[t].acked : queue[t].log[i] \subseteq content

(* Nobody sees another tab's edit before it is durable: record, then relay. *)
SeenIsDurable ==
    \A t \in Tab : \A s \in doc[t] :
        s \in content \/ Author[s] = t \/ s \in Seed[t]

(* "The only Step2 a client ever receives is the server's answer to its own
   handshake, which is how a client knows it has loaded": a tab that reports
   synced has all that was stored when it connected, as long as its earlier
   subscriptions ended with their connections. *)
SyncedHasLoaded == \A t \in Stayers : synced[t] => floor[t] \subseteq doc[t]

(* "True once the document has caught up with the server": the same of every
   tab, also one that left and came back on the same connection. *)
SyncedIsCaughtUp == \A t \in Tab : synced[t] => floor[t] \subseteq doc[t]

(* Between a change and a synced tab there is always something that brings it
   there: a frame on the tab's stream, or a handler about to relay it. *)
SyncedMissesNothing ==
    \A t \in Stayers : synced[t] =>
        \A s \in content \ doc[t] :
            \/ \E m \in down : m.tab = t /\ s \in m.body /\ m.kind \in {"step2", "update"}
            \/ \E m \in jobs : m.kind # "ack" /\ s \in m.body

(* "One merged, causally complete delta so the server never sees an internal
   gap": tabs that edit through their sessions never leave a gap in the store,
   though frames overtake each other, are lost or are retried. *)
StoreGapFree == GapFree(content)

(* Once edits stop and connections stay up, every tab and the store hold the
   same document and every queue is empty. *)
Converges ==
    <>[](\A t \in Tab : /\ doc[t] = content
                        /\ ~HasUnacked(queue[t])
                        /\ synced[t])

(* A gap in the store heals: the handshakes bring the missing structs. *)
GapHeals == []<>GapFree(content)

-----------------------------------------------------------------------------
(* Why the first three hold, as an inductive invariant. *)

(* Frames belong to the connection they were sent on, which is their tab's
   current one or an earlier one. *)
FramesAreOfTheirTime ==
    \A m \in up \cup jobs \cup down : m.conn <= conn[m.tab]

(* The id of a live frame covers only updates that the frame carries or the
   store has; once its handler has recorded it, the store has them all.  An
   ack on its way speaks for updates that are durable. *)
IdsAreCovered ==
    /\ \A m \in up : Alive(m) =>
           \A i \in 1 .. m.id : i <= Len(queue[m.tab].log)
                               /\ queue[m.tab].log[i] \subseteq content \cup m.body
    /\ \A m \in jobs : Alive(m) =>
           \A i \in 1 .. m.id : i <= Len(queue[m.tab].log)
                               /\ queue[m.tab].log[i] \subseteq content
    /\ \A m \in down :
           \A i \in 1 .. m.id : i <= Len(queue[m.tab].log)
                               /\ queue[m.tab].log[i] \subseteq content

(* What is being relayed, or on its way to a tab, is durable. *)
RelayedIsDurable ==
    /\ \A m \in jobs : m.body \subseteq content
    /\ \A m \in down : m.kind # "step1" => m.body \subseteq content

(* A handshake in progress is the tab's own: its SyncStep1 announces what the
   tab has, and the SyncStep2 on its way brings the rest of what was stored
   when the tab connected. *)
HandshakeIsOwn ==
    /\ \A t \in Tab : floor[t] \subseteq content
    /\ \A m \in up : Alive(m) /\ m.kind = "step1" /\ m.tab \in Stayers =>
           link[m.tab] = "connected" /\ m.body \subseteq doc[m.tab]
    /\ \A m \in down : m.kind = "step2" /\ m.tab \in Stayers =>
           link[m.tab] = "connected" /\ floor[m.tab] \subseteq doc[m.tab] \cup m.body
    /\ \A m \in jobs : m.kind # "step1"

CollabInv == /\ TypeOK /\ FramesAreOfTheirTime /\ IdsAreCovered
             /\ RelayedIsDurable /\ HandshakeIsOwn
             /\ AckedIsDurable /\ SeenIsDurable /\ SyncedHasLoaded
=============================================================================
