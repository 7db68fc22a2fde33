-------------------------- MODULE DocumentChannel --------------------------
(***************************************************************************)
(* The channel that ships with the gem (app/channels/y/document_channel.rb, *)
(* with lib/y/action_cable/sync.rb), on top of DocumentIdentity: a          *)
(* subscription opens with a signed grant, and each update it receives is   *)
(* one of the racing calls that find or make the attribute's row.  Ruby     *)
(* code and channels of the application record and broadcast through the    *)
(* same rows.                                                               *)
(*                                                                         *)
(* Action Cable runs a connection's commands on a pool of workers, so a     *)
(* frame can be handled while the subscription's `subscribed` still runs.   *)
(* AnyCable runs each command in a new channel instance, and sends what     *)
(* `subscribed` transmitted once it has returned.                           *)
(***************************************************************************)
EXTENDS DocumentIdentity

CONSTANT Sub  \* subscriptions

ASSUME SubAssumption == Nothing \notin Sub

VARIABLES
    anycable,  \* whether AnyCable runs the commands
    about,     \* per subscription: the attribute its grant is for
    good,      \* per subscription: whether the grant still locates the record
    stage,     \* per subscription: the statement of `subscribed` it is at, or how it ended
    key,       \* per subscription: the key `subscribed` read, or Nothing
    streams,   \* per subscription: the key it streams from, or Nothing
    authorized_document_key,  \* per subscription: as in the source
    from,      \* per call: the subscription whose frame makes it; Nothing for other code's
    frame,     \* per call: what became of it
    astray,    \* broadcasts that reached one they should not, or missed one: pairs of call and subscription
    moved      \* attributes the application gave another key after a subscription read theirs

subVars == <<about, good, stage, key, streams, authorized_document_key>>

channelVars == <<vars, subVars, anycable, from, frame, astray, moved>>

Stages == {"new", "policy", "load", "greeted", "overtaken", "open", "refused"}

ChannelTypeOK ==
    /\ anycable \in BOOLEAN
    /\ about \in [Sub -> Attr]
    /\ good \in [Sub -> BOOLEAN]
    /\ stage \in [Sub -> Stages]
    /\ key \in [Sub -> Key \cup {Nothing}]
    /\ streams \in [Sub -> Key \cup {Nothing}]
    /\ authorized_document_key \in [Sub -> Key \cup {Nothing}]
    /\ from \in [Caller -> Sub \cup {Nothing}]
    /\ frame \in [Caller -> {"waiting", "recording", "unlocated", "refused", "relayed"}]
    /\ astray \subseteq Caller \X Sub
    /\ moved \subseteq Attr

ChannelInit ==
    /\ Init
    /\ anycable \in BOOLEAN
    /\ about \in [Sub -> Attr]
    /\ good = [s \in Sub |-> TRUE]
    /\ stage = [s \in Sub |-> "new"]
    /\ key = [s \in Sub |-> Nothing]
    /\ streams = [s \in Sub |-> Nothing]
    /\ authorized_document_key = [s \in Sub |-> Nothing]
    /\ from \in [Caller -> Sub \cup {Nothing}]
    /\ \A c \in Caller : from[c] \in Sub => wants[c].by = "attr" /\ wants[c].attr = about[from[c]]
    /\ frame = [c \in Caller |-> IF from[c] = Nothing THEN "recording" ELSE "waiting"]
    /\ astray = {}
    /\ moved = {}

-----------------------------------------------------------------------------
(* subscribed.                                                              *)

IdentityStays == UNCHANGED <<vars, anycable, from, frame, astray, moved>>

Reach(s, st) == stage' = [stage EXCEPT ![s] = st]

(* reject, inside `subscribed`: no stream is open yet. *)
Reject(s) == Reach(s, "refused") /\ UNCHANGED streams

(* reject_document_subscription: the streams end, and the client is told. *)
RejectDocumentSubscription(s, st) ==
    /\ streams' = [streams EXCEPT ![s] = Nothing]
    /\ Reach(s, st)

(* locate_record, then document.key. *)
Locate(s) ==
    /\ stage[s] = "new"
    /\ \/ /\ good[s]
          /\ key' = [key EXCEPT ![s] = DocumentKey(about[s])]
          /\ Reach(s, "policy")
          /\ UNCHANGED streams
       \/ ~ good[s] /\ Reject(s) /\ UNCHANGED key
    /\ UNCHANGED <<about, good, authorized_document_key>>
    /\ IdentityStays

(* sync_subscribed asks authorized? and opens the stream. *)
Authorize(s) ==
    /\ stage[s] = "policy"
    /\ \/ Reach(s, "load") /\ streams' = [streams EXCEPT ![s] = key[s]]
       \/ Reject(s)
    /\ UNCHANGED <<about, good, key, authorized_document_key>>
    /\ IdentityStays

(* sync_subscribed loads the document and transmits the opening handshake. *)
Greet(s) ==
    /\ stage[s] = "load"
    /\ Reach(s, "greeted")
    /\ UNCHANGED <<about, good, key, streams, authorized_document_key>>
    /\ IdentityStays

(* `subscribed` keeps the key; Action Cable confirms, unless a frame that
   overtook it has had the subscription refused. *)
Remember(s) ==
    /\ stage[s] \in {"greeted", "overtaken"}
    /\ authorized_document_key' = [authorized_document_key EXCEPT ![s] = key[s]]
    /\ Reach(s, IF stage[s] = "greeted" THEN "open" ELSE "refused")
    /\ UNCHANGED <<about, good, key, streams>>
    /\ IdentityStays

(* A fault: the rescue only rejects. *)
SubscribeRaisesToReject(s) ==
    /\ stage[s] \in {"new", "policy", "load"}
    /\ Reject(s)
    /\ UNCHANGED <<about, good, key, authorized_document_key>>
    /\ IdentityStays

(* A query, the policy or the loader raises: `subscribed` rescues it. *)
SubscribeRaises(s) ==
    /\ stage[s] \in {"new", "policy", "load"}
    /\ RejectDocumentSubscription(s, "refused")
    /\ UNCHANGED <<about, good, key, authorized_document_key>>
    /\ IdentityStays

(* The grant expires (its record stays); it is looked at by no other
   statement than those of these stages. *)
Expire(s) ==
    /\ good[s]
    /\ stage[s] \in {"new", "open"}
    /\ good' = [good EXCEPT ![s] = FALSE]
    /\ UNCHANGED <<about, stage, key, streams, authorized_document_key>>
    /\ IdentityStays

-----------------------------------------------------------------------------
(* receive.                                                                 *)

(* When a client's frame gets to the channel.  It answers the handshake as
   soon as it has it, and sends its own updates once it is confirmed. *)
Delivers(s) == stage[s] = "open" \/ (stage[s] = "greeted" /\ ~ anycable)

(* `document`: the record `subscribed` left in the instance, or, in the fresh
   instance of an AnyCable command, what locate_record makes of the grant;
   with neither, `document` is nil and on_change raises. *)
HasRecord(s) == ~ anycable \/ good[s]

(* receive checks the key; then, for an update, on_change needs the document. *)
Receive(c, s) ==
    /\ from[c] = s
    /\ frame[c] = "waiting"
    /\ Delivers(s)
    /\ IF authorized_document_key[s] = Nothing
       THEN /\ RejectDocumentSubscription(s, "overtaken")
            /\ frame' = [frame EXCEPT ![c] = "refused"]
       ELSE /\ frame' = [frame EXCEPT ![c] = IF HasRecord(s) THEN "recording" ELSE "unlocated"]
            /\ UNCHANGED <<stage, streams>>
    /\ UNCHANGED <<vars, about, good, key, authorized_document_key, anycable, from, astray, moved>>

(* A call is under way: document.append, Y::Document.append, or an
   application's own. *)
Record(c) ==
    /\ frame[c] = "recording"
    /\ For(c) \/ AppendByKey(c) \/ Append(c)
    /\ UNCHANGED <<subVars, anycable, from, frame, astray, moved>>

(* The key a call broadcasts under: the subscription's, Attribute#key read
   after the append, or the one it was given. *)
Topic(c) ==
    IF from[c] \in Sub THEN authorized_document_key[from[c]]
    ELSE IF wants[c].by = "attr" THEN DocumentKey(wants[c].attr) ELSE wants[c].key

(* Subscribers of the document in row k. *)
Home(k) ==
    {s \in Sub : /\ streams[s] # Nothing
                 /\ rows[k] = about[s] \/ (rows[k] = Unbound /\ DocumentKey(about[s]) = k)}

Heard(k) == {s \in Sub : streams[s] = k}

(* sync_distribute, or Y::ActionCable.broadcast; then the ack. *)
Distribute(c) ==
    /\ frame[c] = "recording"
    /\ pc[c] = "done"
    /\ frame' = [frame EXCEPT ![c] = "relayed"]
    /\ astray' = astray \cup ({c} \X ((Home(doc[c]) \ Heard(Topic(c))) \cup (Heard(Topic(c)) \ Home(doc[c]))))
    /\ UNCHANGED <<vars, subVars, anycable, from, moved>>

(* The application binds an attribute to a key of its own, one that no
   attribute derives. *)
Bind(a, k) ==
    /\ Supply(a, k)
    /\ \A b \in Attr : k # Derived[b]
    /\ moved' = IF \E s \in Sub : about[s] = a /\ key[s] # Nothing THEN moved \cup {a} ELSE moved
    /\ UNCHANGED <<subVars, anycable, from, frame, astray>>

Subscribed(s) ==
    \/ Locate(s) \/ Authorize(s) \/ Greet(s) \/ Remember(s) \/ SubscribeRaises(s)

ChannelNext ==
    \/ \E s \in Sub : Subscribed(s) \/ Expire(s)
    \/ \E c \in Caller, s \in Sub : Receive(c, s)
    \/ \E c \in Caller : Record(c) \/ Distribute(c)
    \/ \E a \in Attr, k \in Key : Bind(a, k)

ChannelSpec == ChannelInit /\ [][ChannelNext]_channelVars

-----------------------------------------------------------------------------
(* A broadcast reaches exactly the subscribers of the document it was stored
   in, whoever made the row, adopted it or broadcasts, and whether they
   subscribed before or after.  Only the application can split them, by
   binding an attribute to a key of its own while it has subscribers. *)
BroadcastsGoHome == \A p \in astray : about[p[2]] \in moved

(* No call raises for having lost a race for its row, however many find,
   adopt and insert it together; and a frame is refused only on Action Cable,
   when it overtook its own `subscribed`. *)
FramesAreHandled ==
    \A c \in Caller :
        /\ pc[c] # "raised"
        /\ frame[c] = "refused" => ~ anycable /\ stage[from[c]] \in {"overtaken", "refused"}

(* "An open subscription keeps working" (document_channel_test.rb), on both
   transports: whatever becomes of its grant, no frame of it fails for want
   of the record. *)
OpenKeepsWorking == \A c \in Caller : frame[c] # "unlocated"

(* A subscription that is refused, at whatever point, has no streams, and
   nothing it sent has been recorded. *)
RefusedIsStopped ==
    \A s \in Sub : stage[s] \in {"overtaken", "refused"} =>
        /\ streams[s] = Nothing
        /\ \A c \in Caller : from[c] = s => frame[c] \in {"waiting", "refused"} /\ pc[c] = "find"

=============================================================================
