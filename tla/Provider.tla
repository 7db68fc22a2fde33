------------------------------ MODULE Provider ------------------------------
(***************************************************************************)
(* ActionCableProvider (packages/client/src/actioncable_provider.ts): one  *)
(* document's connect, disconnect, renew and destroy, the cable's          *)
(* callbacks, the presence it takes away and puts back, and the status it  *)
(* reports.                                                                *)
(*                                                                         *)
(* Application code runs between calls, and in the middle of them: in      *)
(* awareness listeners while presence is restored or removed, inside the   *)
(* consumer's create(), in document observers while a frame is applied,    *)
(* in the status listeners of a renew().  `stack` holds the calls in       *)
(* progress, innermost first, each at a point where such code may run.     *)
(***************************************************************************)
EXTENDS Naturals, Sequences

CONSTANTS MaxAttempts,  \* bound: calls of connect() that subscribe
          MaxDepth,     \* bound: calls in progress
          Presence,     \* presence states an application sets
          Null          \* no presence

ASSUME ProviderAssumption ==
    /\ MaxAttempts \in Nat
    /\ MaxDepth \in Nat
    /\ Null \notin Presence
    /\ "no" \notin Presence \cup {Null}

VARIABLES
    phase,      \* #state.phase
    attempt,    \* #state.attempt: the last connect() that subscribed
    reason,     \* #state.reason, while stopping
    subs,       \* per attempt: its cable subscription
    wire,       \* #state.subscription: whose it is, which attempt's; 0: none
    deferred,   \* callbacks made inside create(), which wait for a microtask
    synced,     \* session.synced
    pending,    \* session.hasPending
    last,       \* #last: the status and pending that listeners know
    local,      \* the local awareness state
    stash,      \* #presence: what disconnect() removed
    away,       \* the page is hidden: the presence to restore, or "no"
    stack,      \* the calls in progress
    wish,       \* history: the presence the application last asked for
    doomed,     \* history: destroy() has been called
    astray      \* history: a frame was answered on another subscription
                \* than the one it came from, or marked it synced

conn     == <<phase, attempt, reason, subs, wire>>
presence == <<local, stash, away, wish>>
vars     == <<conn, deferred, synced, pending, last, presence, stack, doomed, astray>>

Phases == {"disconnected", "subscribing", "connecting", "connected", "stopping", "destroyed"}
Attempt == 1..MaxAttempts
Callback == {"connected", "rejected", "step1"}

Calls == [call : {"connect"}, at : {"presence", "create"}, attempt : Attempt]
         \cup [call : {"stop"}, at : {"removing"}, attempt : Attempt]
         \cup [call : {"renew"}, at : {"between"}]
         \cup [call : {"receive"}, at : {"applied"}, attempt : Attempt,
               frame : {"step1", "step2"}, current : BOOLEAN]

(* #computeStatus, in phase p *)
StatusOf(p, caughtUp) ==
    CASE p \in {"subscribing", "connecting"} -> "connecting"
      [] p = "connected" -> IF caughtUp THEN "synced" ELSE "connected"
      [] OTHER -> "disconnected"

TypeOK ==
    /\ phase \in Phases
    /\ attempt \in 0..MaxAttempts
    /\ reason \in {"none", "disconnect", "reject", "destroy"}
    /\ (reason # "none") = (phase = "stopping")
    /\ subs \in [Attempt -> {"none", "open", "closing", "gone"}]
    /\ wire \in 0..MaxAttempts
    /\ deferred \subseteq Callback \X Attempt
    /\ synced \in BOOLEAN
    /\ pending \in BOOLEAN
    /\ last \in {"connecting", "connected", "synced", "disconnected"} \X BOOLEAN
    /\ local \in Presence \cup {Null}
    /\ stash \in Presence \cup {Null}
    /\ away \in Presence \cup {Null, "no"}
    /\ stack \in Seq(Calls)
    /\ Len(stack) <= MaxDepth
    /\ wish \in Presence \cup {Null}
    /\ doomed \in BOOLEAN
    /\ astray \in BOOLEAN

Init ==
    /\ phase = "disconnected"
    /\ attempt = 0
    /\ reason = "none"
    /\ subs = [i \in Attempt |-> "none"]
    /\ wire = 0
    /\ deferred = {}
    /\ synced = FALSE
    /\ pending = FALSE
    /\ last = <<"disconnected", FALSE>>
    /\ local = Null
    /\ stash = Null
    /\ away = "no"
    /\ stack = << >>
    /\ wish = Null
    /\ doomed = FALSE
    /\ astray = FALSE

-----------------------------------------------------------------------------
Awake == away = "no"
Idle == Awake /\ stack = << >>

(* Application code may run: every call in progress is at such a point. *)
AppRuns == Awake /\ Len(stack) < MaxDepth

Subscribing(i) == phase = "subscribing" /\ attempt = i
HasSubscription == phase \in {"connecting", "connected", "stopping"}
Active(i) == phase \in {"connecting", "connected"} /\ attempt = i
Destroying == phase = "destroyed" \/ (phase = "stopping" /\ reason = "destroy")

(* #refreshStatus: tell the listeners. *)
Tell(p, caughtUp, unacked) == last' = <<StatusOf(p, caughtUp), unacked>>

(* session.resume() and pause() begin a new cycle: a frame that is being
   applied belongs to an old one. *)
NewCycle(s) == [n \in DOMAIN s |->
                   IF s[n].call = "receive" THEN [s[n] EXCEPT !.current = FALSE] ELSE s[n]]

-----------------------------------------------------------------------------
(* connect(), in calls `under` that go on after it: a new attempt; put back
   the presence that was removed. *)
Subscribe(under) ==
    /\ phase = "disconnected"
    /\ attempt < MaxAttempts
    /\ attempt' = attempt + 1
    /\ phase' = "subscribing"
    /\ local' = IF stash = Null THEN local ELSE stash
    /\ stash' = Null
    /\ stack' = <<[call |-> "connect", at |-> IF stash = Null THEN "create" ELSE "presence",
                   attempt |-> attempt + 1]>> \o under
    /\ UNCHANGED <<reason, subs, wire, deferred, synced, pending, last, away, wish, doomed, astray>>

Connect == AppRuns /\ Subscribe(stack)

(* The awareness listeners are done; one may have stopped the attempt. *)
Restored ==
    /\ Awake /\ stack # << >>
    /\ Head(stack).call = "connect" /\ Head(stack).at = "presence"
    /\ stack' = IF Subscribing(Head(stack).attempt)
                THEN <<[Head(stack) EXCEPT !.at = "create"]>> \o Tail(stack)
                ELSE Tail(stack)
    /\ UNCHANGED <<conn, deferred, synced, pending, last, presence, doomed, astray>>

(* The consumer calls back inside create(): wait for a microtask. *)
CallbackInCreate(callback) ==
    /\ Awake /\ stack # << >>
    /\ Head(stack).call = "connect" /\ Head(stack).at = "create"
    /\ phase = "subscribing"
    /\ deferred' = deferred \cup {<<callback, Head(stack).attempt>>}
    /\ UNCHANGED <<phase, attempt, reason, subs, wire, synced, pending, last, presence, stack,
                   doomed, astray>>

CreatedKept ==
    /\ Awake /\ stack # << >>
    /\ Head(stack).call = "connect" /\ Head(stack).at = "create"
    /\ LET i == Head(stack).attempt
       IN  /\ subs' = [subs EXCEPT ![i] = "open"]
           /\ IF Subscribing(i)
              THEN /\ phase' = "connecting"
                   /\ wire' = i
                   /\ Tell("connecting", synced, pending)
              ELSE UNCHANGED <<phase, wire, last>>
    /\ stack' = Tail(stack)
    /\ UNCHANGED <<attempt, reason, deferred, synced, pending, presence, doomed, astray>>

(* create() returns; if the attempt was stopped inside it, unsubscribe. *)
Created ==
    /\ Awake /\ stack # << >>
    /\ Head(stack).call = "connect" /\ Head(stack).at = "create"
    /\ LET i == Head(stack).attempt
       IN  IF Subscribing(i)
           THEN /\ subs' = [subs EXCEPT ![i] = "open"]
                /\ phase' = "connecting"
                /\ wire' = i
                /\ Tell("connecting", synced, pending)
           ELSE /\ subs' = [subs EXCEPT ![i] = "closing"]
                /\ UNCHANGED <<phase, wire, last>>
    /\ stack' = Tail(stack)
    /\ UNCHANGED <<attempt, reason, deferred, synced, pending, presence, doomed, astray>>

(* create() throws. *)
CreateFails ==
    /\ Awake /\ stack # << >>
    /\ Head(stack).call = "connect" /\ Head(stack).at = "create"
    /\ IF Subscribing(Head(stack).attempt)
       THEN phase' = "disconnected" /\ Tell("disconnected", synced, pending)
       ELSE UNCHANGED <<phase, last>>
    /\ stack' = Tail(stack)
    /\ UNCHANGED <<attempt, reason, subs, wire, deferred, synced, pending, presence, doomed, astray>>

-----------------------------------------------------------------------------
(* #stop where there is no subscription to end; a destroy drops the queue. *)
StopAtOnce(why, under) ==
    /\ phase = "subscribing" \/ (phase = "disconnected" /\ why = "destroy")
    /\ phase' = IF why = "destroy" THEN "destroyed" ELSE "disconnected"
    /\ pending' = (pending /\ why # "destroy")
    /\ local' = IF why = "destroy" THEN Null ELSE local
    /\ stack' = under
    /\ UNCHANGED <<attempt, reason, subs, wire, synced, stash, away, wish, astray>>
    /\ Tell(phase', synced', pending')

(* #stop with a subscription: stopping; keep and remove the presence. *)
StopBegins(why, under) ==
    /\ phase \in {"connecting", "connected"}
    /\ phase' = "stopping"
    /\ reason' = why
    /\ stash' = local
    /\ local' = Null
    /\ stack' = <<[call |-> "stop", at |-> "removing", attempt |-> attempt]>> \o under
    /\ UNCHANGED <<attempt, subs, wire, synced, pending, last, away, wish, astray>>

StopIgnored(why, under) ==
    /\ phase = "stopping"
    /\ stack' = under
    /\ UNCHANGED <<conn, synced, pending, last, presence, astray>>

(* #stop while stopping: a destroy() upgrades the reason. *)
StopUpgrades(why, under) ==
    /\ phase = "stopping"
    /\ reason' = IF why = "destroy" THEN "destroy" ELSE reason
    /\ stack' = under
    /\ UNCHANGED <<phase, attempt, subs, wire, synced, pending, last, presence, astray>>

(* #stop of what is stopped already. *)
StopNothing(why, under) ==
    /\ phase = "destroyed" \/ (phase = "disconnected" /\ why # "destroy")
    /\ stack' = under
    /\ UNCHANGED <<conn, synced, pending, last, presence, astray>>

Stop(why, under) == \/ StopAtOnce(why, under) \/ StopBegins(why, under)
                    \/ StopUpgrades(why, under) \/ StopNothing(why, under)

(* The rest of #stop: pause, unsubscribe, and end as the reason now says. *)
StopEnds ==
    /\ Awake /\ stack # << >>
    /\ Head(stack).call = "stop"
    /\ subs' = [subs EXCEPT ![Head(stack).attempt] = "closing"]
    /\ wire' = 0
    /\ synced' = FALSE
    /\ phase' = IF reason = "destroy" THEN "destroyed" ELSE "disconnected"
    /\ pending' = (pending /\ reason # "destroy")
    /\ reason' = "none"
    /\ stack' = NewCycle(Tail(stack))
    /\ UNCHANGED <<attempt, deferred, presence, doomed, astray>>
    /\ Tell(phase', synced', pending')

Disconnect == AppRuns /\ Stop("disconnect", stack) /\ UNCHANGED <<deferred, doomed>>

Destroy == AppRuns /\ Stop("destroy", stack) /\ doomed' = TRUE /\ UNCHANGED deferred

(* renew(): disconnect, and after what that calls, connect. *)
Renew ==
    /\ AppRuns
    /\ Len(stack) + 1 < MaxDepth
    /\ ~Destroying
    /\ Stop("disconnect", <<[call |-> "renew", at |-> "between"]>> \o stack)
    /\ UNCHANGED <<deferred, doomed>>

(* The connect() of a renew(), which throws or does nothing unless the
   provider is disconnected. *)
RenewConnects ==
    /\ Awake /\ stack # << >>
    /\ Head(stack).call = "renew"
    /\ \/ Subscribe(Tail(stack))
       \/ /\ phase # "disconnected"
          /\ stack' = Tail(stack)
          /\ UNCHANGED <<conn, deferred, synced, pending, last, presence, doomed, astray>>

(* The microtask of #unsubscribe. *)
Unsubscribe(i) ==
    /\ Idle
    /\ subs[i] = "closing"
    /\ subs' = [subs EXCEPT ![i] = "gone"]
    /\ UNCHANGED <<phase, attempt, reason, wire, deferred, synced, pending, last, presence, stack,
                   doomed, astray>>

-----------------------------------------------------------------------------
(* A callback of subscription i that on() lets through. *)

(* #connected: the session resumes. *)
OnConnected(i) ==
    /\ Active(i)
    /\ phase = "connecting"
    /\ phase' = "connected"
    /\ synced' = FALSE
    /\ UNCHANGED <<attempt, reason, subs, wire, pending, presence, stack, doomed, astray>>
    /\ Tell(phase', synced', pending')

(* #lost: the session pauses; the consumer will connect again. *)
OnLost(i) ==
    /\ Active(i)
    /\ phase' = "connecting"
    /\ synced' = FALSE
    /\ UNCHANGED <<attempt, reason, subs, wire, pending, presence, stack, doomed, astray>>
    /\ Tell(phase', synced', pending')

OnRejected(i) == Active(i) /\ Stop("reject", stack) /\ UNCHANGED doomed

(* #receive of a sync frame, up to the document's observers. *)
OnFrame(i, frame) ==
    /\ Active(i)
    /\ stack' = <<[call |-> "receive", at |-> "applied", attempt |-> i, frame |-> frame,
                   current |-> TRUE]>> \o stack
    /\ UNCHANGED <<phase, attempt, reason, subs, wire, synced, pending, last, presence, doomed, astray>>

(* #receive of an ack for everything that is queued. *)
OnAck(i) ==
    /\ Active(i)
    /\ pending
    /\ pending' = FALSE
    /\ UNCHANGED <<phase, attempt, reason, subs, wire, synced, presence, stack, doomed, astray>>
    /\ Tell(phase', synced', pending')

(* The cable calls back; subscriptions that are not removed yet still do.  The
   server opens with a SyncStep1 of its own, which may precede `connected`; a
   SyncStep2 answers the one the session sent when it resumed. *)
CableEvent(i) ==
    /\ Idle
    /\ subs[i] \in {"open", "closing"}
    /\ \/ OnConnected(i) \/ OnLost(i) \/ OnRejected(i) \/ OnAck(i)
       \/ OnFrame(i, "step1")
       \/ phase = "connected" /\ OnFrame(i, "step2")
    /\ UNCHANGED deferred

(* A deferred callback runs, if its attempt is the active one. *)
DeferredCallback(callback, i) ==
    /\ Idle
    /\ <<callback, i>> \in deferred
    /\ deferred' = deferred \ {<<callback, i>>}
    /\ \/ callback = "connected" /\ OnConnected(i)
       \/ callback = "rejected" /\ OnRejected(i)
       \/ callback = "step1" /\ OnFrame(i, "step1")
       \/ /\ ~Active(i) \/ (callback = "connected" /\ phase = "connected")
          /\ UNCHANGED <<phase, attempt, reason, subs, wire, synced, pending, last, presence, stack,
                         doomed, astray>>

MarksSyncedLate(f) == f.frame = "step2"

(* session.receive, once the frame is applied: a SyncStep2 makes the session
   synced, in the cycle it came in. *)
MarksSynced(f) == f.frame = "step2" /\ f.current

(* A SyncStep1 has an answer in its cycle, and the provider sends it if the
   frame's attempt is still the active one. *)
Answers(f) == f.frame = "step1" /\ f.current /\ Active(f.attempt)

(* The rest of #receive; the answer leaves on the present subscription. *)
Received ==
    /\ Awake /\ stack # << >>
    /\ Head(stack).call = "receive"
    /\ LET f == Head(stack)
       IN  /\ synced' = (synced \/ MarksSynced(f))
           /\ astray' = (astray \/ ((MarksSynced(f) \/ Answers(f)) /\ wire # f.attempt))
    /\ stack' = Tail(stack)
    /\ UNCHANGED <<conn, deferred, pending, presence, doomed>>
    /\ Tell(phase', synced', pending')

-----------------------------------------------------------------------------
(* A local edit: the session queues it, and the status is refreshed. *)
Edit ==
    /\ AppRuns
    /\ phase # "destroyed"
    /\ ~pending
    /\ pending' = TRUE
    /\ UNCHANGED <<conn, deferred, synced, presence, stack, doomed, astray>>
    /\ Tell(phase', synced', pending')

SetPresenceKeepsStash(p) ==
    /\ Idle
    /\ phase # "destroyed"
    /\ local' = p
    /\ wish' = p
    /\ UNCHANGED <<conn, deferred, synced, pending, last, stash, away, stack, doomed, astray>>

(* The application sets or clears its presence; while disconnected that
   replaces what the next connect() would put back. *)
SetPresence(p) ==
    /\ Idle
    /\ phase # "destroyed"
    /\ local' = p
    /\ wish' = p
    /\ stash' = IF phase = "disconnected" THEN Null ELSE stash
    /\ UNCHANGED <<conn, deferred, synced, pending, last, away, stack, doomed, astray>>

(* pagehide: presence goes while the socket is live; the page freezes. *)
Hide ==
    /\ Idle
    /\ phase \in {"connecting", "connected"}
    /\ away' = local
    /\ local' = Null
    /\ UNCHANGED <<conn, deferred, synced, pending, last, stash, wish, stack, doomed, astray>>

(* pageshow, from the back/forward cache. *)
Show ==
    /\ ~Awake
    /\ local' = IF away # Null /\ local = Null THEN away ELSE local
    /\ away' = "no"
    /\ UNCHANGED <<conn, deferred, synced, pending, last, stash, wish, stack, doomed, astray>>

-----------------------------------------------------------------------------
AppStep == \/ Connect \/ Disconnect \/ Destroy \/ Renew \/ Edit
           \/ \E p \in Presence \cup {Null} : SetPresence(p)

CallStep == \/ Restored \/ Created \/ CreateFails \/ StopEnds \/ RenewConnects \/ Received
            \/ \E callback \in Callback : CallbackInCreate(callback)

CableStep == \E i \in Attempt :
    \/ CableEvent(i)
    \/ Unsubscribe(i)
    \/ \E callback \in Callback : DeferredCallback(callback, i)

Next == AppStep \/ CallStep \/ CableStep \/ Hide \/ Show

Spec == Init /\ [][Next]_vars

-----------------------------------------------------------------------------
(* An open subscription is the provider's own: one that was created while the
   attempt was being stopped, or is of an earlier attempt, is on its way out. *)
NoSubscriptionLeaks ==
    \A i \in Attempt : subs[i] = "open" => HasSubscription /\ attempt = i

(* destroy() takes effect whatever the provider was in the middle of: when the
   stop it was called in ends, the provider is destroyed, not disconnected. *)
DestroyTakesEffect ==
    doomed => \/ phase = "destroyed"
              \/ phase = "stopping" /\ reason = "destroy"

(* Between calls, while the page is shown, the presence of a provider that is
   connecting or connected is what the application last asked for: put back
   after a disconnect, a renewal or the page cache, and cleared if cleared. *)
PresenceIsKept ==
    Idle /\ phase \in {"connecting", "connected"} => local = wish

(* Whatever the document's observers did while a frame was applied, what the
   frame does afterwards it does to the subscription it came from: the answer
   leaves on that one, and a SyncStep2 marks synced a session that is still on
   it, never one that has been renewed or stopped since. *)
FramesStayHome == ~astray
=============================================================================
