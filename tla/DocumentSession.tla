-------------------------- MODULE DocumentSession --------------------------
(***************************************************************************)
(* The sessions of one document in one page (packages/client/src/          *)
(* document_session.ts): a store with at most one session for the          *)
(* document's key, the leases editors hold on it, and the life of a        *)
(* session: open, refreshing its grant, renewed, blocked, closed.          *)
(*                                                                         *)
(* The page is single-threaded.  Network events, timers and the queued     *)
(* settles (microtasks) run when no call is in progress; but releasing a   *)
(* lease aborts its signal, whose listeners are application code and may   *)
(* call back: acquire, release, edit, retry, discard.  `stack` holds the   *)
(* calls in progress, so these happen in the middle of a settle or of a    *)
(* close, as they do in the page.                                          *)
(***************************************************************************)
EXTENDS Naturals, Sequences, FiniteSets

CONSTANTS Session,      \* the sessions ever made for the document
          Lease,        \* the leases ever taken
          Nothing,      \* no session
          HasUrl,       \* does the descriptor name a refresh URL?
          CreateFails   \* may subscriptions.create throw?

ASSUME SessionAssumption ==
    /\ Session \subseteq Nat
    /\ Lease \subseteq Nat
    /\ Nothing \notin Session
    /\ HasUrl \in BOOLEAN
    /\ CreateFails \in BOOLEAN

VARIABLES
    current,   \* the store's entry for the document's key
    phase,     \* per session: its lifecycle, "new" before it is made
    leases,    \* per session: #leases
    retiring,  \* per session: #retiring
    pending,   \* per session: provider.hasPending
    link,      \* per session: the provider's phase
    fetches,   \* per session: the grant requests on their way, "current" for
               \* the lifecycle that started them or "stale"
    queued,    \* the sessions with a settle queued
    dirty,     \* the sessions whose latest change is not reported yet
    aborted,   \* the leases whose signal is aborted
    stack,     \* the calls in progress, innermost first
    asked      \* history: the sessions that asked for a grant since the server
               \* last accepted one or the application last called retry()

held    == <<current, leases, aborted>>
wire    == <<pending, link, fetches>>
notices == <<queued, dirty>>
vars    == <<held, phase, retiring, wire, notices, stack, asked>>

Phase == {"open", "refreshing", "renewed", "blocked", "closed"}

(* What the application sees of a phase. *)
State(p) == IF p \in {"open", "refreshing", "renewed"} THEN "open" ELSE p

(* The phases in which a new lease connects. *)
Connects == {"open", "renewed"}

OnRefreshesAgain(p, event) ==
    CASE event = "refresh" /\ p \in {"open", "renewed"} -> "refreshing"
      [] event = "renew"  /\ p = "refreshing"           -> "renewed"
      [] event = "accept" /\ p = "renewed"              -> "open"
      [] event = "block"  /\ State(p) = "open"          -> "blocked"
      [] event = "retry"  /\ p = "blocked"              -> "open"
      [] event = "close"  /\ p \in Phase \ {"closed"}   -> "closed"
      [] OTHER -> p

(* PHASES: where an event leads; an event that is not listed is ignored. *)
On(p, event) ==
    CASE event = "refresh" /\ p = "open"              -> "refreshing"
      [] event = "renew"  /\ p = "refreshing"         -> "renewed"
      [] event = "accept" /\ p = "renewed"            -> "open"
      [] event = "block"  /\ State(p) = "open"        -> "blocked"
      [] event = "retry"  /\ p = "blocked"            -> "open"
      [] event = "close"  /\ p \in Phase \ {"closed"} -> "closed"
      [] OTHER -> p

Frames == [call : {"release"}, session : Session, lease : Lease]
          \cup [call : {"settle", "close"}, session : Session, rest : SUBSET Lease]

TypeOK ==
    /\ current \in Session \cup {Nothing}
    /\ phase \in [Session -> Phase \cup {"new"}]
    /\ leases \in [Session -> SUBSET Lease]
    /\ retiring \in [Session -> SUBSET Lease]
    /\ \A s \in Session : phase[s] # "blocked" => retiring[s] = {}
    /\ pending \in [Session -> BOOLEAN]
    /\ link \in [Session -> {"disconnected", "connecting", "connected", "destroyed"}]
    /\ fetches \in [Session -> SUBSET {"current", "stale"}]
    /\ queued \subseteq Session
    /\ dirty \subseteq Session
    /\ aborted \subseteq Lease
    /\ stack \in Seq(Frames)
    /\ asked \subseteq Session

Init ==
    /\ current = Nothing
    /\ phase = [s \in Session |-> "new"]
    /\ leases = [s \in Session |-> {}]
    /\ retiring = [s \in Session |-> {}]
    /\ pending = [s \in Session |-> FALSE]
    /\ link = [s \in Session |-> "disconnected"]
    /\ fetches = [s \in Session |-> {}]
    /\ queued = {}
    /\ dirty = {}
    /\ aborted = {}
    /\ stack = << >>
    /\ asked = {}

-----------------------------------------------------------------------------
(* What runs: nothing, or the innermost call; application code runs from
   nothing, and as the listeners of a signal being aborted. *)
Running == IF stack = << >> THEN "nothing" ELSE Head(stack).call
Idle == Running = "nothing"
AppRuns == Running \in {"nothing", "release"}

ChangedLazily(s) == /\ dirty' = dirty \cup {s}
                    /\ queued' = IF s \in dirty THEN queued ELSE queued \cup {s}

(* #changed: report it, in one queued settle. *)
Changed(s) == /\ dirty' = dirty \cup {s}
              /\ queued' = queued \cup {s}

(* What the session does when its provider reports a status. *)
StatusChanged(s) == IF State(phase[s]) = "open" THEN Changed(s) ELSE UNCHANGED notices

(* #transition to phase p, which is another than before; a grant request of
   the old lifecycle object is stale from here on. *)
Enter(s, p) ==
    /\ phase' = [phase EXCEPT ![s] = p]
    /\ retiring' = [retiring EXCEPT ![s] = IF p = "blocked" THEN leases'[s] ELSE {}]
    /\ Changed(s)

Outdated(s) == {"stale" : f \in fetches[s]}

(* #connect, in or into phase p: subscribe, or block when that throws. *)
ConnectIn(s, p) ==
    \/ /\ link' = [link EXCEPT ![s] = IF @ = "disconnected" THEN "connecting" ELSE @]
       /\ IF p = phase[s]
          THEN Changed(s) /\ UNCHANGED <<phase, retiring>>
          ELSE Enter(s, p)
    \/ /\ CreateFails
       /\ link[s] = "disconnected"
       /\ Enter(s, "blocked")
       /\ UNCHANGED link

-----------------------------------------------------------------------------
(* Sessions and leases are numbered in the order they are made. *)
Following(n, unused) == n \in unused /\ \A k \in unused : n <= k

(* acquire: attach a lease to the key's session, which is made on first use;
   in a phase that connects, connect. *)
Acquire(l) ==
    /\ AppRuns
    /\ Following(l, {k \in Lease : k \notin aborted /\ \A s \in Session : k \notin leases[s]})
    /\ \E s \in Session :
        /\ IF current = Nothing THEN Following(s, {r \in Session : phase[r] = "new"})
                                ELSE s = current
        /\ current' = s
        /\ leases' = [leases EXCEPT ![s] = @ \cup {l}]
        /\ LET now == IF phase[s] = "new" THEN "open" ELSE phase[s]
           IN  IF now \in Connects
               THEN ConnectIn(s, now)
               ELSE Changed(s) /\ UNCHANGED <<phase, retiring, link>>
    /\ UNCHANGED <<aborted, pending, fetches, stack, asked>>

(* lease.release(): abort the signal; its listeners run before the rest. *)
Abort(s, l) ==
    /\ aborted' = aborted \cup {l}
    /\ stack' = <<[call |-> "release", session |-> s, lease |-> l]>> \o stack

Release(l) ==
    /\ AppRuns
    /\ l \notin aborted
    /\ \E s \in Session : l \in leases[s] /\ Abort(s, l)
    /\ UNCHANGED <<current, leases, phase, retiring, wire, notices, asked>>

ReleaseSilently ==
    /\ Running = "release"
    /\ LET s == Head(stack).session
       IN  leases' = [leases EXCEPT ![s] = @ \ {Head(stack).lease}]
    /\ stack' = Tail(stack)
    /\ UNCHANGED <<current, aborted, phase, retiring, wire, notices, asked>>

(* The listeners are done: #release. *)
Released ==
    /\ Running = "release"
    /\ LET s == Head(stack).session
       IN  /\ leases' = [leases EXCEPT ![s] = @ \ {Head(stack).lease}]
           /\ Changed(s)
    /\ stack' = Tail(stack)
    /\ UNCHANGED <<current, aborted, phase, retiring, wire, asked>>

(* The editor, its cleanup included, changes the document; the provider queues
   the edit. *)
Edit(s) ==
    /\ AppRuns
    /\ leases[s] # {}
    /\ link[s] # "destroyed"
    /\ ~pending[s]
    /\ pending' = [pending EXCEPT ![s] = TRUE]
    /\ StatusChanged(s)
    /\ UNCHANGED <<held, phase, retiring, link, fetches, stack, asked>>

(* retry() *)
Retry(s) ==
    /\ AppRuns
    /\ phase[s] = "blocked"
    /\ leases' = leases
    /\ ConnectIn(s, On(phase[s], "retry"))
    /\ fetches' = [fetches EXCEPT ![s] = Outdated(s)]
    /\ asked' = asked \ {s}
    /\ UNCHANGED <<current, aborted, pending, stack>>

CloseBeforeRemove(s) ==
    /\ leases' = leases
    /\ Enter(s, On(phase[s], "close"))
    /\ fetches' = [fetches EXCEPT ![s] = Outdated(s)]
    /\ current' = current

(* #close, up to the leases: closed, and out of the store. *)
Close(s) ==
    /\ leases' = leases
    /\ Enter(s, On(phase[s], "close"))
    /\ fetches' = [fetches EXCEPT ![s] = Outdated(s)]
    /\ current' = IF current = s THEN Nothing ELSE current

(* #close's loop: every lease the session has at that moment. *)
CloseFrame(s) == [call |-> "close", session |-> s, rest |-> leases[s]]

(* discard() *)
Discard(s) ==
    /\ AppRuns
    /\ phase[s] \in Phase \ {"closed"}
    /\ Close(s)
    /\ stack' = <<CloseFrame(s)>> \o stack
    /\ UNCHANGED <<aborted, pending, link, asked>>

(* One lease of a settle's or a close's loop; release() of an aborted lease
   does nothing. *)
ReleaseNext ==
    /\ Running \in {"settle", "close"}
    /\ \E l \in Head(stack).rest :
        LET rest == <<[Head(stack) EXCEPT !.rest = @ \ {l}]>> \o Tail(stack)
        IN  IF l \in aborted
            THEN stack' = rest /\ UNCHANGED aborted
            ELSE /\ aborted' = aborted \cup {l}
                 /\ stack' = <<[call |-> "release", session |-> Head(stack).session,
                                lease |-> l]>> \o rest
    /\ UNCHANGED <<current, leases, phase, retiring, wire, notices, asked>>

(* The rest of #close: destroy the provider, which drops its queue, and the
   document. *)
Closed ==
    /\ Running = "close"
    /\ Head(stack).rest = {}
    /\ LET s == Head(stack).session
       IN  /\ link' = [link EXCEPT ![s] = "destroyed"]
           /\ pending' = [pending EXCEPT ![s] = FALSE]
    /\ stack' = Tail(stack)
    /\ UNCHANGED <<held, phase, retiring, fetches, notices, asked>>

-----------------------------------------------------------------------------
NeededByEditors(s) == leases[s] # {}

(* #needed *)
Needed(s) == leases[s] # {} \/ pending[s]

SettleFrame(s, rest) == [call |-> "settle", session |-> s, rest |-> rest]

(* A queued settle of a blocked session: release what it held when it
   blocked. *)
SettleBlocked(s) ==
    /\ phase[s] = "blocked"
    /\ retiring' = [retiring EXCEPT ![s] = {}]
    /\ stack' = <<SettleFrame(s, retiring[s])>>
    /\ queued' = queued \ {s}
    /\ UNCHANGED <<held, phase, wire, dirty, asked>>

(* A queued settle of an open session nobody needs: close it. *)
SettleUnneeded(s) ==
    /\ State(phase[s]) = "open"
    /\ ~Needed(s)
    /\ Close(s)
    /\ stack' = <<CloseFrame(s), SettleFrame(s, {})>>
    /\ UNCHANGED <<aborted, pending, link, asked>>

(* A queued settle with nothing to enforce. *)
SettleQuiet(s) ==
    /\ phase[s] = "closed" \/ (State(phase[s]) = "open" /\ Needed(s))
    /\ stack' = <<SettleFrame(s, {})>>
    /\ queued' = queued \ {s}
    /\ UNCHANGED <<held, phase, retiring, wire, dirty, asked>>

(* #settle, the microtask, up to #enforce. *)
Settle(s) ==
    /\ Idle
    /\ s \in queued
    /\ SettleBlocked(s) \/ SettleUnneeded(s) \/ SettleQuiet(s)

(* The rest of #settle: tell the store's observers. *)
Notify ==
    /\ Running = "settle"
    /\ Head(stack).rest = {}
    /\ dirty' = dirty \ {Head(stack).session}
    /\ stack' = Tail(stack)
    /\ UNCHANGED <<held, phase, retiring, wire, queued, asked>>

-----------------------------------------------------------------------------
(* The server accepts the subscription: a renewed grant is valid. *)
Accepted(s) ==
    /\ Idle
    /\ link[s] = "connecting"
    /\ link' = [link EXCEPT ![s] = "connected"]
    /\ leases' = leases
    /\ IF phase[s] = "renewed"
       THEN /\ Enter(s, On(phase[s], "accept"))
            /\ fetches' = [fetches EXCEPT ![s] = Outdated(s)]
       ELSE StatusChanged(s) /\ UNCHANGED <<phase, retiring, fetches>>
    /\ asked' = asked \ {s}
    /\ UNCHANGED <<current, aborted, pending, stack>>

(* The connection drops; the consumer opens another and subscribes again. *)
Lost(s) ==
    /\ Idle
    /\ link[s] = "connected"
    /\ link' = [link EXCEPT ![s] = "connecting"]
    /\ StatusChanged(s)
    /\ UNCHANGED <<held, phase, retiring, pending, fetches, stack, asked>>

(* Everything queued is acknowledged. *)
Acked(s) ==
    /\ Idle
    /\ link[s] = "connected"
    /\ pending[s]
    /\ pending' = [pending EXCEPT ![s] = FALSE]
    /\ StatusChanged(s)
    /\ UNCHANGED <<held, phase, retiring, link, fetches, stack, asked>>

(* The server rejects the subscription: ask for another grant, once, or block. *)
Rejected(s) ==
    /\ Idle
    /\ link[s] = "connecting"
    /\ link' = [link EXCEPT ![s] = "disconnected"]
    /\ leases' = leases
    /\ LET refreshes == HasUrl /\ On(phase[s], "refresh") # phase[s]
       IN  /\ Enter(s, On(phase[s], IF refreshes THEN "refresh" ELSE "block"))
           /\ fetches' = [fetches EXCEPT ![s] =
                              Outdated(s) \cup IF refreshes THEN {"current"} ELSE {}]
           /\ asked' = IF refreshes THEN asked \cup {s} ELSE asked
    /\ UNCHANGED <<current, aborted, pending, stack>>

(* #refresh ends: a grant, or an error or the time limit.  What it brings to
   a later lifecycle is dropped. *)
Fetched(s) ==
    /\ Idle
    /\ leases' = leases
    /\ \E f \in fetches[s] :
        \/ /\ f = "stale"
           /\ fetches' = [fetches EXCEPT ![s] = @ \ {f}]
           /\ UNCHANGED <<phase, retiring, link, notices>>
        \/ /\ f = "current"
           /\ fetches' = [fetches EXCEPT ![s] = {"stale" : g \in @ \ {f}}]
           /\ \/ ConnectIn(s, On(phase[s], "renew"))
              \/ Enter(s, On(phase[s], "block")) /\ UNCHANGED link
    /\ UNCHANGED <<current, aborted, pending, stack, asked>>

-----------------------------------------------------------------------------
AppStep == \/ \E l \in Lease : Acquire(l) \/ Release(l)
           \/ \E s \in Session : Edit(s) \/ Retry(s) \/ Discard(s)

(* A call in progress goes on. *)
CallStep == Released \/ ReleaseNext \/ Closed \/ Notify

NetworkStep(s) == Accepted(s) \/ Lost(s) \/ Acked(s) \/ Rejected(s) \/ Fetched(s)

Next == \/ AppStep
        \/ CallStep
        \/ \E s \in Session : Settle(s) \/ NetworkStep(s)

Spec == Init /\ [][Next]_vars

(* Calls return, microtasks run, a fetch has a time limit.  The server answers
   a subscription, and acknowledges what a connection that stays up sends. *)
Fairness ==
    /\ WF_vars(CallStep)
    /\ \A s \in Session : /\ WF_vars(Settle(s))
                          /\ WF_vars(Fetched(s))
                          /\ WF_vars(Accepted(s) \/ Rejected(s))
                          /\ SF_vars(Acked(s))

FairSpec == Spec /\ Fairness

-----------------------------------------------------------------------------
(* The store's session of the document is never a closed one, and every
   session that is not closed is the store's: whatever editor cleanup does in
   the middle of a close, acquire() cannot fail and no two sessions ever hold
   the same document ("Leave the store first so editor cleanup below can
   acquire a new session"). *)
OneLiveSession ==
    \A s \in Session : phase[s] \in Phase \ {"closed"} <=> s = current

(* "An ordinary detach keeps pending work": nothing but discard() closes a
   session that has unacknowledged edits, those of the editor's cleanup
   included, or that an editor holds. *)
ClosesOnlyWhenDone ==
    [][\A s \in Session :
          phase[s] # "closed" /\ phase'[s] = "closed" =>
              \/ leases[s] = {} /\ ~pending[s]
              \/ Discard(s)]_vars

(* A session nobody needs closes by itself, unless it blocks. *)
UnneededCloses ==
    \A s \in Session :
        (State(phase[s]) = "open" /\ ~Needed(s))
            ~> (Needed(s) \/ phase[s] \in {"blocked", "closed"})

(* Blocking ends the leases that were held: their editors hear of it. *)
BlockingReleases ==
    \A s \in Session, l \in Lease :
        l \in retiring[s] ~> (l \in aborted \/ phase[s] # "blocked")

(* "The session fetches it at most once per rejection": no second grant is
   asked for before the server has accepted one or the application retries. *)
AsksOnce == [][\A s \in Session : s \in asked => fetches'[s] \subseteq fetches[s] \cup {"stale"}]_vars
=============================================================================
