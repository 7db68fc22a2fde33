-------------------------- MODULE DocumentElement --------------------------
(***************************************************************************)
(* <yrby-document> (packages/client/src/document_element.ts) and the       *)
(* adapter that tells it whether its page is live (turbo_adapter.ts).      *)
(* Elements of one page bind editors to documents: an attempt loads the    *)
(* consumer, takes a lease on the document's session, waits for its first  *)
(* sync and announces it.  Turbo, the application, the sessions and the    *)
(* promises interfere between any two steps.                               *)
(*                                                                         *)
(* An element is a record, and each of the code's methods a function from  *)
(* the record before to the record after.  Of a session the element sees   *)
(* whether it is blocked, when it ends leases, and when it has synced; the *)
(* rest of it is DocumentSession.                                          *)
(***************************************************************************)
EXTENDS Naturals, FiniteSets

CONSTANTS Element,    \* the elements of the page
          Doc,        \* documents: a grant, a name and a channel
          Nothing     \* no document, and no attempt

(* BindAttempt: how far an attempt has come, and whether it has ended. *)
Attempts == [doc : Doc, consumer : BOOLEAN, lease : {"none", "held", "aborted"},
             synced : BOOLEAN, announced : BOOLEAN, ended : BOOLEAN]

ASSUME ElementAssumption == Nothing \notin Doc \cup Attempts

VARIABLES
    el,         \* per element: its state, and its place in the page
    session,    \* per document: its session: open; blocking, when it still has
                \* to end its leases; blocked
    preview,    \* does the page show a preview?
    rendering,  \* Turbo has swapped the page and has yet to fire turbo:render
    timer,      \* the turns before the adapter looks again, 0 for no timer
    clone,      \* Turbo fired before-cache and has yet to clone the page
    inClone     \* history: the elements that clone will copy

turbo == <<preview, rendering, timer, clone, inClone>>
vars == <<el, session, turbo>>

(* The element's fields, its leases counted, and its place in the page. *)
ElementState ==
    [connected : BOOLEAN, target : Doc \cup {Nothing}, live : BOOLEAN,
     attempt : Attempts \cup {Nothing}, stalled : Doc \cup {Nothing},
     mounted : BOOLEAN, queued : BOOLEAN, inert : BOOLEAN, holding : BOOLEAN,
     saved : BOOLEAN, app : BOOLEAN, leases : 0..1, stray : BOOLEAN, jolted : BOOLEAN]

TypeOK ==
    /\ el \in [Element -> ElementState]
    /\ \A e \in Element : el[e].holding => el[e].inert
    /\ session \in [Doc -> {"open", "blocking", "blocked"}]
    /\ preview \in BOOLEAN
    /\ rendering \in BOOLEAN
    /\ timer \in 0..2
    /\ clone \in BOOLEAN
    /\ inClone \subseteq Element

(* An element as the server renders it, with the application's own inert
   value; or as it comes out of Turbo's cache, inert and with that value
   saved in an attribute. *)
Fresh(d, inert, cloned) ==
    [connected |-> FALSE, target |-> d, live |-> FALSE, attempt |-> Nothing,
     stalled |-> Nothing, mounted |-> FALSE, queued |-> FALSE,
     inert |-> inert \/ cloned, holding |-> cloned, saved |-> cloned /\ inert,
     app |-> inert, leases |-> 0, stray |-> FALSE, jolted |-> FALSE]

Init ==
    /\ el \in [Element -> {Fresh(d, inert, cloned) :
                             d \in Doc, inert \in BOOLEAN, cloned \in BOOLEAN}]
    /\ session = [d \in Doc |-> "open"]
    /\ preview = FALSE
    /\ rendering = FALSE
    /\ timer = 0
    /\ clone = FALSE
    /\ inClone = {}

-----------------------------------------------------------------------------
(* #requestSettle *)
Request(x) == [x EXCEPT !.queued = TRUE]

HoldOver(x) == [x EXCEPT !.holding = TRUE, !.inert = TRUE, !.saved = x.inert]

(* #holdInert *)
Hold(x) == [x EXCEPT !.holding = TRUE, !.inert = TRUE,
                     !.saved = IF x.holding THEN @ ELSE x.inert]

(* #restoreInert *)
Restore(x) == IF x.holding THEN [x EXCEPT !.holding = FALSE, !.inert = x.saved] ELSE x

(* An attempt whose lease is neither released nor ended by its session. *)
Leased(x) == x.attempt # Nothing /\ x.attempt.lease = "held"

AbandonUnreleased(x) ==
    IF x.attempt = Nothing THEN x
    ELSE Hold([x EXCEPT !.attempt = Nothing, !.stray = TRUE])

(* #abandon: the attempt's promises go on, and only request a settle. *)
Abandon(x) ==
    IF x.attempt = Nothing THEN x
    ELSE Hold([x EXCEPT !.attempt = Nothing, !.stray = TRUE,
                        !.leases = IF Leased(x) THEN @ - 1 ELSE @])

(* activate() and deactivate() *)
Activate(x) == Request([x EXCEPT !.live = TRUE, !.stalled = Nothing, !.jolted = FALSE])

Deactivate(x) == Abandon([x EXCEPT !.live = FALSE])

(* destroy() *)
Destroy(x) == Abandon([x EXCEPT !.live = FALSE, !.mounted = FALSE, !.jolted = FALSE])

(* The adapter's reconcile, over its mounts.  (`jolted` is history: the element
   was out of the page, and may be back before its settle runs.) *)
Reconciled(x, p) ==
    IF ~x.mounted THEN x
    ELSE IF x.connected /\ ~p THEN Activate(x)
    ELSE Deactivate([x EXCEPT !.jolted = ~x.connected])

Reconcile(f, p) == [e \in Element |-> Reconciled(f[e], p)]

(* The elements the clone copies, less those another event made live again. *)
StillCloned(f) == {e \in inClone : ~f[e].live}

(* Unless an element is left the adapter is gone, and its timer with it. *)
TimerFor(f) == IF \E e \in Element : f[e].mounted THEN timer ELSE 0

-----------------------------------------------------------------------------
(* #settle, by what should be bound and what is. *)
Start(x) ==
    [x EXCEPT !.attempt = [doc |-> x.target, consumer |-> FALSE, lease |-> "none",
                           synced |-> FALSE, announced |-> FALSE, ended |-> FALSE]]

Stall(x) == Abandon([x EXCEPT !.stalled = x.attempt.doc])

Acquire(x) ==
    LET leased == [x EXCEPT !.attempt.lease = "held", !.leases = @ + 1]
    IN  IF session[x.attempt.doc] = "open" THEN leased
        ELSE Request([leased EXCEPT !.attempt.ended = TRUE])

Announce(x) == Restore([x EXCEPT !.attempt.announced = TRUE])

(* One step of the attempt; taking the lease may throw. *)
Step(x) ==
    IF x.attempt = Nothing THEN {Start(x)}
    ELSE IF x.attempt.ended THEN {Stall(x)}
    ELSE IF x.attempt.consumer /\ x.attempt.lease = "none" THEN {Acquire(x), Stall(x)}
    ELSE IF x.attempt.synced /\ ~x.attempt.announced THEN {Announce(x)}
    ELSE {x}

(* The document that should be bound. *)
Wants(x) == IF x.live THEN x.target ELSE Nothing

Settled(x) ==
    IF ~x.connected THEN {Destroy(x)}
    ELSE IF x.attempt # Nothing /\ x.attempt.doc # Wants(x) THEN {Request(Abandon(x))}
    ELSE IF Wants(x) = Nothing \/ Wants(x) = x.stalled THEN {x}
    ELSE Step(x)

(* The settle microtask. *)
Settle(e) ==
    /\ el[e].queued
    /\ \E x \in Settled([el[e] EXCEPT !.queued = FALSE]) :
        /\ el' = [el EXCEPT ![e] = x]
        /\ timer' = TimerFor(el')
    /\ UNCHANGED <<session, preview, rendering, clone, inClone>>

-----------------------------------------------------------------------------
(* What the page does to an element. *)

(* connectedCallback: a same-turn move keeps its attempt. *)
Inserted(x) ==
    LET z == [x EXCEPT !.connected = TRUE, !.stalled = Nothing]
        held == IF z.attempt = Nothing THEN Hold(z) ELSE z
    IN  Request([held EXCEPT !.mounted = TRUE])

(* The first time, it also registers with the adapter, which reconciles. *)
Insert(e) ==
    /\ ~el[e].connected
    /\ LET new == [el EXCEPT ![e] = Inserted(@)]
       IN  el' = IF el[e].mounted THEN new ELSE Reconcile(new, preview)
    /\ inClone' = StillCloned(el')
    /\ UNCHANGED <<session, preview, rendering, timer, clone>>

(* disconnectedCallback *)
Remove(e) ==
    /\ el[e].connected
    /\ el' = [el EXCEPT ![e] = Request([@ EXCEPT !.connected = FALSE])]
    /\ UNCHANGED <<session, turbo>>

(* attributeChangedCallback: the attributes name another document, or none. *)
Retarget(e, d) ==
    /\ d # el[e].target
    /\ el' = [el EXCEPT ![e] = Request(Abandon([@ EXCEPT !.target = d, !.stalled = Nothing]))]
    /\ UNCHANGED <<session, turbo>>

(* retry(), which does nothing while an attempt is alive. *)
Retry(e) ==
    /\ el[e].attempt # Nothing => el[e].attempt.ended \/ el[e].attempt.lease = "aborted"
    /\ el' = [el EXCEPT ![e] = Request(Abandon([@ EXCEPT !.stalled = Nothing]))]
    /\ UNCHANGED <<session, turbo>>

(* destroy(), called by the application. *)
AppDestroys(e) ==
    /\ el[e].mounted
    /\ el' = [el EXCEPT ![e] = Destroy(@)]
    /\ timer' = TimerFor(el')
    /\ UNCHANGED <<session, preview, rendering, clone, inClone>>

-----------------------------------------------------------------------------
(* The promises of an attempt. *)

(* loadConsumer resolves or fails. *)
ConsumerLoads(e) ==
    /\ el[e].attempt # Nothing
    /\ ~el[e].attempt.consumer /\ ~el[e].attempt.ended
    /\ \/ el' = [el EXCEPT ![e] = Request([@ EXCEPT !.attempt.consumer = TRUE])]
       \/ el' = [el EXCEPT ![e] = Request([@ EXCEPT !.attempt.ended = TRUE])]
    /\ UNCHANGED <<session, turbo>>

(* session.whenSynced resolves; a session found blocked is not waited for. *)
FirstSync(e) ==
    /\ el[e].attempt # Nothing
    /\ ~el[e].attempt.synced
    /\ el[e].attempt.lease = "aborted" \/ (Leased(el[e]) /\ ~el[e].attempt.ended)
    /\ el' = [el EXCEPT ![e] = Request([@ EXCEPT !.attempt.synced = TRUE])]
    /\ UNCHANGED <<session, turbo>>

(* A promise of an abandoned attempt. *)
StrayResult(e) ==
    /\ el[e].stray
    /\ \E more \in BOOLEAN : el' = [el EXCEPT ![e] = Request([@ EXCEPT !.stray = more])]
    /\ UNCHANGED <<session, turbo>>

-----------------------------------------------------------------------------
(* The sessions (DocumentSession). *)

EndLease(x) == Request([x EXCEPT !.attempt.lease = "aborted", !.attempt.ended = TRUE,
                                 !.leases = @ - 1])

Holders(d) == {e \in Element : Leased(el[e]) /\ el[e].attempt.doc = d}

(* A session blocks; *)
Block(d) ==
    /\ session[d] = "open"
    /\ session' = [session EXCEPT ![d] = "blocking"]
    /\ UNCHANGED <<el, turbo>>

(* its settle ends the leases it had when it blocked. *)
BlockEndsLeases(d) ==
    /\ session[d] = "blocking"
    /\ session' = [session EXCEPT ![d] = "blocked"]
    /\ el' = [e \in Element |->
                 IF e \in Holders(d) /\ ~el[e].attempt.ended THEN EndLease(el[e]) ELSE el[e]]
    /\ UNCHANGED turbo

(* session.retry() *)
Unblock(d) ==
    /\ session[d] # "open"
    /\ session' = [session EXCEPT ![d] = "open"]
    /\ UNCHANGED <<el, turbo>>

(* session.discard(): all leases end, and the next acquire makes a session. *)
Discard(d) ==
    /\ Holders(d) # {}
    /\ session' = [session EXCEPT ![d] = "open"]
    /\ el' = [e \in Element |-> IF e \in Holders(d) THEN EndLease(el[e]) ELSE el[e]]
    /\ UNCHANGED turbo

-----------------------------------------------------------------------------
(* Turbo.  Its events and the timers are tasks of their own: the settles that
   are queued run first. *)

Quiet == \A e \in Element : ~el[e].queued

BeforeCacheUntimed ==
    /\ Quiet
    /\ ~clone
    /\ el' = [e \in Element |-> IF el[e].mounted THEN Deactivate(el[e]) ELSE el[e]]
    /\ clone' = TRUE
    /\ inClone' = {e \in Element : el[e].connected}
    /\ UNCHANGED <<session, preview, rendering, timer>>

(* turbo:before-cache: the adapter detaches every editor and sets its timer;
   Turbo will clone the page in its next turn. *)
BeforeCache ==
    /\ Quiet
    /\ ~clone
    /\ el' = [e \in Element |-> IF el[e].mounted THEN Deactivate(el[e]) ELSE el[e]]
    /\ timer' = IF \E e \in Element : el[e].mounted THEN 2 ELSE 0
    /\ clone' = TRUE
    /\ inClone' = {e \in Element : el[e].connected}
    /\ UNCHANGED <<session, preview, rendering>>

TimerSoon ==
    /\ Quiet
    /\ timer = 2
    /\ timer' = 0
    /\ el' = Reconcile(el, preview)
    /\ UNCHANGED <<session, preview, rendering, clone, inClone>>

(* The adapter's timers are nested: the first runs before Turbo's clone. *)
FirstTimer ==
    /\ Quiet
    /\ timer = 2
    /\ timer' = 1
    /\ UNCHANGED <<el, session, preview, rendering, clone, inClone>>

Clone ==
    /\ Quiet
    /\ clone
    /\ timer # 2
    /\ clone' = FALSE
    /\ inClone' = {}
    /\ UNCHANGED <<el, session, preview, rendering, timer>>

(* The second, set in the first, after it. *)
SecondTimer ==
    /\ Quiet
    /\ timer = 1
    /\ ~clone
    /\ timer' = 0
    /\ el' = Reconcile(el, preview)
    /\ UNCHANGED <<session, preview, rendering, clone, inClone>>

(* Turbo shows another page, or a preview of it: elements leave. *)
Swap(leaving, p) ==
    /\ Quiet
    /\ leaving \subseteq {e \in Element : el[e].connected}
    /\ el' = [e \in Element |-> IF e \in leaving
                                THEN Request([el[e] EXCEPT !.connected = FALSE])
                                ELSE el[e]]
    /\ preview' = p
    /\ rendering' = TRUE
    /\ UNCHANGED <<session, timer, clone, inClone>>

(* turbo:render, turbo:load or turbo:fetch-request-error: reconcile. *)
RenderEvent ==
    /\ Quiet
    /\ el' = Reconcile(el, preview)
    /\ rendering' = FALSE
    /\ inClone' = StillCloned(el')
    /\ UNCHANGED <<session, preview, timer, clone>>

-----------------------------------------------------------------------------
ElementStep(e) == Settle(e) \/ ConsumerLoads(e) \/ FirstSync(e) \/ StrayResult(e)

AppStep(e) == \/ Insert(e) \/ Remove(e) \/ Retry(e) \/ AppDestroys(e)
              \/ \E d \in Doc \cup {Nothing} : Retarget(e, d)

SessionStep(d) == Block(d) \/ BlockEndsLeases(d) \/ Unblock(d) \/ Discard(d)

TurboStep == \/ BeforeCache \/ FirstTimer \/ Clone \/ SecondTimer \/ RenderEvent
             \/ \E p \in BOOLEAN, leaving \in SUBSET Element : Swap(leaving, p)

Next == \/ \E e \in Element : ElementStep(e) \/ AppStep(e)
        \/ \E d \in Doc : SessionStep(d)
        \/ TurboStep

Spec == Init /\ [][Next]_vars

-----------------------------------------------------------------------------
(* The editor is bound: `current` has a value. *)
Bound(x) == Leased(x) /\ x.attempt.announced

(* An element holds a lease for its current attempt and no other: what an
   abandoned attempt was still waiting for never takes, or keeps, one. *)
NoLeaseLeaks == \A e \in Element : el[e].leases = IF Leased(el[e]) THEN 1 ELSE 0

(* In the page, only an element whose editor was announced lets anyone type,
   and then with the application's own inert value, however often the element
   was held, cloned or moved meanwhile. *)
InertUntilSynced ==
    \A e \in Element : LET x == el[e] IN
        /\ x.connected /\ ~x.holding => x.attempt # Nothing /\ x.attempt.announced
        /\ x.inert = IF x.holding THEN TRUE ELSE x.app

(* Turbo clones no bound editor: the elements of the page it caches are
   detached and inert, unless another mount or render event has made them
   live again before the clone. *)
ClonesAreInert ==
    [][Clone => \A e \in inClone : el[e].holding /\ el[e].attempt = Nothing]_vars

(* The page shows the element, and no navigation is in progress. *)
Shown(e) == /\ el[e].connected /\ el[e].mounted
            /\ ~preview /\ ~rendering /\ timer = 0 /\ ~clone

(* "Same-turn moves keep their binding, because settle checks isConnected
   afterwards": when the queued settles have run, an element that is in the
   page the adapter shows is live, however it was moved. *)
MovesKeepBinding ==
    Quiet => \A e \in Element : Shown(e) => el[e].live

(* No element is forgotten: one that is in a page the adapter shows, naming a
   document, is bound or stalled, or something is on its way that takes it
   further: a settle, a promise, the adapter's timer after a navigation that
   Turbo announced and never finished, a render event.  (Except after the move
   that MovesKeepBinding is about.) *)
NeverForgotten ==
    \A e \in Element : LET x == el[e] IN
        x.connected /\ x.mounted /\ ~x.jolted /\ x.target # Nothing /\ ~preview =>
            \/ Bound(x) \/ x.stalled = x.target \/ x.queued
            \/ /\ x.attempt # Nothing /\ ~x.attempt.ended
               /\ ~x.attempt.consumer \/ (Leased(x) /\ ~x.attempt.synced)
            \/ ~x.live /\ (timer # 0 \/ rendering)
=============================================================================
