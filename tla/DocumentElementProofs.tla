------------------------ MODULE DocumentElementProofs ------------------------
(***************************************************************************)
(* <yrby-document> for any number of elements and documents, and any       *)
(* interleaving of Turbo, the application, the sessions and the promises:  *)
(* no lease leaks, nobody types before the first sync, no element is       *)
(* forgotten and Turbo clones no bound editor.                             *)
(***************************************************************************)
EXTENDS DocumentElement, TLAPS

(* What holds of one element whatever happens: it has a lease for its current
   attempt and no other, its inert value is its own or the application's, and
   it is held unless its attempt was announced. *)
LeaseIsOwn(x) == x.leases = IF Leased(x) THEN 1 ELSE 0

InertIsSaved(x) ==
    /\ x.inert = IF x.holding THEN TRUE ELSE x.app
    /\ x.holding => x.saved = x.app

AttemptInOrder(a) ==
    /\ a.lease # "none" => a.consumer
    /\ a.lease = "aborted" => a.ended
    /\ a.synced => a.lease # "none"

HeldUntilAnnounced(x) ==
    x.connected \/ x.attempt # Nothing =>
        x.holding \/ (x.attempt # Nothing /\ x.attempt.announced)

Sound(x) ==
    /\ x \in ElementState
    /\ LeaseIsOwn(x) /\ InertIsSaved(x) /\ HeldUntilAnnounced(x)
    /\ x.attempt # Nothing => AttemptInOrder(x.attempt)

(* Only a live element has an attempt, for the document it should be bound to,
   and only one the adapter has is live. *)
Wanted(x) ==
    /\ x.attempt # Nothing => x.live /\ x.attempt.doc = x.target
    /\ x.live => x.mounted

(* An attempt that is under way: its consumer loads, its session syncs, or it
   is bound. *)
Underway(x) ==
    /\ x.attempt # Nothing /\ ~x.attempt.ended
    /\ ~x.attempt.consumer \/ (Leased(x) /\ (~x.attempt.synced \/ x.attempt.announced))

(* A live element gets on. *)
GetsOn(x) ==
    x.connected /\ x.mounted /\ x.live /\ x.target # Nothing =>
        x.queued \/ x.stalled = x.target \/ Underway(x)

Good(x) == Sound(x) /\ Wanted(x) /\ GetsOn(x)

(* The adapter has to come back to it. *)
Waits(x) == x.mounted /\ ~x.live /\ ~x.jolted

(* As Turbo may clone it. *)
Detached(x) == ~x.live /\ x.attempt = Nothing /\ x.holding

(* What a step that makes no element live keeps of each. *)
Keeps(x, y) == Good(y) /\ (Waits(y) => Waits(x)) /\ (Detached(x) => Detached(y))

(* The page: the adapter comes back, by a timer or a render event, to whatever
   waits for it; and what Turbo is about to clone is detached. *)
PageTypeOK ==
    /\ session \in [Doc -> {"open", "blocking", "blocked"}]
    /\ preview \in BOOLEAN /\ rendering \in BOOLEAN
    /\ timer \in 0..2
    /\ clone \in BOOLEAN
    /\ inClone \subseteq Element

ElementInv ==
    /\ PageTypeOK
    /\ el \in [Element -> ElementState]
    /\ \A e \in Element : Good(el[e])
    /\ \A e \in Element : Waits(el[e]) => preview \/ timer # 0 \/ rendering
    /\ \A e \in inClone : Detached(el[e])
    /\ ~clone => inClone = {}

-----------------------------------------------------------------------------
(* The operators, one by one. *)

(* The same binding, and the same place in the page and in Turbo's eyes. *)
SameBinding(x, y) ==
    /\ y.attempt = x.attempt /\ y.leases = x.leases
    /\ y.inert = x.inert /\ y.holding = x.holding /\ y.saved = x.saved /\ y.app = x.app

SamePlace(x, y) ==
    /\ y.connected = x.connected /\ y.mounted = x.mounted /\ y.live = x.live
    /\ y.target = x.target /\ y.stalled = x.stalled /\ y.jolted = x.jolted

(* An element has its fields, each of its type. *)
LEMMA FieldTypes ==
    ASSUME NEW x \in ElementState
    PROVE  /\ x.attempt \in Attempts \cup {Nothing} /\ x.leases \in 0..1
           /\ x.target \in Doc \cup {Nothing} /\ x.stalled \in Doc \cup {Nothing}
           /\ x.inert \in BOOLEAN /\ x.saved \in BOOLEAN /\ x.holding \in BOOLEAN
           /\ x.app \in BOOLEAN
  BY DEF ElementState

(* Asking for a settle changes nothing else. *)
LEMMA RequestFacts ==
    ASSUME NEW x \in ElementState
    PROVE  /\ Request(x) \in ElementState /\ Request(x).queued
           /\ SameBinding(x, Request(x)) /\ SamePlace(x, Request(x))
<1>1. Request(x) \in ElementState
  BY Zenon DEF Request, ElementState
<1> QED BY <1>1 DEF Request, ElementState, SameBinding, SamePlace

(* Holding keeps the application's inert value aside, once. *)
LEMMA HoldFacts ==
    ASSUME NEW x \in ElementState
    PROVE  /\ Hold(x) \in ElementState
           /\ Hold(x).holding /\ Hold(x).inert
           /\ Hold(x).saved = IF x.holding THEN x.saved ELSE x.inert
           /\ Hold(x).attempt = x.attempt /\ Hold(x).leases = x.leases
           /\ Hold(x).app = x.app /\ Hold(x).queued = x.queued
           /\ SamePlace(x, Hold(x))
<1> DEFINE v == IF x.holding THEN x.saved ELSE x.inert
<1>1. v \in BOOLEAN
  BY FieldTypes
<1>2. Hold(x) = [x EXCEPT !.holding = TRUE, !.inert = TRUE, !.saved = v]
  BY DEF Hold
<1>3. Hold(x).saved = v
  BY <1>2 DEF ElementState
<1> HIDE DEF v
<1>4. Hold(x) \in ElementState
  BY Zenon, <1>1, <1>2 DEF ElementState
<1>5. /\ Hold(x).holding /\ Hold(x).inert
      /\ Hold(x).attempt = x.attempt /\ Hold(x).leases = x.leases
      /\ Hold(x).app = x.app /\ Hold(x).queued = x.queued
      /\ SamePlace(x, Hold(x))
  BY <1>2 DEF ElementState, SamePlace
<1> QED BY <1>3, <1>4, <1>5 DEF v

(* Restoring gives the application its value back. *)
LEMMA RestoreFacts ==
    ASSUME NEW x \in ElementState, InertIsSaved(x)
    PROVE  /\ Restore(x) \in ElementState
           /\ ~Restore(x).holding /\ Restore(x).inert = x.app
           /\ Restore(x).attempt = x.attempt /\ Restore(x).leases = x.leases
           /\ Restore(x).app = x.app /\ Restore(x).queued = x.queued
           /\ SamePlace(x, Restore(x))
<1>1. CASE x.holding
  <2>1. Restore(x) = [x EXCEPT !.holding = FALSE, !.inert = x.saved]
    BY <1>1 DEF Restore
  <2>2. Restore(x) \in ElementState
    BY Zenon, <2>1, FieldTypes DEF ElementState
  <2> QED BY <1>1, <2>1, <2>2 DEF ElementState, SamePlace, InertIsSaved
<1>2. CASE ~x.holding
  BY <1>2 DEF Restore, SamePlace, InertIsSaved
<1> QED BY <1>1, <1>2

(* Abandoning releases the lease, if there is one, and holds the element. *)
LEMMA AbandonFacts ==
    ASSUME NEW x, Sound(x)
    PROVE  /\ Sound(Abandon(x))
           /\ Abandon(x).attempt = Nothing
           /\ Abandon(x).holding <=> x.holding \/ x.attempt # Nothing
           /\ Abandon(x).queued = x.queued
           /\ SamePlace(x, Abandon(x))
<1>1. CASE x.attempt = Nothing
  BY <1>1 DEF Abandon, SamePlace
<1>2. CASE x.attempt # Nothing
  <2> DEFINE z == [x EXCEPT !.attempt = Nothing, !.stray = TRUE, !.leases = 0]
             y == Abandon(x)
  <2>1. (IF Leased(x) THEN x.leases - 1 ELSE x.leases) = 0
    BY DEF Leased, Sound, LeaseIsOwn
  <2>2. y = Hold(z)
    BY <1>2, <2>1 DEF Abandon
  <2>3. z \in ElementState
    <3>1. 0 \in 0..1 /\ x \in ElementState
      BY DEF Sound
    <3> QED BY Zenon, <3>1 DEF ElementState
  <2>4. /\ z.attempt = Nothing /\ z.leases = 0
        /\ z.inert = x.inert /\ z.holding = x.holding /\ z.saved = x.saved /\ z.app = x.app
        /\ z.queued = x.queued /\ SamePlace(x, z)
    BY DEF Sound, ElementState, SamePlace
  <2> HIDE DEF z
  <2>5. /\ y \in ElementState /\ y.attempt = Nothing /\ y.leases = 0
        /\ y.holding /\ y.inert /\ y.app = x.app
        /\ y.saved = IF x.holding THEN x.saved ELSE x.inert
        /\ y.queued = x.queued /\ SamePlace(x, y)
    BY <2>2, <2>3, <2>4, HoldFacts DEF SamePlace
  <2> HIDE DEF y
  <2>6. LeaseIsOwn(y) /\ HeldUntilAnnounced(y)
    BY <2>5 DEF LeaseIsOwn, Leased, HeldUntilAnnounced
  <2>7. InertIsSaved(y)
    BY <2>5 DEF InertIsSaved, Sound
  <2>8. Sound(y)
    BY <2>5, <2>6, <2>7 DEF Sound
  <2> QED BY <1>2, <2>5, <2>8 DEF y
<1> QED BY <1>1, <1>2

(* The same binding is as sound anywhere in the page but where it enters. *)
LEMMA SameBindingIsSound ==
    ASSUME NEW x, Sound(x), NEW y \in ElementState, SameBinding(x, y),
           y.connected => x.connected
    PROVE  Sound(y)
  BY DEF Sound, SameBinding, LeaseIsOwn, Leased, InertIsSaved, HeldUntilAnnounced

(* So is an element whose attempt, and its lease with it, has moved on. *)
LEMMA MovedAttemptIsSound ==
    ASSUME NEW x, Sound(x), x.attempt # Nothing, NEW y \in ElementState, y.attempt # Nothing,
           SamePlace(x, y), AttemptInOrder(y.attempt),
           y.leases = IF y.attempt.lease = "held" THEN 1 ELSE 0,
           y.inert = x.inert, y.holding = x.holding, y.saved = x.saved, y.app = x.app,
           x.attempt.announced => y.attempt.announced
    PROVE  Sound(y)
  BY DEF Sound, SamePlace, LeaseIsOwn, Leased, InertIsSaved, HeldUntilAnnounced

(* With a settle on its way, an element gets on. *)
LEMMA QueuedKeeps ==
    ASSUME NEW x, NEW y, Wanted(x), Sound(y), y.queued,
           y.mounted = x.mounted, y.live = x.live, y.jolted = x.jolted,
           y.attempt # Nothing =>
               /\ x.attempt # Nothing
               /\ y.attempt.doc = x.attempt.doc /\ y.target = x.target,
           x.attempt = Nothing /\ x.holding => y.holding
    PROVE  Keeps(x, y)
  BY DEF Keeps, Good, Wanted, GetsOn, Waits, Detached

-----------------------------------------------------------------------------
(* What the page and the application do to an element. *)

(* disconnectedCallback leaves the binding alone: the settle looks where the
   element is. *)
LEMMA RemoveKeeps ==
    ASSUME NEW x, Good(x) PROVE Keeps(x, Request([x EXCEPT !.connected = FALSE]))
<1> DEFINE z == [x EXCEPT !.connected = FALSE]
           y == Request(z)
<1>1. z \in ElementState
  <2>1. x \in ElementState
    BY DEF Good, Sound
  <2> QED BY Zenon, <2>1 DEF ElementState
<1>2. /\ SameBinding(x, z) /\ ~z.connected /\ z.target = x.target
      /\ z.mounted = x.mounted /\ z.live = x.live /\ z.jolted = x.jolted
  BY DEF Good, Sound, ElementState, SameBinding
<1> HIDE DEF z
<1>3. Sound(z)
  BY <1>1, <1>2, SameBindingIsSound DEF Good
<1>4. y \in ElementState /\ y.queued /\ SameBinding(z, y) /\ SamePlace(z, y)
  BY <1>1, RequestFacts
<1> HIDE DEF y
<1>5. Sound(y)
  BY <1>3, <1>4, SameBindingIsSound DEF SamePlace
<1>6. /\ y.attempt = x.attempt /\ y.holding = x.holding /\ y.target = x.target
      /\ y.mounted = x.mounted /\ y.live = x.live /\ y.jolted = x.jolted
  BY <1>2, <1>4 DEF SameBinding, SamePlace
<1>7. Keeps(x, y)
  BY <1>4, <1>5, <1>6, QueuedKeeps DEF Good
<1> QED BY <1>7 DEF y, z

(* Retarget and Retry: the attempt, if any, is abandoned and a settle asked. *)
LEMMA AbandonKeeps ==
    ASSUME NEW x, Good(x), NEW z \in ElementState, SameBinding(x, z),
           z.connected = x.connected, z.mounted = x.mounted, z.live = x.live,
           z.jolted = x.jolted
    PROVE  Keeps(x, Request(Abandon(z)))
<1> DEFINE a == Abandon(z)
           y == Request(a)
<1>1. Sound(z)
  BY SameBindingIsSound DEF Good
<1>2. /\ Sound(a) /\ a.attempt = Nothing /\ SamePlace(z, a)
      /\ a.holding <=> z.holding \/ z.attempt # Nothing
  BY <1>1, AbandonFacts
<1> HIDE DEF a
<1>3. y \in ElementState /\ y.queued /\ SameBinding(a, y) /\ SamePlace(a, y)
  BY <1>2, RequestFacts DEF Sound
<1> HIDE DEF y
<1>4. Sound(y)
  BY <1>2, <1>3, SameBindingIsSound DEF SamePlace
<1>5. Keeps(x, y)
  BY <1>2, <1>3, <1>4, QueuedKeeps DEF SameBinding, SamePlace, Good
<1> QED BY <1>5 DEF y, a

(* attributeChangedCallback and retry() let the next settle start anew. *)
LEMMA RetargetKeeps ==
    ASSUME NEW x, Good(x), NEW d \in Doc \cup {Nothing}
    PROVE  /\ Keeps(x, Request(Abandon([x EXCEPT !.target = d, !.stalled = Nothing])))
           /\ Keeps(x, Request(Abandon([x EXCEPT !.stalled = Nothing])))
<1>0. x \in ElementState
  BY DEF Good, Sound
<1>1. Keeps(x, Request(Abandon([x EXCEPT !.target = d, !.stalled = Nothing])))
  <2> DEFINE z == [x EXCEPT !.target = d, !.stalled = Nothing]
  <2>1. z \in ElementState
    BY Zenon, <1>0 DEF ElementState
  <2>2. /\ SameBinding(x, z) /\ z.connected = x.connected /\ z.mounted = x.mounted
        /\ z.live = x.live /\ z.jolted = x.jolted
    BY <1>0 DEF ElementState, SameBinding
  <2> HIDE DEF z
  <2>3. Keeps(x, Request(Abandon(z)))
    BY <2>1, <2>2, AbandonKeeps
  <2> QED BY <2>3 DEF z
<1>2. Keeps(x, Request(Abandon([x EXCEPT !.stalled = Nothing])))
  <2> DEFINE z == [x EXCEPT !.stalled = Nothing]
  <2>1. z \in ElementState
    BY Zenon, <1>0 DEF ElementState
  <2>2. /\ SameBinding(x, z) /\ z.connected = x.connected /\ z.mounted = x.mounted
        /\ z.live = x.live /\ z.jolted = x.jolted
    BY <1>0 DEF ElementState, SameBinding
  <2> HIDE DEF z
  <2>3. Keeps(x, Request(Abandon(z)))
    BY <2>1, <2>2, AbandonKeeps
  <2> QED BY <2>3 DEF z
<1> QED BY <1>1, <1>2

(* destroy() leaves nothing bound, and nothing to come back to. *)
LEMMA DestroyKeeps ==
    ASSUME NEW x, Sound(x) PROVE Keeps(x, Destroy(x)) /\ ~Destroy(x).mounted
<1> DEFINE z == [x EXCEPT !.live = FALSE, !.mounted = FALSE, !.jolted = FALSE]
           y == Abandon(z)
<1>1. z \in ElementState
  <2>1. x \in ElementState
    BY DEF Sound
  <2> QED BY Zenon, <2>1 DEF ElementState
<1>2. SameBinding(x, z) /\ z.connected = x.connected /\ ~z.mounted /\ ~z.live
  BY DEF Sound, ElementState, SameBinding
<1> HIDE DEF z
<1>3. Sound(z)
  BY <1>1, <1>2, SameBindingIsSound
<1>4. /\ Sound(y) /\ y.attempt = Nothing /\ SamePlace(z, y)
      /\ y.holding <=> z.holding \/ z.attempt # Nothing
  BY <1>3, AbandonFacts
<1> HIDE DEF y
<1>5. Keeps(x, y) /\ ~y.mounted
  BY <1>2, <1>4 DEF Keeps, Good, Wanted, GetsOn, Waits, Detached, SamePlace, SameBinding
<1> QED BY <1>5 DEF y, z, Destroy

(* connectedCallback: held unless an attempt came with it. *)
LEMMA InsertedFacts ==
    ASSUME NEW x, Good(x)
    PROVE  LET y == Inserted(x)
           IN  /\ Sound(y) /\ y.queued /\ y.mounted /\ y.connected
               /\ y.live = x.live /\ y.jolted = x.jolted /\ y.attempt = x.attempt
               /\ y.target = x.target
               /\ x.holding \/ x.attempt = Nothing => y.holding
<1> DEFINE z == [x EXCEPT !.connected = TRUE, !.stalled = Nothing]
           h == IF z.attempt = Nothing THEN Hold(z) ELSE z
           m == [h EXCEPT !.mounted = TRUE]
           y == Request(m)
<1>0. x \in ElementState /\ Sound(x)
  BY DEF Good, Sound
<1>1. z \in ElementState
  BY Zenon, <1>0 DEF ElementState
<1>2. /\ SameBinding(x, z) /\ z.connected /\ z.mounted = x.mounted /\ z.live = x.live
      /\ z.jolted = x.jolted /\ z.target = x.target
  BY <1>0 DEF ElementState, SameBinding
<1> HIDE DEF z
<1>3. /\ h \in ElementState /\ h.attempt = x.attempt /\ h.leases = x.leases /\ h.app = x.app
      /\ h.connected /\ h.live = x.live /\ h.jolted = x.jolted /\ h.target = x.target
      /\ InertIsSaved(h)
      /\ x.holding \/ x.attempt = Nothing => h.holding
  <2>1. CASE z.attempt = Nothing
    <3>1. h = Hold(z)
      BY <2>1
    <3>2. InertIsSaved(z)
      BY <1>0, <1>2 DEF Sound, InertIsSaved, SameBinding
    <3> HIDE DEF h
    <3>3. /\ h \in ElementState /\ h.attempt = x.attempt /\ h.leases = x.leases
          /\ h.app = x.app /\ h.connected /\ h.live = x.live /\ h.jolted = x.jolted
          /\ h.holding /\ h.target = x.target
      BY <1>1, <1>2, <3>1, HoldFacts DEF SamePlace, SameBinding
    <3>4. InertIsSaved(h)
      BY <1>1, <3>1, <3>2, HoldFacts DEF InertIsSaved
    <3> QED BY <3>3, <3>4
  <2>2. CASE z.attempt # Nothing
    <3>1. h = z
      BY <2>2
    <3> HIDE DEF h
    <3> QED BY <1>0, <1>1, <1>2, <2>2, <3>1 DEF SameBinding, Sound, InertIsSaved
  <2> QED BY <2>1, <2>2
<1> HIDE DEF h
<1>4. m \in ElementState
  BY Zenon, <1>3 DEF ElementState
<1>5. SameBinding(h, m) /\ m.connected = h.connected /\ m.mounted /\ m.live = h.live
      /\ m.jolted = h.jolted /\ m.target = h.target
  BY <1>3 DEF ElementState, SameBinding
<1> HIDE DEF m
<1>6. y \in ElementState /\ y.queued /\ SameBinding(m, y) /\ SamePlace(m, y)
  BY <1>4, RequestFacts
<1> HIDE DEF y
<1>7. /\ y.attempt = x.attempt /\ y.leases = x.leases /\ InertIsSaved(y)
      /\ y.connected /\ y.mounted /\ y.live = x.live /\ y.jolted = x.jolted
      /\ y.target = x.target
      /\ x.holding \/ x.attempt = Nothing => y.holding
  BY <1>3, <1>5, <1>6 DEF SameBinding, SamePlace, InertIsSaved
<1>8. Sound(y)
  <2>1. LeaseIsOwn(y)
    BY <1>0, <1>7 DEF Sound, LeaseIsOwn, Leased
  <2>2. HeldUntilAnnounced(y)
    BY <1>0, <1>7 DEF Sound, HeldUntilAnnounced
  <2> QED BY <1>0, <1>6, <1>7, <2>1, <2>2 DEF Sound
<1>9. y = Inserted(x)
  BY DEF y, m, h, z, Inserted
<1> QED BY <1>6, <1>7, <1>8, <1>9

(* deactivate() holds what it detaches; an element in the page is held then. *)
LEMMA DeactivateFacts ==
    ASSUME NEW x, Sound(x)
    PROVE  LET y == Deactivate(x)
           IN  /\ Sound(y) /\ Wanted(y) /\ GetsOn(y) /\ ~y.live /\ y.attempt = Nothing
               /\ y.mounted = x.mounted /\ y.connected = x.connected /\ y.jolted = x.jolted
               /\ x.connected \/ x.holding => y.holding
<1> DEFINE z == [x EXCEPT !.live = FALSE]
           y == Abandon(z)
<1>1. z \in ElementState
  <2>1. x \in ElementState
    BY DEF Sound
  <2> QED BY Zenon, <2>1 DEF ElementState
<1>2. /\ SameBinding(x, z) /\ z.connected = x.connected /\ z.mounted = x.mounted /\ ~z.live
      /\ z.jolted = x.jolted
  BY DEF Sound, ElementState, SameBinding
<1> HIDE DEF z
<1>3. Sound(z)
  BY <1>1, <1>2, SameBindingIsSound
<1>4. /\ Sound(y) /\ y.attempt = Nothing /\ SamePlace(z, y)
      /\ y.holding <=> z.holding \/ z.attempt # Nothing
  BY <1>3, AbandonFacts
<1> HIDE DEF y
<1>5. Wanted(y) /\ GetsOn(y) /\ ~y.live /\ y.mounted = x.mounted /\ y.connected = x.connected
      /\ y.jolted = x.jolted
  BY <1>2, <1>4 DEF Wanted, GetsOn, SamePlace
<1>6. x.connected \/ x.holding => y.holding
  BY <1>2, <1>4 DEF SameBinding, Sound, HeldUntilAnnounced
<1>7. y = Deactivate(x)
  BY DEF y, z, Deactivate
<1> QED BY <1>4, <1>5, <1>6, <1>7

(* activate() only says that the page is live and asks for a settle. *)
LEMMA ActivateFacts ==
    ASSUME NEW x, Sound(x), Wanted(x), x.mounted
    PROVE  Good(Activate(x)) /\ Activate(x).live
<1> DEFINE z == [x EXCEPT !.live = TRUE, !.stalled = Nothing, !.jolted = FALSE]
           y == Request(z)
<1>1. z \in ElementState
  <2>1. x \in ElementState
    BY DEF Sound
  <2> QED BY Zenon, <2>1 DEF ElementState
<1>2. /\ SameBinding(x, z) /\ z.connected = x.connected /\ z.mounted = x.mounted /\ z.live
      /\ z.target = x.target
  BY DEF Sound, ElementState, SameBinding
<1> HIDE DEF z
<1>3. Sound(z)
  BY <1>1, <1>2, SameBindingIsSound
<1>4. y \in ElementState /\ y.queued /\ SameBinding(z, y) /\ SamePlace(z, y)
  BY <1>1, RequestFacts
<1> HIDE DEF y
<1>5. Sound(y)
  BY <1>3, <1>4, SameBindingIsSound DEF SamePlace
<1>6. Good(y) /\ y.live
  BY <1>2, <1>4, <1>5 DEF Good, Wanted, GetsOn, SamePlace, SameBinding
<1> QED BY <1>6 DEF y, z, Activate

(* The adapter's reconcile leaves nothing waiting but in a preview. *)
LEMMA ReconciledFacts ==
    ASSUME NEW x, Sound(x), Wanted(x), NEW p \in BOOLEAN
    PROVE  LET y == Reconciled(x, p)
           IN  /\ Good(y)
               /\ Waits(y) => p
               /\ Detached(x) => y.live \/ Detached(y)
<1> DEFINE y == Reconciled(x, p)
<1>1. CASE ~x.mounted
  <2>1. y = x
    BY <1>1 DEF Reconciled
  <2> QED BY <1>1, <2>1 DEF Waits, Good, GetsOn
<1>2. CASE x.mounted /\ x.connected /\ ~p
  <2>1. y = Activate(x)
    BY <1>2 DEF Reconciled
  <2> QED BY <1>2, <2>1, ActivateFacts DEF Waits
<1>3. CASE x.mounted /\ ~(x.connected /\ ~p)
  <2> DEFINE z == [x EXCEPT !.jolted = ~x.connected]
  <2>1. y = Deactivate(z)
    BY <1>3 DEF Reconciled
  <2>2. z \in ElementState
    <3>1. x \in ElementState /\ (~x.connected) \in BOOLEAN
      BY DEF Sound
    <3> QED BY Zenon, <3>1 DEF ElementState
  <2>3. /\ SameBinding(x, z) /\ z.connected = x.connected /\ z.mounted = x.mounted
        /\ z.jolted = ~x.connected
    BY DEF Sound, ElementState, SameBinding
  <2> HIDE DEF z, y
  <2>4. Sound(z)
    BY <2>2, <2>3, SameBindingIsSound
  <2>5. /\ Sound(y) /\ Wanted(y) /\ GetsOn(y) /\ ~y.live /\ y.attempt = Nothing
        /\ y.mounted = z.mounted /\ y.connected = z.connected /\ y.jolted = z.jolted
        /\ z.connected \/ z.holding => y.holding
    BY <2>1, <2>4, DeactivateFacts
  <2>6. Good(y) /\ (Waits(y) => p) /\ (Detached(x) => Detached(y))
    BY <1>3, <2>3, <2>5 DEF Good, Waits, Detached, SameBinding
  <2> QED BY <2>6 DEF y
<1> QED BY <1>1, <1>2, <1>3

-----------------------------------------------------------------------------
(* The promises of an attempt, and its session. *)

(* An attempt that moves on, with its lease, is as sound. *)
LEMMA AttemptMoves ==
    ASSUME NEW x, Sound(x), x.attempt # Nothing, NEW a \in Attempts, NEW l \in 0..1,
           AttemptInOrder(a), a.lease = "held" => l = 1, a.lease # "held" => l = 0,
           x.attempt.announced => a.announced
    PROVE  LET z == [x EXCEPT !.attempt = a, !.leases = l]
           IN  Sound(z) /\ z.attempt = a /\ SamePlace(x, z)
<1> DEFINE z == [x EXCEPT !.attempt = a, !.leases = l]
<1>0. x \in ElementState /\ a # Nothing
  BY ElementAssumption DEF Sound
<1>1. z \in ElementState
  BY Zenon, <1>0 DEF ElementState
<1>2. /\ z.attempt = a /\ z.leases = l /\ SamePlace(x, z)
      /\ z.inert = x.inert /\ z.holding = x.holding /\ z.saved = x.saved /\ z.app = x.app
  BY <1>0 DEF ElementState, SamePlace
<1> HIDE DEF z
<1>3. Sound(z)
  BY <1>0, <1>1, <1>2, MovedAttemptIsSound
<1>4. Sound(z) /\ z.attempt = a /\ SamePlace(x, z)
  BY <1>2, <1>3
<1> QED BY <1>4 DEF z

(* What comes of an attempt that stays an attempt, with a settle asked for. *)
LEMMA ResultKeeps ==
    ASSUME NEW x, Sound(x), Wanted(x), x.attempt # Nothing,
           NEW a \in Attempts, NEW l \in 0..1,
           AttemptInOrder(a), a.lease = "held" => l = 1, a.lease # "held" => l = 0,
           a.doc = x.attempt.doc, x.attempt.announced => a.announced
    PROVE  LET y == Request([x EXCEPT !.attempt = a, !.leases = l])
           IN  Keeps(x, y) /\ y.live = x.live
<1> DEFINE z == [x EXCEPT !.attempt = a, !.leases = l]
           y == Request(z)
<1>1. Sound(z) /\ z.attempt = a /\ SamePlace(x, z)
  BY AttemptMoves
<1> HIDE DEF z
<1>2. z \in ElementState
  BY <1>1 DEF Sound
<1>3. y \in ElementState /\ y.queued /\ SameBinding(z, y) /\ SamePlace(z, y)
  BY <1>2, RequestFacts
<1> HIDE DEF y
<1>4. Sound(y)
  BY <1>1, <1>3, SameBindingIsSound DEF SamePlace
<1>5. /\ y.attempt = a /\ y.target = x.target
      /\ y.mounted = x.mounted /\ y.live = x.live /\ y.jolted = x.jolted
  BY <1>1, <1>3 DEF SameBinding, SamePlace
<1>6. Keeps(x, y)
  BY <1>3, <1>4, <1>5, QueuedKeeps
<1> QED BY <1>5, <1>6 DEF y, z

(* The consumer loads or does not, the session syncs, or it ends the lease. *)
LEMMA PromisesKeep ==
    ASSUME NEW x, Good(x), x.attempt # Nothing
    PROVE  /\ ~x.attempt.consumer /\ ~x.attempt.ended =>
                  /\ Keeps(x, Request([x EXCEPT !.attempt.consumer = TRUE]))
                  /\ Keeps(x, Request([x EXCEPT !.attempt.ended = TRUE]))
           /\ x.attempt.lease = "aborted" \/ Leased(x) =>
                  Keeps(x, Request([x EXCEPT !.attempt.synced = TRUE]))
           /\ Leased(x) => Keeps(x, EndLease(x))
<1> DEFINE a == x.attempt
           l == x.leases
<1>0. /\ Sound(x) /\ Wanted(x)
      /\ a \in Attempts /\ a # Nothing /\ AttemptInOrder(a) /\ x \in ElementState
      /\ l \in 0..1 /\ l = IF a.lease = "held" THEN 1 ELSE 0
  BY FieldTypes DEF Good, Sound, LeaseIsOwn, Leased
<1>1. ASSUME ~a.consumer PROVE Keeps(x, Request([x EXCEPT !.attempt.consumer = TRUE]))
  <2> DEFINE b == [a EXCEPT !.consumer = TRUE]
  <2>1. b \in Attempts
    BY Zenon, <1>0 DEF Attempts
  <2>2. b.lease = a.lease /\ b.doc = a.doc /\ b.announced = a.announced /\ AttemptInOrder(b)
    BY <1>0 DEF Attempts, AttemptInOrder
  <2>3. [x EXCEPT !.attempt.consumer = TRUE] = [x EXCEPT !.attempt = b, !.leases = l]
    BY <1>0 DEF ElementState
  <2> HIDE DEF b
  <2>4. Keeps(x, Request([x EXCEPT !.attempt = b, !.leases = l]))
    BY <1>0, <2>1, <2>2, ResultKeeps
  <2> QED BY <2>3, <2>4
<1>2. Keeps(x, Request([x EXCEPT !.attempt.ended = TRUE]))
  <2> DEFINE b == [a EXCEPT !.ended = TRUE]
  <2>1. b \in Attempts
    BY Zenon, <1>0 DEF Attempts
  <2>2. b.lease = a.lease /\ b.doc = a.doc /\ b.announced = a.announced /\ AttemptInOrder(b)
    BY <1>0 DEF Attempts, AttemptInOrder
  <2>3. [x EXCEPT !.attempt.ended = TRUE] = [x EXCEPT !.attempt = b, !.leases = l]
    BY <1>0 DEF ElementState
  <2> HIDE DEF b
  <2>4. Keeps(x, Request([x EXCEPT !.attempt = b, !.leases = l]))
    BY <1>0, <2>1, <2>2, ResultKeeps
  <2> QED BY <2>3, <2>4
<1>3. ASSUME a.lease = "aborted" \/ Leased(x)
      PROVE  Keeps(x, Request([x EXCEPT !.attempt.synced = TRUE]))
  <2> DEFINE b == [a EXCEPT !.synced = TRUE]
  <2>1. b \in Attempts
    BY Zenon, <1>0 DEF Attempts
  <2>2. b.lease = a.lease /\ b.doc = a.doc /\ b.announced = a.announced /\ AttemptInOrder(b)
    BY <1>0, <1>3 DEF Attempts, AttemptInOrder, Leased
  <2>3. [x EXCEPT !.attempt.synced = TRUE] = [x EXCEPT !.attempt = b, !.leases = l]
    BY <1>0 DEF ElementState
  <2> HIDE DEF b
  <2>4. Keeps(x, Request([x EXCEPT !.attempt = b, !.leases = l]))
    BY <1>0, <2>1, <2>2, ResultKeeps
  <2> QED BY <2>3, <2>4
<1>4. ASSUME Leased(x) PROVE Keeps(x, EndLease(x))
  <2> DEFINE b == [a EXCEPT !.lease = "aborted", !.ended = TRUE]
             z == [x EXCEPT !.attempt.lease = "aborted", !.attempt.ended = TRUE, !.leases = @ - 1]
  <2>1. b \in Attempts
    BY Zenon, <1>0 DEF Attempts
  <2>2. b.lease = "aborted" /\ b.doc = a.doc /\ b.announced = a.announced /\ AttemptInOrder(b)
    BY <1>0, <1>4 DEF Attempts, AttemptInOrder, Leased
  <2>3. z = [x EXCEPT !.attempt = b, !.leases = 0]
    <3>1. x.leases - 1 = 0
      BY <1>0, <1>4 DEF Leased
    <3> QED BY <1>0, <3>1 DEF ElementState
  <2>4. EndLease(x) = Request(z)
    BY DEF EndLease
  <2> HIDE DEF b, z
  <2>5. 0 \in 0..1 /\ 0 = IF b.lease = "held" THEN 1 ELSE 0
    BY <2>2
  <2>6. b.doc = x.attempt.doc /\ (x.attempt.announced => b.announced)
    BY <2>2
  <2>7. Keeps(x, Request([x EXCEPT !.attempt = b, !.leases = 0]))
    BY <1>0, <2>1, <2>2, <2>5, <2>6, ResultKeeps
  <2> QED BY <2>3, <2>4, <2>7
<1> QED BY <1>1, <1>2, <1>3, <1>4

(* The promise of an abandoned attempt only asks for a settle. *)
LEMMA StrayKeeps ==
    ASSUME NEW x, Good(x), NEW more \in BOOLEAN
    PROVE  Keeps(x, Request([x EXCEPT !.stray = more]))
<1> DEFINE z == [x EXCEPT !.stray = more]
           y == Request(z)
<1>0. x \in ElementState
  BY DEF Good, Sound
<1>1. z \in ElementState
  BY Zenon, <1>0 DEF ElementState
<1>2. SameBinding(x, z) /\ SamePlace(x, z)
  BY <1>0 DEF ElementState, SameBinding, SamePlace
<1> HIDE DEF z
<1>3. y \in ElementState /\ y.queued /\ SameBinding(z, y) /\ SamePlace(z, y)
  BY <1>1, RequestFacts
<1> HIDE DEF y
<1>4. SameBinding(x, y) /\ SamePlace(x, y)
  BY <1>2, <1>3 DEF SameBinding, SamePlace
<1>5. Sound(y)
  BY <1>3, <1>4, SameBindingIsSound DEF Good, SamePlace
<1>6. Keeps(x, y)
  BY <1>3, <1>4, <1>5, QueuedKeeps DEF Good, SameBinding, SamePlace
<1> QED BY <1>6 DEF y, z

-----------------------------------------------------------------------------
(* #settle. *)

(* One step of a live element's attempt, or its first, is underway, stalls it,
   or asks for another settle. *)
LEMMA StepIsGood ==
    ASSUME NEW x, Sound(x), Wanted(x), x.live, x.connected, x.target # Nothing,
           NEW y \in Step(x)
    PROVE  Good(y) /\ y.live
<1> DEFINE a == x.attempt
<1>0. x \in ElementState /\ x.mounted /\ x.target \in Doc
  BY FieldTypes DEF Sound, Wanted
<1>1. CASE a = Nothing
  <2> DEFINE b == [doc |-> x.target, consumer |-> FALSE, lease |-> "none",
                   synced |-> FALSE, announced |-> FALSE, ended |-> FALSE]
  <2>1. b \in Attempts
    BY <1>0 DEF Attempts
  <2>2. b.doc = x.target /\ ~b.consumer /\ b.lease = "none" /\ ~b.synced /\ ~b.ended
    OBVIOUS
  <2>3. y = [x EXCEPT !.attempt = b]
    BY <1>1 DEF Step, Start
  <2> HIDE DEF b
  <2>4. b # Nothing
    BY <2>1, ElementAssumption
  <2>5. y \in ElementState
    BY Zenon, <1>0, <2>1, <2>3 DEF ElementState
  <2>6. /\ y.attempt = b /\ SamePlace(x, y) /\ y.leases = x.leases
        /\ y.inert = x.inert /\ y.holding = x.holding /\ y.saved = x.saved /\ y.app = x.app
    BY <1>0, <2>3 DEF ElementState, SamePlace
  <2>7. Sound(y)
    BY <1>1, <2>2, <2>4, <2>5, <2>6
    DEF Sound, LeaseIsOwn, Leased, InertIsSaved, HeldUntilAnnounced, AttemptInOrder, SamePlace
  <2> QED BY <2>2, <2>4, <2>6, <2>7, <1>0 DEF Good, Wanted, GetsOn, Underway, SamePlace
<1>2. ASSUME a # Nothing, y = Stall(x) PROVE Good(y) /\ y.live
  <2> DEFINE z == [x EXCEPT !.stalled = x.attempt.doc]
  <2>1. x.attempt.doc = x.target
    BY <1>2 DEF Wanted
  <2>2. z \in ElementState
    <3>1. x.attempt.doc \in Doc \cup {Nothing}
      BY <1>0, <2>1
    <3> QED BY Zenon, <1>0, <3>1 DEF ElementState
  <2>3. /\ SameBinding(x, z) /\ z.stalled = x.target /\ z.target = x.target
        /\ z.connected = x.connected /\ z.mounted = x.mounted /\ z.live = x.live
    BY <1>0, <2>1 DEF ElementState, SameBinding
  <2>4. y = Abandon(z)
    BY <1>2 DEF Stall
  <2> HIDE DEF z
  <2>5. Sound(z)
    BY <2>2, <2>3, SameBindingIsSound
  <2>6. Sound(y) /\ y.attempt = Nothing /\ SamePlace(z, y)
    BY <2>4, <2>5, AbandonFacts
  <2> QED BY <1>0, <2>3, <2>6 DEF Good, Wanted, GetsOn, SamePlace
<1>3. ASSUME a # Nothing, ~a.ended, a.lease = "none", a.consumer, y = Acquire(x)
      PROVE  Good(y) /\ y.live
  <2>0. a \in Attempts /\ AttemptInOrder(a) /\ x.leases = 0 /\ 1 \in 0..1
    BY <1>0, <1>3, FieldTypes DEF Sound, LeaseIsOwn, Leased
  <2>1. CASE session[a.doc] = "open"
    <3> DEFINE b == [a EXCEPT !.lease = "held"]
    <3>1. b \in Attempts
      BY Zenon, <2>0 DEF Attempts
    <3>2. /\ b.lease = "held" /\ b.doc = a.doc /\ b.announced = a.announced
          /\ ~b.ended /\ ~b.synced /\ AttemptInOrder(b)
      BY <2>0, <1>3 DEF Attempts, AttemptInOrder
    <3> DEFINE z == [x EXCEPT !.attempt = b, !.leases = 1]
    <3>3. y = z
      BY <1>0, <1>3, <2>0, <2>1 DEF Acquire, ElementState
    <3> HIDE DEF b
    <3>4. Sound(y) /\ y.attempt = b /\ SamePlace(x, y)
      <4>1. 1 = IF b.lease = "held" THEN 1 ELSE 0
        BY <3>2
      <4>2. Sound(z) /\ z.attempt = b /\ SamePlace(x, z)
        BY <1>3, <2>0, <3>1, <3>2, <4>1, AttemptMoves
      <4> QED BY <3>3, <4>2
    <3>5. b # Nothing
      BY <3>1, ElementAssumption
    <3> QED BY <1>0, <1>3, <3>2, <3>4, <3>5
            DEF Good, Wanted, GetsOn, Underway, Leased, SamePlace
  <2>2. CASE session[a.doc] # "open"
    <3> DEFINE b == [a EXCEPT !.lease = "held", !.ended = TRUE]
               z == [x EXCEPT !.attempt = b, !.leases = 1]
    <3>1. b \in Attempts
      BY Zenon, <2>0 DEF Attempts
    <3>2. /\ b.lease = "held" /\ b.doc = a.doc /\ b.announced = a.announced
          /\ AttemptInOrder(b)
      BY <2>0, <1>3 DEF Attempts, AttemptInOrder
    <3>3. y = Request(z)
      <4> DEFINE leased == [x EXCEPT !.attempt.lease = "held", !.leases = x.leases + 1]
      <4>1. y = Request([leased EXCEPT !.attempt.ended = TRUE])
        BY <1>3, <2>2 DEF Acquire
      <4>2. leased = [x EXCEPT !.attempt = [a EXCEPT !.lease = "held"], !.leases = 1]
        BY <1>0, <2>0 DEF ElementState
      <4> HIDE DEF leased
      <4>3. [leased EXCEPT !.attempt.ended = TRUE] = z
        BY <1>0, <2>0, <4>2 DEF ElementState, Attempts
      <4> QED BY <4>1, <4>3
    <3> HIDE DEF b
    <3>4. 1 = IF b.lease = "held" THEN 1 ELSE 0
      BY <3>2
    <3>5. Keeps(x, Request(z)) /\ Request(z).live = x.live
      BY <1>3, <2>0, <3>1, <3>2, <3>4, ResultKeeps
    <3> QED BY <3>3, <3>5 DEF Keeps
  <2> QED BY <2>1, <2>2
<1>4. ASSUME a # Nothing, ~a.ended, a.synced, y = Announce(x)
      PROVE  Good(y) /\ y.live
  <2> DEFINE b == [a EXCEPT !.announced = TRUE]
             z == [x EXCEPT !.attempt = b, !.leases = x.leases]
  <2>0. /\ a \in Attempts /\ AttemptInOrder(a) /\ a.lease = "held"
        /\ x.leases = 1 /\ x.leases \in 0..1
    <3>1. a \in Attempts /\ AttemptInOrder(a)
      BY <1>0, <1>4, FieldTypes DEF Sound
    <3>2. a.lease = "held"
      BY <1>4, <3>1 DEF AttemptInOrder, Attempts
    <3> QED BY <1>0, <1>4, <3>1, <3>2 DEF Sound, LeaseIsOwn, Leased
  <2>1. b \in Attempts
    BY Zenon, <2>0 DEF Attempts
  <2>2. b.lease = "held" /\ b.doc = a.doc /\ b.announced /\ ~b.ended /\ AttemptInOrder(b)
    BY <2>0, <1>4 DEF Attempts, AttemptInOrder
  <2>3. y = Restore(z)
    BY <1>0, <1>4 DEF Announce, ElementState
  <2> HIDE DEF b, z
  <2>5. Sound(z) /\ z \in ElementState /\ z.attempt = b /\ SamePlace(x, z)
    <3>1. Sound(z) /\ z.attempt = b /\ SamePlace(x, z)
      <4>1. x.leases = IF b.lease = "held" THEN 1 ELSE 0
        BY <2>0, <2>2
      <4>2. x.attempt # Nothing
        BY <1>4
      <4> HIDE DEF a
      <4> QED BY <2>0, <2>1, <2>2, <4>1, <4>2, AttemptMoves DEF z
    <3> QED BY <3>1 DEF Sound
  <2>6. /\ y \in ElementState /\ ~y.holding /\ y.inert = z.app /\ y.app = z.app
        /\ y.attempt = b /\ y.leases = z.leases /\ SamePlace(z, y)
    BY <2>3, <2>5, RestoreFacts DEF Sound
  <2>7. b # Nothing
    BY <2>1, ElementAssumption
  <2>8. Sound(y)
    BY <2>2, <2>5, <2>6, <2>7
    DEF Sound, LeaseIsOwn, Leased, InertIsSaved, HeldUntilAnnounced
  <2>9. SamePlace(x, y)
    BY <2>5, <2>6 DEF SamePlace
  <2> QED BY <1>0, <1>4, <2>2, <2>6, <2>7, <2>8, <2>9
          DEF Good, Wanted, GetsOn, Underway, Leased, SamePlace
<1>5. ASSUME a # Nothing, ~a.ended, ~(a.consumer /\ a.lease = "none"),
             ~(a.synced /\ ~a.announced), y = x
      PROVE  Good(y) /\ y.live
  <2>1. a \in Attempts /\ AttemptInOrder(a)
    BY <1>0, <1>5, FieldTypes DEF Sound
  <2>2. ~a.consumer \/ a.lease = "held"
    BY <1>5, <2>1 DEF AttemptInOrder, Attempts
  <2>3. Underway(x)
    BY <1>5, <2>2 DEF Underway, Leased
  <2> QED BY <1>5, <2>3 DEF Good, GetsOn
<1> QED BY <1>1, <1>2, <1>3, <1>4, <1>5 DEF Step

(* A settle keeps what every step keeps: it is never to be found with an
   attempt that is not wanted, and it forgets nobody. *)
LEMMA SettledKeeps ==
    ASSUME NEW x, Good(x), NEW y \in Settled([x EXCEPT !.queued = FALSE])
    PROVE  Keeps(x, y)
<1> DEFINE z == [x EXCEPT !.queued = FALSE]
<1>0. x \in ElementState
  BY DEF Good, Sound
<1>1. z \in ElementState
  BY Zenon, <1>0 DEF ElementState
<1>2. SameBinding(x, z) /\ SamePlace(x, z)
  BY <1>0 DEF ElementState, SameBinding, SamePlace
<1>3. y \in Settled(z)
  OBVIOUS
<1> HIDE DEF z
<1>4. Sound(z) /\ Wanted(z)
  <2>1. Sound(z)
    BY <1>1, <1>2, SameBindingIsSound DEF Good, SamePlace
  <2> QED BY <1>2, <2>1 DEF Good, Wanted, SameBinding, SamePlace
<1>5. Keeps(z, y)
  <2>1. CASE ~z.connected
    BY <1>3, <1>4, <2>1, DestroyKeeps DEF Settled
  <2>2. CASE z.connected /\ (Wants(z) = Nothing \/ Wants(z) = z.stalled)
    <3>1. ~(z.attempt # Nothing /\ z.attempt.doc # Wants(z))
      BY <1>4 DEF Wanted, Wants
    <3>2. y = z
      BY <1>3, <2>2, <3>1 DEF Settled
    <3>3. GetsOn(z)
      BY <2>2 DEF GetsOn, Wants
    <3> QED BY <1>4, <3>2, <3>3 DEF Keeps, Good
  <2>3. CASE z.connected /\ Wants(z) # Nothing /\ Wants(z) # z.stalled
    <3>1. z.live /\ z.target # Nothing
      BY <2>3 DEF Wants
    <3>2. y \in Step(z)
      BY <1>3, <1>4, <2>3, <3>1 DEF Settled, Wants, Wanted
    <3>3. Good(y) /\ y.live
      BY <1>4, <2>3, <3>1, <3>2, StepIsGood
    <3> QED BY <3>1, <3>3 DEF Keeps, Waits, Detached
  <2> QED BY <2>1, <2>2, <2>3
<1> QED BY <1>2, <1>5 DEF Keeps, Waits, Detached, SameBinding, SamePlace

-----------------------------------------------------------------------------
(* The page. *)

(* So does doing nothing. *)
LEMMA SelfKeeps == ASSUME NEW x, Good(x) PROVE Keeps(x, x)
  BY DEF Keeps

(* A step that makes nothing live, unless by a settle, keeps the invariant when
   it forgets no timer and no render event that an element waits for. *)
LEMMA PageKeeps ==
    ASSUME ElementInv, PageTypeOK',
           el' \in [Element -> ElementState],
           \A e \in Element : Keeps(el[e], el'[e]),
           \A e \in Element : Waits(el'[e]) =>
               (preview \/ timer # 0 \/ rendering => preview' \/ timer' # 0 \/ rendering'),
           inClone' \subseteq inClone,
           ~clone' => inClone' = {}
    PROVE  ElementInv'
<1>1. \A e \in Element : Good(el'[e])
  BY DEF Keeps
<1>2. ASSUME NEW e \in Element, Waits(el'[e]) PROVE preview' \/ timer' # 0 \/ rendering'
  BY <1>2 DEF Keeps, ElementInv
<1>3. ASSUME NEW e \in inClone' PROVE Detached(el'[e])
  BY <1>3 DEF Keeps, ElementInv, PageTypeOK
<1> QED BY <1>1, <1>2, <1>3 DEF ElementInv

(* An element on its own: its settle, its promises, the application's calls. *)
LEMMA OneKeeps ==
    ASSUME ElementInv, NEW e \in Element, NEW y, Keeps(el[e], y),
           el' = [el EXCEPT ![e] = y],
           timer' \in {timer, TimerFor(el')},
           UNCHANGED <<session, preview, rendering, clone>>,
           inClone' \subseteq inClone
    PROVE  ElementInv'
<1>1. el' \in [Element -> ElementState]
  <2>1. y \in ElementState
    BY DEF Keeps, Good, Sound
  <2> QED BY <2>1 DEF ElementInv
<1>2. \A f \in Element : Keeps(el[f], el'[f])
  BY SelfKeeps DEF ElementInv
<1>3. PageTypeOK'
  BY DEF ElementInv, PageTypeOK, TimerFor
<1>4. ASSUME NEW f \in Element, Waits(el'[f]) PROVE timer' = timer
  BY <1>4 DEF TimerFor, Waits
<1>5. ~clone' => inClone' = {}
  BY DEF ElementInv
<1> QED BY <1>1, <1>2, <1>3, <1>4, <1>5, PageKeeps

(* The adapter's reconcile, of elements that may have been told before it. *)
LEMMA ReconcileKeeps ==
    ASSUME ElementInv, PageTypeOK', NEW g,
           \A e \in Element : Sound(g[e]) /\ Wanted(g[e]),
           \A e \in inClone : Detached(g[e]),
           el' = Reconcile(g, preview), preview' = preview, clone' = clone,
           inClone' = StillCloned(el') \/ inClone' = {}
    PROVE  ElementInv'
<1>1. \A e \in Element : el'[e] = Reconciled(g[e], preview)
  BY DEF Reconcile
<1>2. preview \in BOOLEAN /\ inClone \subseteq Element /\ (~clone => inClone = {})
  BY DEF ElementInv, PageTypeOK
<1>3. \A e \in Element : /\ Good(el'[e]) /\ (Waits(el'[e]) => preview)
                         /\ Detached(g[e]) => el'[e].live \/ Detached(el'[e])
  BY <1>1, <1>2, ReconciledFacts
<1>4. el' \in [Element -> ElementState]
  BY <1>3 DEF Reconcile, Good, Sound
<1>5. \A e \in inClone' : Detached(el'[e])
  BY <1>2, <1>3 DEF StillCloned
<1>6. ~clone' => inClone' = {}
  BY <1>2 DEF StillCloned
<1> QED BY <1>3, <1>4, <1>5, <1>6 DEF ElementInv

(* The sessions end leases, of some elements. *)
LEMMA EndingKeeps ==
    ASSUME ElementInv, session' \in [Doc -> {"open", "blocking", "blocked"}],
           NEW ends, \A e \in ends : e \in Element /\ Leased(el[e]),
           el' = [e \in Element |-> IF e \in ends THEN EndLease(el[e]) ELSE el[e]],
           UNCHANGED turbo
    PROVE  ElementInv'
<1>1. \A e \in Element : Good(el[e])
  BY DEF ElementInv
<1>2. ASSUME NEW e \in Element PROVE Keeps(el[e], el'[e])
  <2>1. CASE e \in ends
    <3>1. Leased(el[e]) /\ el[e].attempt # Nothing
      BY <2>1 DEF Leased
    <3>2. Keeps(el[e], EndLease(el[e]))
      BY <1>1, <3>1, PromisesKeep
    <3> QED BY <2>1, <3>2
  <2>2. CASE e \notin ends
    BY <1>1, <2>2, SelfKeeps
  <2> QED BY <2>1, <2>2
<1>3. el' \in [Element -> ElementState]
  BY <1>2 DEF Keeps, Good, Sound
<1>4. PageTypeOK'
  BY DEF ElementInv, PageTypeOK, turbo
<1>5. inClone' \subseteq inClone /\ (~clone' => inClone' = {})
  BY DEF ElementInv, turbo
<1>6. preview' = preview /\ timer' = timer /\ rendering' = rendering
  BY DEF turbo
<1> QED BY <1>2, <1>3, <1>4, <1>5, <1>6, PageKeeps

-----------------------------------------------------------------------------
(* The elements' own steps. *)

(* The settle, and the promises of an attempt. *)
LEMMA ElementStepKeeps ==
    ASSUME ElementInv, NEW e \in Element, ElementStep(e) PROVE ElementInv'
<1>0. Good(el[e]) /\ e \in DOMAIN el
  BY DEF ElementInv
<1>1. CASE Settle(e)
  <2>1. PICK x \in Settled([el[e] EXCEPT !.queued = FALSE]) :
            el' = [el EXCEPT ![e] = x] /\ timer' = TimerFor(el')
    BY <1>1 DEF Settle
  <2>2. Keeps(el[e], x)
    BY <1>0, <2>1, SettledKeeps
  <2> QED BY <1>1, <2>1, <2>2, OneKeeps DEF Settle
<1>2. CASE ConsumerLoads(e)
  <2>1. el[e].attempt # Nothing /\ ~el[e].attempt.consumer /\ ~el[e].attempt.ended
    BY <1>2 DEF ConsumerLoads
  <2> DEFINE y1 == Request([el[e] EXCEPT !.attempt.consumer = TRUE])
             y2 == Request([el[e] EXCEPT !.attempt.ended = TRUE])
  <2>2. Keeps(el[e], y1) /\ Keeps(el[e], y2)
    BY <1>0, <2>1, PromisesKeep
  <2>3. el' = [el EXCEPT ![e] = y1] \/ el' = [el EXCEPT ![e] = y2]
    BY <1>2 DEF ConsumerLoads
  <2> HIDE DEF y1, y2
  <2> QED BY <1>2, <2>2, <2>3, OneKeeps DEF ConsumerLoads, turbo
<1>3. CASE FirstSync(e)
  <2>1. el[e].attempt # Nothing /\ (el[e].attempt.lease = "aborted" \/ Leased(el[e]))
    BY <1>3 DEF FirstSync
  <2> DEFINE y == Request([el[e] EXCEPT !.attempt.synced = TRUE])
  <2>2. Keeps(el[e], y)
    BY <1>0, <2>1, PromisesKeep
  <2>3. el' = [el EXCEPT ![e] = y]
    BY <1>3 DEF FirstSync
  <2> HIDE DEF y
  <2> QED BY <1>3, <2>2, <2>3, OneKeeps DEF FirstSync, turbo
<1>4. CASE StrayResult(e)
  <2>1. PICK more \in BOOLEAN : el' = [el EXCEPT ![e] = Request([@ EXCEPT !.stray = more])]
    BY <1>4 DEF StrayResult
  <2> DEFINE y == Request([el[e] EXCEPT !.stray = more])
  <2>2. Keeps(el[e], y)
    BY <1>0, StrayKeeps
  <2>3. el' = [el EXCEPT ![e] = y]
    BY <2>1
  <2> HIDE DEF y
  <2> QED BY <1>4, <2>2, <2>3, OneKeeps DEF StrayResult, turbo
<1> QED BY <1>1, <1>2, <1>3, <1>4 DEF ElementStep

(* What the page and the application do. *)
LEMMA AppStepKeeps ==
    ASSUME ElementInv, NEW e \in Element, AppStep(e) PROVE ElementInv'
<1>0. Good(el[e]) /\ e \in DOMAIN el /\ el[e] \in ElementState
  BY DEF ElementInv
<1>1. CASE Insert(e)
  <2> DEFINE y == Inserted(el[e])
             new == [el EXCEPT ![e] = y]
  <2>1. /\ Sound(y) /\ y.queued /\ y.mounted /\ y.connected
        /\ y.live = el[e].live /\ y.jolted = el[e].jolted /\ y.attempt = el[e].attempt
        /\ y.target = el[e].target
        /\ el[e].holding \/ el[e].attempt = Nothing => y.holding
    BY <1>0, InsertedFacts
  <2>2. /\ el' = IF el[e].mounted THEN new ELSE Reconcile(new, preview)
        /\ inClone' = StillCloned(el')
        /\ UNCHANGED <<session, preview, rendering, timer, clone>>
    BY <1>1 DEF Insert
  <2> HIDE DEF y
  <2>3. CASE el[e].mounted
    <3>1. Keeps(el[e], y)
      BY <1>0, <2>1, <2>3, QueuedKeeps DEF Good
    <3>2. inClone' \subseteq inClone
      BY <2>2 DEF StillCloned
    <3> QED BY <2>2, <2>3, <3>1, <3>2, OneKeeps
  <2>4. CASE ~el[e].mounted
    <3>1. Wanted(y)
      BY <1>0, <2>1 DEF Good, Wanted
    <3>2. \A f \in Element : Sound(new[f]) /\ Wanted(new[f])
      BY <2>1, <3>1 DEF ElementInv, Good
    <3>3. Detached(el[e]) => Detached(y)
      BY <2>1 DEF Detached
    <3>4. \A f \in inClone : Detached(new[f])
      BY <3>3 DEF ElementInv, PageTypeOK
    <3>5. PageTypeOK'
      BY <2>2 DEF ElementInv, PageTypeOK, StillCloned
    <3>6. el' = Reconcile(new, preview)
      BY <2>2, <2>4
    <3> HIDE DEF new
    <3> QED BY <2>2, <3>2, <3>4, <3>5, <3>6, ReconcileKeeps
  <2> QED BY <2>3, <2>4
<1>2. CASE Remove(e)
  <2> DEFINE y == Request([el[e] EXCEPT !.connected = FALSE])
  <2>1. Keeps(el[e], y)
    BY <1>0, RemoveKeeps
  <2>2. el' = [el EXCEPT ![e] = y]
    BY <1>2 DEF Remove
  <2> HIDE DEF y
  <2> QED BY <1>2, <2>1, <2>2, OneKeeps DEF Remove, turbo
<1>3. CASE Retry(e)
  <2> DEFINE y == Request(Abandon([el[e] EXCEPT !.stalled = Nothing]))
  <2>1. Keeps(el[e], y)
    BY <1>0, RetargetKeeps
  <2>2. el' = [el EXCEPT ![e] = y]
    BY <1>3 DEF Retry
  <2> HIDE DEF y
  <2> QED BY <1>3, <2>1, <2>2, OneKeeps DEF Retry, turbo
<1>4. CASE AppDestroys(e)
  <2> DEFINE y == Destroy(el[e])
  <2>1. Keeps(el[e], y)
    BY <1>0, DestroyKeeps DEF Good
  <2>2. el' = [el EXCEPT ![e] = y]
    BY <1>4 DEF AppDestroys
  <2> HIDE DEF y
  <2> QED BY <1>4, <2>1, <2>2, OneKeeps DEF AppDestroys
<1>5. ASSUME NEW d \in Doc \cup {Nothing}, Retarget(e, d) PROVE ElementInv'
  <2> DEFINE y == Request(Abandon([el[e] EXCEPT !.target = d, !.stalled = Nothing]))
  <2>1. Keeps(el[e], y)
    BY <1>0, RetargetKeeps
  <2>2. el' = [el EXCEPT ![e] = y]
    BY <1>5 DEF Retarget
  <2> HIDE DEF y
  <2> QED BY <1>5, <2>1, <2>2, OneKeeps DEF Retarget, turbo
<1> QED BY <1>1, <1>2, <1>3, <1>4, <1>5 DEF AppStep

(* Sessions end leases, or change what the next acquire finds. *)
LEMMA SessionStepKeeps ==
    ASSUME ElementInv, NEW d \in Doc, SessionStep(d) PROVE ElementInv'
<1>0. session \in [Doc -> {"open", "blocking", "blocked"}]
  BY DEF ElementInv, PageTypeOK
<1>1. CASE Block(d) \/ Unblock(d)
  <2>1. /\ session' \in [Doc -> {"open", "blocking", "blocked"}]
        /\ UNCHANGED <<el, turbo>>
    BY <1>0, <1>1 DEF Block, Unblock
  <2>2. PageTypeOK'
    BY <2>1 DEF ElementInv, PageTypeOK, turbo
  <2> QED BY <2>1, <2>2 DEF ElementInv, turbo
<1>2. CASE BlockEndsLeases(d)
  <2> DEFINE ends == {e \in Holders(d) : ~el[e].attempt.ended}
  <2>1. /\ session' \in [Doc -> {"open", "blocking", "blocked"}] /\ UNCHANGED turbo
        /\ el' = [e \in Element |-> IF e \in ends THEN EndLease(el[e]) ELSE el[e]]
    BY <1>0, <1>2 DEF BlockEndsLeases
  <2>2. \A e \in ends : e \in Element /\ Leased(el[e])
    BY DEF Holders
  <2> HIDE DEF ends
  <2> QED BY <2>1, <2>2, EndingKeeps
<1>3. CASE Discard(d)
  <2>1. /\ session' \in [Doc -> {"open", "blocking", "blocked"}] /\ UNCHANGED turbo
        /\ el' = [e \in Element |-> IF e \in Holders(d) THEN EndLease(el[e]) ELSE el[e]]
    BY <1>0, <1>3 DEF Discard
  <2>2. \A e \in Holders(d) : e \in Element /\ Leased(el[e])
    BY DEF Holders
  <2> QED BY <2>1, <2>2, EndingKeeps
<1> QED BY <1>1, <1>2, <1>3 DEF SessionStep

-----------------------------------------------------------------------------
(* Turbo. *)

(* Turbo's events and the adapter's timers.  Before-cache detaches what is
   mounted and sets a timer for it; what is not mounted was never bound. *)
LEMMA TurboStepKeeps == ASSUME ElementInv, TurboStep PROVE ElementInv'
<1>0. /\ PageTypeOK /\ \A e \in Element : Good(el[e])
      /\ \A e \in Element : Keeps(el[e], el[e])
      /\ el \in [Element -> ElementState] /\ (~clone => inClone = {})
  BY SelfKeeps DEF ElementInv
<1>1. CASE BeforeCache
  <2> DEFINE y(e) == Deactivate(el[e])
  <2>1. \A e \in Element : /\ Sound(y(e)) /\ Wanted(y(e)) /\ GetsOn(y(e))
                           /\ ~y(e).live /\ y(e).attempt = Nothing
                           /\ y(e).mounted = el[e].mounted
                           /\ el[e].connected \/ el[e].holding => y(e).holding
    BY <1>0, DeactivateFacts DEF Good
  <2>2. /\ el' = [e \in Element |-> IF el[e].mounted THEN y(e) ELSE el[e]]
        /\ timer' = IF \E e \in Element : el[e].mounted THEN 2 ELSE 0
        /\ clone' = TRUE /\ inClone' = {e \in Element : el[e].connected}
        /\ UNCHANGED <<session, preview, rendering>>
    BY <1>1 DEF BeforeCache
  <2> HIDE DEF y
  <2>3. \A e \in Element : el'[e] = IF el[e].mounted THEN y(e) ELSE el[e]
    BY <2>2
  <2>4. \A e \in Element : Good(el'[e]) /\ el'[e] \in ElementState
    BY <1>0, <2>1, <2>3 DEF Good, Sound
  <2>5. el' \in [Element -> ElementState]
    <3>1. \A e \in Element : (IF el[e].mounted THEN y(e) ELSE el[e]) \in ElementState
      BY <2>3, <2>4
    <3> QED BY <2>2, <3>1
  <2>6. ASSUME NEW e \in Element, Waits(el'[e]) PROVE timer' # 0
    <3>1. el[e].mounted
      BY <2>1, <2>3, <2>6 DEF Waits
    <3> QED BY <2>2, <3>1
  <2>7. ASSUME NEW e \in inClone' PROVE Detached(el'[e])
    <3>1. e \in Element /\ el[e].connected
      BY <2>2, <2>7
    <3>2. CASE el[e].mounted
      BY <2>1, <2>3, <3>1, <3>2 DEF Detached
    <3>3. CASE ~el[e].mounted
      BY <1>0, <2>3, <3>1, <3>3 DEF Detached, Good, Sound, Wanted, HeldUntilAnnounced
    <3> QED BY <3>2, <3>3
  <2>8. PageTypeOK'
    BY <1>0, <2>2 DEF PageTypeOK
  <2> QED BY <2>2, <2>4, <2>5, <2>6, <2>7, <2>8 DEF ElementInv
<1>2. CASE FirstTimer \/ Clone
  <2>1. UNCHANGED <<el, session, preview, rendering>> /\ timer' \in {timer, 1}
    BY <1>2 DEF FirstTimer, Clone
  <2>2. inClone' \subseteq inClone /\ clone' \in BOOLEAN /\ (~clone' => inClone' = {})
    BY <1>0, <1>2 DEF FirstTimer, Clone, PageTypeOK
  <2>3. PageTypeOK'
    <3>1. timer' \in 0..2
      BY <1>0, <2>1 DEF PageTypeOK
    <3> QED BY <1>0, <2>1, <2>2, <3>1 DEF PageTypeOK
  <2> QED BY <1>0, <2>1, <2>2, <2>3, PageKeeps
<1>3. CASE SecondTimer \/ RenderEvent
  <2>1. /\ el' = Reconcile(el, preview) /\ preview' = preview /\ clone' = clone
        /\ inClone' = StillCloned(el') \/ inClone' = {}
    BY <1>0, <1>3 DEF SecondTimer, RenderEvent
  <2>2. PageTypeOK'
    <3>1. /\ UNCHANGED <<session, preview>> /\ timer' \in {0, timer}
          /\ clone' = clone /\ inClone' \subseteq inClone
          /\ rendering' \in {rendering, FALSE}
      BY <1>3 DEF SecondTimer, RenderEvent, StillCloned
    <3>2. timer' \in 0..2
      BY <1>0, <3>1 DEF PageTypeOK
    <3> QED BY <1>0, <3>1, <3>2 DEF PageTypeOK
  <2>3. \A e \in inClone : Detached(el[e])
    BY DEF ElementInv
  <2> QED BY <1>0, <2>1, <2>2, <2>3, ReconcileKeeps DEF Good
<1>4. ASSUME NEW p \in BOOLEAN, NEW leaving \in SUBSET Element, Swap(leaving, p)
      PROVE  ElementInv'
  <2> DEFINE y(e) == Request([el[e] EXCEPT !.connected = FALSE])
  <2>1. \A e \in Element : Keeps(el[e], y(e))
    BY <1>0, RemoveKeeps
  <2>2. /\ el' = [e \in Element |-> IF e \in leaving THEN y(e) ELSE el[e]]
        /\ preview' = p /\ rendering' = TRUE
        /\ UNCHANGED <<session, timer, clone, inClone>>
    BY <1>4 DEF Swap
  <2> HIDE DEF y
  <2>3. \A e \in Element : Keeps(el[e], el'[e])
    BY <1>0, <2>1, <2>2
  <2>4. el' \in [Element -> ElementState]
    <3>1. \A e \in Element : (IF e \in leaving THEN y(e) ELSE el[e]) \in ElementState
      BY <1>0, <2>1 DEF Keeps, Good, Sound
    <3> QED BY <2>2, <3>1
  <2>5. PageTypeOK'
    BY <1>0, <2>2 DEF PageTypeOK
  <2> QED BY <1>0, <2>2, <2>3, <2>4, <2>5, PageKeeps
<1> QED BY <1>1, <1>2, <1>3, <1>4 DEF TurboStep

-----------------------------------------------------------------------------
(* An element as it comes from the server or from Turbo's cache. *)
LEMMA FreshIsGood ==
    ASSUME NEW d \in Doc, NEW i \in BOOLEAN, NEW c \in BOOLEAN
    PROVE  LET x == Fresh(d, i, c) IN x \in ElementState /\ Good(x) /\ ~Waits(x)
<1> DEFINE x == Fresh(d, i, c)
<1>1. (i \/ c) \in BOOLEAN /\ (c /\ i) \in BOOLEAN /\ 0 \in 0..1
  OBVIOUS
<1>2. x \in ElementState
  BY <1>1 DEF Fresh, ElementState
<1>3. /\ x.attempt = Nothing /\ x.leases = 0 /\ ~x.connected /\ ~x.mounted /\ ~x.live
      /\ x.inert = (i \/ c) /\ x.holding = c /\ x.saved = (c /\ i) /\ x.app = i
  BY DEF Fresh
<1> HIDE DEF x
<1>4. InertIsSaved(x)
  BY <1>3 DEF InertIsSaved
<1>5. Sound(x)
  BY <1>2, <1>3, <1>4 DEF Sound, LeaseIsOwn, Leased, HeldUntilAnnounced
<1> QED BY <1>2, <1>3, <1>5 DEF Good, Wanted, GetsOn, Waits, x

(* A page of such elements, before any is inserted. *)
LEMMA ElementInvInit == Init => ElementInv
<1> SUFFICES ASSUME Init PROVE ElementInv
  OBVIOUS
<1>1. \A e \in Element : el[e] \in ElementState /\ Good(el[e]) /\ ~Waits(el[e])
  BY FreshIsGood DEF Init
<1>2. el \in [Element -> ElementState]
  <2>1. el = [e \in Element |-> el[e]]
    BY DEF Init
  <2> QED BY <1>1, <2>1
<1>3. PageTypeOK
  <2>1. /\ session = [d \in Doc |-> "open"] /\ preview = FALSE /\ rendering = FALSE
        /\ timer = 0 /\ clone = FALSE /\ inClone = {}
    BY DEF Init
  <2>2. session \in [Doc -> {"open", "blocking", "blocked"}]
    BY <2>1
  <2>3. /\ preview \in BOOLEAN /\ rendering \in BOOLEAN /\ clone \in BOOLEAN
        /\ inClone \subseteq Element
    BY <2>1
  <2>4. timer \in 0..2
    BY <2>1
  <2> QED BY <2>2, <2>3, <2>4, Zenon DEF PageTypeOK
<1> QED BY <1>1, <1>2, <1>3 DEF Init, ElementInv

(* Every step keeps the invariant. *)
LEMMA ElementInvStep == ElementInv /\ [Next]_vars => ElementInv'
<1> SUFFICES ASSUME ElementInv, [Next]_vars PROVE ElementInv'
  OBVIOUS
<1>1. CASE UNCHANGED vars
  BY <1>1 DEF ElementInv, PageTypeOK, vars, turbo
<1>2. CASE Next
  BY <1>2, ElementStepKeeps, AppStepKeeps, SessionStepKeeps, TurboStepKeeps DEF Next
<1> QED BY <1>1, <1>2

-----------------------------------------------------------------------------
(* The theorems. *)

(* Every element stays sound, wanted and getting on, the adapter has a timer or
   a render event to come to whatever waits for it, and what Turbo is about to
   clone is detached: whatever the page, the application, the sessions and the
   promises do, in any order. *)
THEOREM ElementInvariant == Spec => []ElementInv
  BY ElementInvInit, ElementInvStep, PTL DEF Spec

(* The fields of an element and of the page keep their types, and a held
   element is inert. *)
THEOREM TypeCorrect == Spec => []TypeOK
<1>1. ElementInv => TypeOK
  BY DEF ElementInv, PageTypeOK, TypeOK, Good, Sound, InertIsSaved
<1> QED BY <1>1, ElementInvariant, PTL

(* abandon(), destroy(), deactivate() and a session that ends leases release
   what #acquire took, once: an element holds a lease for its current attempt
   and no other. *)
THEOREM LeasesNeverLeak == Spec => []NoLeaseLeaks
<1>1. ElementInv => NoLeaseLeaks
  BY DEF ElementInv, Good, Sound, LeaseIsOwn, NoLeaseLeaks
<1> QED BY <1>1, ElementInvariant, PTL

(* #holdInert and #restoreInert: in the page, nobody types into an element
   whose editor was not announced, and the application's own inert value comes
   back however often the element is held, cloned, moved or cached. *)
THEOREM NobodyTypesBeforeSync == Spec => []InertUntilSynced
<1>1. ElementInv => InertUntilSynced
  BY DEF ElementInv, Good, Sound, InertIsSaved, HeldUntilAnnounced, InertUntilSynced
<1> QED BY <1>1, ElementInvariant, PTL

(* #settle and the adapter's timers: an element that names a document, in a page
   that is shown, is bound or stalled, or something is on its way that takes it
   further. *)
THEOREM NoElementIsForgotten == Spec => []NeverForgotten
<1>1. ElementInv => NeverForgotten
  <2> SUFFICES ASSUME ElementInv, NEW e \in Element, el[e].connected, el[e].mounted,
                      ~el[e].jolted, el[e].target # Nothing, ~preview
               PROVE  \/ Bound(el[e]) \/ el[e].stalled = el[e].target \/ el[e].queued
                      \/ /\ el[e].attempt # Nothing /\ ~el[e].attempt.ended
                         /\ \/ ~el[e].attempt.consumer
                            \/ Leased(el[e]) /\ ~el[e].attempt.synced
                      \/ ~el[e].live /\ (timer # 0 \/ rendering)
    BY DEF NeverForgotten
  <2>1. CASE el[e].live
    BY <2>1 DEF ElementInv, Good, GetsOn, Underway, Bound
  <2>2. CASE ~el[e].live
    BY <2>2 DEF ElementInv, Waits
  <2> QED BY <2>1, <2>2
<1> QED BY <1>1, ElementInvariant, PTL

(* turbo:before-cache detaches every editor of the page, and nothing but a mount
   or a render event of its own makes one live again before Turbo's clone. *)
THEOREM NoEditorIsCloned == Spec => ClonesAreInert
<1>1. ElementInv => [Clone => \A e \in inClone : el[e].holding /\ el[e].attempt = Nothing]_vars
  BY DEF ElementInv, Detached
<1> QED BY <1>1, ElementInvariant, PTL DEF ClonesAreInert

(* #settle's branch that "should not happen, since every change to these facts
   already abandons the attempt" (document_element.ts:224) does not: an attempt
   is always for the document the element should be bound to. *)
THEOREM AttemptsAreWanted ==
    Spec => [](\A e \in Element : el[e].attempt # Nothing => el[e].attempt.doc = Wants(el[e]))
<1>1. ElementInv =>
          \A e \in Element : el[e].attempt # Nothing => el[e].attempt.doc = Wants(el[e])
  BY DEF ElementInv, Good, Wanted, Wants
<1> QED BY <1>1, ElementInvariant, PTL
=============================================================================
