--------------------------- MODULE ProviderProofs ---------------------------
(***************************************************************************)
(* The provider leaks no subscription, a destroy() takes effect, presence  *)
(* is kept and frames act on the subscription they came from, for any      *)
(* number of attempts, presence states and calls in progress.              *)
(*                                                                         *)
(* What the code relies on is an order in the calls in progress: a stop    *)
(* that is under way is the only one, and every frame still applied in its *)
(* own cycle came in on the subscription the provider has.                 *)
(***************************************************************************)
EXTENDS Provider, SequenceTheorems, TLAPS

IsStop(f) == f.call = "stop"
IsCurrent(f) == f.call = "receive" /\ f.current

NoStop(s) == \A n \in 1 .. Len(s) : ~IsStop(s[n])

(* One call of s, and no other, is the stop of attempt i. *)
OneStop(s, i) ==
    \E n \in 1 .. Len(s) : /\ IsStop(s[n]) /\ s[n].attempt = i
                           /\ \A m \in 1 .. Len(s) : IsStop(s[m]) => m = n

NoCurrent(s) == \A n \in 1 .. Len(s) : ~IsCurrent(s[n])

(* The frames of the present cycle came in on attempt i's subscription. *)
CurrentOf(s, i) == \A n \in 1 .. Len(s) : IsCurrent(s[n]) => s[n].attempt = i

Subscribed == {"connecting", "connected", "stopping"}

(* The calls s fit a provider in phase p, of attempt i. *)
StackFits(s, p, i) ==
    /\ IF p = "stopping" THEN OneStop(s, i) ELSE NoStop(s)
    /\ IF p \in Subscribed THEN CurrentOf(s, i) ELSE NoCurrent(s)

(* Where the presence the application asked for is, in each phase. *)
PresenceInv ==
    /\ phase \in {"subscribing", "connecting", "connected"} =>
          stash = Null /\ (Awake => local = wish)
    /\ phase \in {"disconnected", "stopping"} =>
          Awake /\ (IF stash = Null THEN local = wish ELSE stash = wish)
    /\ ~Awake => /\ phase \in {"connecting", "connected"}
                 /\ IF away = Null THEN local = wish ELSE local = Null /\ away = wish

(* A provider that is doing something has connected, and the subscription it
   sends on is the one its last connect() made. *)
HasAttempt ==
    /\ phase \notin {"disconnected", "destroyed"} => attempt \in Attempt /\ MaxDepth # 0
    /\ HasSubscription => wire = attempt

ProviderInv ==
    /\ TypeOK
    /\ StackFits(stack, phase, attempt)
    /\ NoSubscriptionLeaks
    /\ DestroyTakesEffect
    /\ PresenceInv
    /\ FramesStayHome
    /\ HasAttempt

(* A provider that was never connected. *)
LEMMA ProviderInvInit == Init => ProviderInv
<1> SUFFICES ASSUME Init PROVE ProviderInv
  OBVIOUS
<1>1. TypeOK
  <2>1. last \in {"connecting", "connected", "synced", "disconnected"} \X BOOLEAN
    BY DEF Init
  <2>2. stack \in Seq(Calls) /\ Len(stack) <= MaxDepth
    BY EmptySeq, ProviderAssumption DEF Init
  <2>3. phase \in Phases /\ attempt \in 0 .. MaxAttempts /\ subs \in [Attempt -> {"none", "open", "closing", "gone"}]
    BY ProviderAssumption DEF Init, Phases
  <2> QED BY <2>1, <2>2, <2>3 DEF Init, TypeOK
<1>2. StackFits(stack, phase, attempt)
  BY DEF Init, StackFits, NoStop, NoCurrent, Subscribed
<1>3. NoSubscriptionLeaks /\ DestroyTakesEffect /\ PresenceInv /\ FramesStayHome
  BY ProviderAssumption DEF Init, NoSubscriptionLeaks, DestroyTakesEffect, PresenceInv, FramesStayHome, Awake
<1> QED BY <1>1, <1>2, <1>3 DEF ProviderInv, HasAttempt, HasSubscription, Init

-----------------------------------------------------------------------------
(* A call made on top of others. *)
LEMMA PushFacts ==
    ASSUME NEW s \in Seq(Calls), NEW x \in Calls
    PROVE  LET t == <<x>> \o s
           IN  /\ t \in Seq(Calls)
               /\ Len(t) = Len(s) + 1
               /\ t[1] = x
               /\ \A n \in 1 .. Len(s) : t[n + 1] = s[n]
               /\ \A n \in 1 .. Len(t) : n = 1 \/ (n - 1 \in 1 .. Len(s) /\ t[n] = s[n - 1])
<1> DEFINE t == <<x>> \o s
<1>1. <<x>> \in Seq(Calls) /\ Len(<<x>>) = 1 /\ <<x>>[1] = x /\ Len(s) \in Nat
  BY LenProperties
<1>2. /\ t \in Seq(Calls)
      /\ Len(t) = 1 + Len(s)
      /\ \A n \in 1 .. 1 + Len(s) : t[n] = IF n <= 1 THEN <<x>>[n] ELSE s[n - 1]
  BY <1>1, ConcatProperties
<1> QED BY <1>1, <1>2

(* The innermost call, and those that go on when it returns. *)
LEMMA PopFacts ==
    ASSUME NEW s \in Seq(Calls), s # << >>
    PROVE  /\ Head(s) \in Calls
           /\ Tail(s) \in Seq(Calls)
           /\ s = <<Head(s)>> \o Tail(s)
           /\ Len(Tail(s)) = Len(s) - 1
<1>1. Head(s) \in Calls /\ Tail(s) \in Seq(Calls) /\ Len(Tail(s)) = Len(s) - 1
  BY HeadTailProperties
<1>2. s = <<Head(s)>> \o Tail(s)
  OBVIOUS
<1> QED BY <1>1, <1>2

(* What is said of all calls in progress, of the innermost and the others. *)
LEMMA PushedCalls ==
    ASSUME NEW s \in Seq(Calls), NEW x \in Calls, NEW i
    PROVE  LET t == <<x>> \o s
           IN  /\ NoStop(t) <=> ~IsStop(x) /\ NoStop(s)
               /\ OneStop(t, i) <=> IF IsStop(x) THEN x.attempt = i /\ NoStop(s) ELSE OneStop(s, i)
               /\ NoCurrent(t) <=> ~IsCurrent(x) /\ NoCurrent(s)
               /\ CurrentOf(t, i) <=> (IsCurrent(x) => x.attempt = i) /\ CurrentOf(s, i)
<1> DEFINE t == <<x>> \o s
<1>0. Len(s) \in Nat
  BY LenProperties
<1>1. /\ Len(t) = Len(s) + 1
      /\ t[1] = x /\ 1 \in 1 .. Len(t)
      /\ \A n \in 1 .. Len(s) : n + 1 \in 1 .. Len(t) /\ t[n + 1] = s[n]
      /\ \A n \in 1 .. Len(t) : n = 1 \/ (n - 1 \in 1 .. Len(s) /\ t[n] = s[n - 1])
  BY <1>0, PushFacts
<1> HIDE DEF t
<1>2. NoStop(t) <=> ~IsStop(x) /\ NoStop(s)
  BY <1>0, <1>1 DEF NoStop
<1>3. NoCurrent(t) <=> ~IsCurrent(x) /\ NoCurrent(s)
  BY <1>0, <1>1 DEF NoCurrent
<1>4. CurrentOf(t, i) => (IsCurrent(x) => x.attempt = i) /\ CurrentOf(s, i)
  <2> SUFFICES ASSUME CurrentOf(t, i) PROVE (IsCurrent(x) => x.attempt = i) /\ CurrentOf(s, i)
    OBVIOUS
  <2>1. ASSUME NEW n \in 1 .. Len(s), IsCurrent(s[n]) PROVE s[n].attempt = i
    <3>1. n + 1 \in 1 .. Len(t) /\ t[n + 1] = s[n]
      BY <1>1
    <3> QED BY <2>1, <3>1 DEF CurrentOf
  <2>2. IsCurrent(x) => x.attempt = i
    BY <1>1 DEF CurrentOf
  <2> QED BY <2>1, <2>2 DEF CurrentOf
<1>5. (IsCurrent(x) => x.attempt = i) /\ CurrentOf(s, i) => CurrentOf(t, i)
  <2> SUFFICES ASSUME IsCurrent(x) => x.attempt = i, CurrentOf(s, i), NEW n \in 1 .. Len(t), IsCurrent(t[n])
               PROVE  t[n].attempt = i
    BY DEF CurrentOf
  <2>1. CASE n = 1
    BY <1>1, <2>1
  <2>2. CASE n - 1 \in 1 .. Len(s) /\ t[n] = s[n - 1]
    BY <2>2 DEF CurrentOf
  <2> QED BY <1>1, <2>1, <2>2
<1>6. ASSUME OneStop(t, i) PROVE IF IsStop(x) THEN x.attempt = i /\ NoStop(s) ELSE OneStop(s, i)
  <2> PICK n \in 1 .. Len(t) : /\ IsStop(t[n]) /\ t[n].attempt = i
                               /\ \A m \in 1 .. Len(t) : IsStop(t[m]) => m = n
    BY <1>6 DEF OneStop
  <2>1. CASE n = 1
    <3>1. \A m \in 1 .. Len(s) : ~IsStop(s[m])
      <4> SUFFICES ASSUME NEW m \in 1 .. Len(s), IsStop(s[m]) PROVE FALSE
        OBVIOUS
      <4>1. m + 1 \in 1 .. Len(t) /\ IsStop(t[m + 1])
        BY <1>1
      <4>2. m + 1 = 1
        BY <2>1, <4>1
      <4> QED BY <1>0, <4>2
    <3> QED BY <1>1, <2>1, <3>1 DEF NoStop
  <2>2. CASE n # 1
    <3>1. n - 1 \in 1 .. Len(s) /\ t[n] = s[n - 1]
      BY <1>1, <2>2
    <3>2. ~IsStop(x)
      BY <1>1, <2>2
    <3>3. ASSUME NEW m \in 1 .. Len(s), IsStop(s[m]) PROVE m = n - 1
      <4>1. m + 1 \in 1 .. Len(t) /\ IsStop(t[m + 1])
        BY <1>1, <3>3
      <4>2. m + 1 = n
        BY <4>1
      <4> QED BY <1>0, <4>2
    <3> QED BY <3>1, <3>2, <3>3 DEF OneStop
  <2> QED BY <2>1, <2>2
<1>7. ASSUME IF IsStop(x) THEN x.attempt = i /\ NoStop(s) ELSE OneStop(s, i) PROVE OneStop(t, i)
  <2>1. CASE IsStop(x)
    <3>1. ASSUME NEW m \in 1 .. Len(t), IsStop(t[m]) PROVE m = 1
      BY <1>1, <1>7, <2>1, <3>1 DEF NoStop
    <3> QED BY <1>1, <1>7, <2>1, <3>1 DEF OneStop
  <2>2. CASE ~IsStop(x)
    <3> PICK n \in 1 .. Len(s) : /\ IsStop(s[n]) /\ s[n].attempt = i
                                 /\ \A m \in 1 .. Len(s) : IsStop(s[m]) => m = n
      BY <1>7, <2>2 DEF OneStop
    <3>1. n + 1 \in 1 .. Len(t) /\ t[n + 1] = s[n]
      BY <1>0, <1>1
    <3>2. ASSUME NEW m \in 1 .. Len(t), IsStop(t[m]) PROVE m = n + 1
      <4>1. m - 1 \in 1 .. Len(s) /\ t[m] = s[m - 1]
        BY <1>1, <2>2, <3>2
      <4>2. m - 1 = n
        BY <3>2, <4>1
      <4> QED BY <1>0, <1>1, <4>2
    <3> QED BY <3>1, <3>2 DEF OneStop
  <2> QED BY <2>1, <2>2
<1> QED BY <1>2, <1>3, <1>4, <1>5, <1>6, <1>7 DEF t

(* resume() and pause(): no frame is of the new cycle, the calls are the same. *)
LEMMA NewCycleFacts ==
    ASSUME NEW s \in Seq(Calls)
    PROVE  /\ NewCycle(s) \in Seq(Calls)
           /\ Len(NewCycle(s)) = Len(s)
           /\ NoStop(s) => NoStop(NewCycle(s))
           /\ NoCurrent(NewCycle(s))
<1>0. Len(s) \in Nat /\ DOMAIN s = 1 .. Len(s) /\ \A n \in 1 .. Len(s) : s[n] \in Calls
  BY LenProperties, ElementOfSeq
<1>1. \A n \in 1 .. Len(s) : NewCycle(s)[n] = IF s[n].call = "receive" THEN [s[n] EXCEPT !.current = FALSE] ELSE s[n]
  BY <1>0 DEF NewCycle
<1>2. ASSUME NEW n \in 1 .. Len(s)
      PROVE  /\ NewCycle(s)[n] \in Calls
             /\ ~IsCurrent(NewCycle(s)[n])
             /\ ~IsStop(s[n]) => ~IsStop(NewCycle(s)[n])
  BY <1>0, <1>1 DEF Calls, IsCurrent, IsStop
<1>3. DOMAIN NewCycle(s) = 1 .. Len(s)
  BY <1>0 DEF NewCycle
<1>4. NewCycle(s) \in [1 .. Len(s) -> Calls]
  BY <1>0, <1>2 DEF NewCycle
<1>5. NewCycle(s) \in Seq(Calls) /\ Len(NewCycle(s)) = Len(s)
  BY <1>0, <1>4, SeqDef, LenProperties
<1> QED BY <1>2, <1>5 DEF NoStop, NoCurrent
-----------------------------------------------------------------------------
(* #refreshStatus reports a status. *)
LEMMA TellFacts ==
    ASSUME NEW p, NEW c, NEW u \in BOOLEAN, Tell(p, c, u)
    PROVE  last' \in {"connecting", "connected", "synced", "disconnected"} \X BOOLEAN
<1>1. StatusOf(p, c) \in {"connecting", "connected", "synced", "disconnected"}
  BY DEF StatusOf
<1> QED BY <1>1 DEF Tell

(* A step that changes neither the connection nor the presence. *)
LEMMA QuietKeeps ==
    ASSUME ProviderInv, TypeOK', UNCHANGED <<conn, presence, doomed, astray>>,
           StackFits(stack', phase, attempt)
    PROVE  ProviderInv'
<1>1. StackFits(stack, phase, attempt)'
  BY DEF conn
<1>2. NoSubscriptionLeaks' /\ DestroyTakesEffect' /\ FramesStayHome' /\ HasAttempt'
  BY DEF ProviderInv, NoSubscriptionLeaks, HasSubscription, DestroyTakesEffect, FramesStayHome, HasAttempt, conn
<1>3. PresenceInv'
  BY DEF ProviderInv, PresenceInv, Awake, conn, presence
<1> QED BY <1>1, <1>2, <1>3 DEF ProviderInv

(* connect(), from a call of its own or in a renewal. *)
LEMMA SubscribeKeeps ==
    ASSUME ProviderInv, NEW under \in Seq(Calls), Len(under) < MaxDepth, Awake,
           StackFits(under, phase, attempt), Subscribe(under)
    PROVE  ProviderInv'
<1> DEFINE x == [call |-> "connect", at |-> IF stash = Null THEN "create" ELSE "presence", attempt |-> attempt + 1]
<1>0. TypeOK /\ Len(under) \in Nat /\ MaxDepth \in Nat /\ MaxAttempts \in Nat
  BY LenProperties, ProviderAssumption DEF ProviderInv
<1>1. attempt + 1 \in Attempt /\ attempt' = attempt + 1 /\ phase = "disconnected" /\ phase' = "subscribing"
  BY <1>0 DEF TypeOK, Subscribe, Attempt
<1>2. x \in Calls /\ ~IsStop(x) /\ ~IsCurrent(x)
  BY <1>1 DEF Calls, IsStop, IsCurrent
<1>3. stack' = <<x>> \o under
  BY DEF Subscribe
<1> HIDE DEF x
<1>4. stack' \in Seq(Calls) /\ Len(stack') = Len(under) + 1
  BY <1>2, <1>3, PushFacts
<1>5. StackFits(stack', phase', attempt')
  BY <1>1, <1>2, <1>3, PushedCalls DEF StackFits, Subscribed
<1>6. TypeOK'
  BY <1>0, <1>1, <1>4 DEF TypeOK, Subscribe, Phases, Attempt
<1>7. NoSubscriptionLeaks' /\ DestroyTakesEffect' /\ FramesStayHome' /\ HasAttempt'
  BY <1>0, <1>1 DEF ProviderInv, Subscribe, NoSubscriptionLeaks, HasSubscription, DestroyTakesEffect, FramesStayHome, HasAttempt
<1>8. PresenceInv'
  BY <1>1 DEF ProviderInv, Subscribe, PresenceInv, Awake
<1> QED BY <1>5, <1>6, <1>7, <1>8 DEF ProviderInv

(* #stop, whatever it finds, up to the listeners. *)
LEMMA StopKeeps ==
    ASSUME ProviderInv, NEW why \in {"disconnect", "reject", "destroy"},
           NEW under \in Seq(Calls), Len(under) < MaxDepth, Awake,
           StackFits(under, phase, attempt), Stop(why, under),
           deferred' \subseteq deferred, doomed' \in BOOLEAN, doomed' => doomed \/ why = "destroy"
    PROVE  ProviderInv'
<1>0. TypeOK /\ Len(under) \in Nat /\ MaxDepth \in Nat
  BY LenProperties, ProviderAssumption DEF ProviderInv
<1>1. CASE StopAtOnce(why, under)
  <2>1. pending' \in BOOLEAN /\ Tell(phase', synced', pending')
    BY <1>0, <1>1 DEF TypeOK, StopAtOnce
  <2>2. last' \in {"connecting", "connected", "synced", "disconnected"} \X BOOLEAN
    BY <2>1, TellFacts
  <2>3. phase' = IF why = "destroy" THEN "destroyed" ELSE "disconnected"
    BY <1>1 DEF StopAtOnce
  <2>4. TypeOK'
    BY <1>0, <1>1, <2>1, <2>2, <2>3 DEF TypeOK, StopAtOnce, Phases
  <2>5. StackFits(stack', phase', attempt')
    BY <1>1, <2>3 DEF StopAtOnce, StackFits, Subscribed
  <2>6. NoSubscriptionLeaks' /\ DestroyTakesEffect' /\ FramesStayHome' /\ HasAttempt'
    BY <1>1, <2>3 DEF ProviderInv, StopAtOnce, NoSubscriptionLeaks, HasSubscription, DestroyTakesEffect,
                      FramesStayHome, HasAttempt
  <2>7. PresenceInv'
    BY <1>1, <2>3 DEF ProviderInv, StopAtOnce, PresenceInv, Awake
  <2> QED BY <2>4, <2>5, <2>6, <2>7 DEF ProviderInv
<1>2. CASE StopBegins(why, under)
  <2> DEFINE x == [call |-> "stop", at |-> "removing", attempt |-> attempt]
  <2>1. attempt \in Attempt /\ phase \in {"connecting", "connected"} /\ phase' = "stopping" /\ attempt' = attempt
    BY <1>2 DEF ProviderInv, HasAttempt, HasSubscription, StopBegins
  <2>2. x \in Calls /\ IsStop(x) /\ ~IsCurrent(x) /\ x.attempt = attempt
    BY <2>1 DEF Calls, IsStop, IsCurrent
  <2>3. stack' = <<x>> \o under
    BY <1>2 DEF StopBegins
  <2> HIDE DEF x
  <2>4. stack' \in Seq(Calls) /\ Len(stack') = Len(under) + 1
    BY <2>2, <2>3, PushFacts
  <2>5. StackFits(stack', phase', attempt')
    BY <2>1, <2>2, <2>3, PushedCalls DEF StackFits, Subscribed
  <2>6. TypeOK'
    BY <1>0, <1>2, <2>1, <2>4 DEF TypeOK, StopBegins, Phases
  <2>7. NoSubscriptionLeaks' /\ DestroyTakesEffect' /\ FramesStayHome' /\ HasAttempt'
    BY <1>2, <2>1 DEF ProviderInv, StopBegins, NoSubscriptionLeaks, HasSubscription, DestroyTakesEffect,
                      FramesStayHome, HasAttempt
  <2>8. PresenceInv'
    BY <1>2, <2>1 DEF ProviderInv, StopBegins, PresenceInv, Awake
  <2> QED BY <2>5, <2>6, <2>7, <2>8 DEF ProviderInv
<1>3. CASE StopUpgrades(why, under)
  <2>1. TypeOK'
    BY <1>0, <1>3 DEF TypeOK, StopUpgrades, presence
  <2>2. StackFits(stack', phase', attempt')
    BY <1>3 DEF StopUpgrades
  <2>3. NoSubscriptionLeaks' /\ DestroyTakesEffect' /\ FramesStayHome' /\ HasAttempt'
    BY <1>3 DEF ProviderInv, StopUpgrades, NoSubscriptionLeaks, HasSubscription, DestroyTakesEffect,
                FramesStayHome, HasAttempt
  <2>4. PresenceInv'
    BY <1>3 DEF ProviderInv, StopUpgrades, PresenceInv, Awake, presence
  <2> QED BY <2>1, <2>2, <2>3, <2>4 DEF ProviderInv
<1>4. CASE StopNothing(why, under)
  <2>1. TypeOK'
    BY <1>0, <1>4 DEF TypeOK, StopNothing, conn, presence
  <2>2. StackFits(stack', phase', attempt')
    BY <1>4 DEF StopNothing, conn
  <2>3. NoSubscriptionLeaks' /\ DestroyTakesEffect' /\ FramesStayHome' /\ HasAttempt'
    BY <1>4 DEF ProviderInv, StopNothing, NoSubscriptionLeaks, HasSubscription, DestroyTakesEffect,
                FramesStayHome, HasAttempt, conn
  <2>4. PresenceInv'
    BY <1>4 DEF ProviderInv, StopNothing, PresenceInv, Awake, conn, presence
  <2> QED BY <2>1, <2>2, <2>3, <2>4 DEF ProviderInv
<1> QED BY <1>1, <1>2, <1>3, <1>4 DEF Stop
-----------------------------------------------------------------------------
(* The calls the application makes. *)
LEMMA AppStepKeeps == ASSUME ProviderInv, AppStep PROVE ProviderInv'
<1>0. /\ TypeOK /\ stack \in Seq(Calls) /\ Len(stack) \in Nat /\ MaxDepth \in Nat
      /\ StackFits(stack, phase, attempt)
  BY LenProperties, ProviderAssumption DEF ProviderInv, TypeOK
<1>1. CASE Connect
  BY <1>0, <1>1, SubscribeKeeps DEF Connect, AppRuns
<1>2. CASE Disconnect
  <2>1. Len(stack) < MaxDepth /\ Awake /\ Stop("disconnect", stack) /\ UNCHANGED <<deferred, doomed>>
    BY <1>2 DEF Disconnect, AppRuns
  <2> QED BY <1>0, <2>1, StopKeeps DEF TypeOK
<1>3. CASE Destroy
  <2>1. Len(stack) < MaxDepth /\ Awake /\ Stop("destroy", stack) /\ doomed' = TRUE /\ UNCHANGED deferred
    BY <1>3 DEF Destroy, AppRuns
  <2> QED BY <1>0, <2>1, StopKeeps
<1>4. CASE Renew
  <2> DEFINE x == [call |-> "renew", at |-> "between"]
  <2>1. /\ Len(stack) + 1 < MaxDepth /\ Awake /\ Stop("disconnect", <<x>> \o stack)
        /\ UNCHANGED <<deferred, doomed>>
    BY <1>4 DEF Renew, AppRuns
  <2>2. x \in Calls /\ ~IsStop(x) /\ ~IsCurrent(x)
    BY DEF Calls, IsStop, IsCurrent
  <2> HIDE DEF x
  <2>3. <<x>> \o stack \in Seq(Calls) /\ Len(<<x>> \o stack) = Len(stack) + 1
    BY <1>0, <2>2, PushFacts
  <2>4. StackFits(<<x>> \o stack, phase, attempt)
    BY <1>0, <2>2, PushedCalls DEF StackFits
  <2>5. Len(<<x>> \o stack) < MaxDepth
    BY <2>1, <2>3
  <2> QED BY <1>0, <2>1, <2>3, <2>4, <2>5, StopKeeps DEF TypeOK
<1>5. CASE Edit
  <2>1. last' \in {"connecting", "connected", "synced", "disconnected"} \X BOOLEAN
    <3>1. Tell(phase', synced', TRUE)
      BY <1>5 DEF Edit
    <3> QED BY <3>1, TellFacts
  <2>2. TypeOK'
    BY <1>0, <1>5, <2>1 DEF TypeOK, Edit, conn, presence
  <2> QED BY <1>0, <1>5, <2>2, QuietKeeps DEF Edit
<1>6. ASSUME NEW p \in Presence \cup {Null}, SetPresence(p) PROVE ProviderInv'
  <2>1. TypeOK'
    BY <1>0, <1>6 DEF TypeOK, SetPresence, conn
  <2>2. StackFits(stack, phase, attempt)' /\ NoSubscriptionLeaks' /\ DestroyTakesEffect' /\ FramesStayHome' /\ HasAttempt'
    BY <1>6 DEF ProviderInv, SetPresence, conn, NoSubscriptionLeaks, HasSubscription, DestroyTakesEffect,
                FramesStayHome, HasAttempt
  <2>3. phase # "stopping" /\ phase # "destroyed" /\ phase \in Phases /\ Awake
    <3>1. stack = << >> /\ Len(stack) = 0
      BY <1>0, <1>6 DEF SetPresence, Idle
    <3>2. ~OneStop(stack, attempt)
      BY <3>1 DEF OneStop
    <3> QED BY <1>0, <1>6, <3>2 DEF StackFits, SetPresence, Idle, TypeOK
  <2>4. PresenceInv'
    BY <1>6, <2>3 DEF ProviderInv, SetPresence, PresenceInv, Awake, conn, Phases
  <2> QED BY <2>1, <2>2, <2>4 DEF ProviderInv
<1> QED BY <1>1, <1>2, <1>3, <1>4, <1>5, <1>6 DEF AppStep, Connect

(* The innermost call goes on. *)
LEMMA InnermostFacts ==
    ASSUME ProviderInv, stack # << >>
    PROVE  /\ Head(stack) \in Calls
           /\ Tail(stack) \in Seq(Calls)
           /\ stack = <<Head(stack)>> \o Tail(stack)
           /\ Len(Tail(stack)) \in Nat /\ Len(Tail(stack)) < MaxDepth /\ MaxDepth \in Nat /\ MaxDepth # 0
           /\ ~IsStop(Head(stack)) => StackFits(Tail(stack), phase, attempt)
           /\ IsStop(Head(stack)) => /\ phase = "stopping" /\ Head(stack).attempt = attempt
                                     /\ NoStop(Tail(stack))
           /\ IsCurrent(Head(stack)) => phase \in Subscribed /\ Head(stack).attempt = attempt
           /\ Head(stack).call \in {"connect", "stop", "receive"} => Head(stack).attempt \in Attempt
           /\ Head(stack).call = "receive" => Head(stack).frame \in {"step1", "step2"}
<1>1. stack \in Seq(Calls) /\ Len(stack) <= MaxDepth /\ MaxDepth \in Nat
  BY ProviderAssumption DEF ProviderInv, TypeOK
<1>2. /\ Head(stack) \in Calls
      /\ Tail(stack) \in Seq(Calls)
      /\ stack = <<Head(stack)>> \o Tail(stack)
      /\ Len(Tail(stack)) = Len(stack) - 1
  BY <1>1, PopFacts
<1>3. Len(Tail(stack)) \in Nat /\ Len(stack) \in Nat
  BY <1>1, <1>2, LenProperties
<1>4. Len(Tail(stack)) < MaxDepth /\ MaxDepth # 0
  BY <1>1, <1>2, <1>3
<1>5. /\ Head(stack).call \in {"connect", "stop", "receive"} => Head(stack).attempt \in Attempt
      /\ Head(stack).call = "receive" => Head(stack).frame \in {"step1", "step2"}
  BY <1>2 DEF Calls
<1> DEFINE x == Head(stack)
           s == Tail(stack)
<1> HIDE DEF x, s
<1>6. StackFits(<<x>> \o s, phase, attempt) /\ x \in Calls /\ s \in Seq(Calls)
  BY <1>2 DEF ProviderInv, x, s
<1>7. /\ ~IsStop(x) => StackFits(s, phase, attempt)
      /\ IsStop(x) => phase = "stopping" /\ x.attempt = attempt /\ NoStop(s)
      /\ IsCurrent(x) => phase \in Subscribed /\ x.attempt = attempt
  BY <1>6, PushedCalls DEF StackFits
<1> QED BY <1>1, <1>2, <1>3, <1>4, <1>5, <1>7 DEF x, s

(* The awareness listeners, and the callbacks inside create(). *)
LEMMA RestoredKeeps == ASSUME ProviderInv, Restored PROVE ProviderInv'
<1>1. stack # << >> /\ Head(stack).call = "connect" /\ Head(stack).at = "presence"
  BY DEF Restored
<1>2. Head(stack) \in Calls /\ ~IsStop(Head(stack)) /\ Tail(stack) \in Seq(Calls)
      /\ Len(Tail(stack)) \in Nat /\ Len(Tail(stack)) < MaxDepth /\ MaxDepth \in Nat
      /\ StackFits(Tail(stack), phase, attempt)
  BY <1>1, InnermostFacts DEF IsStop
<1> DEFINE x == [Head(stack) EXCEPT !.at = "create"]
           s == Tail(stack)
<1>3. x \in Calls /\ ~IsStop(x) /\ ~IsCurrent(x)
  BY <1>1, <1>2 DEF Calls, IsStop, IsCurrent
<1>4. stack' = <<x>> \o s \/ stack' = s
  BY DEF Restored
<1> HIDE DEF x, s
<1>5. s \in Seq(Calls) /\ Len(s) \in Nat /\ Len(s) < MaxDepth /\ StackFits(s, phase, attempt)
  BY <1>2 DEF s
<1>6. /\ <<x>> \o s \in Seq(Calls) /\ Len(<<x>> \o s) = Len(s) + 1
      /\ StackFits(<<x>> \o s, phase, attempt)
  BY <1>3, <1>5, PushFacts, PushedCalls DEF StackFits
<1>7. stack' \in Seq(Calls) /\ Len(stack') <= MaxDepth /\ StackFits(stack', phase, attempt)
  <2>1. CASE stack' = s
    BY <1>2, <1>5, <2>1
  <2>2. CASE stack' = <<x>> \o s
    <3>1. Len(stack') <= MaxDepth
      BY <1>2, <1>5, <1>6, <2>2
    <3> QED BY <1>6, <2>2, <3>1
  <2> QED BY <1>4, <2>1, <2>2
<1>8. TypeOK'
  BY <1>7 DEF ProviderInv, TypeOK, Restored, conn, presence
<1> QED BY <1>7, <1>8, QuietKeeps DEF Restored

(* A callback of the cable in the middle of create(). *)
LEMMA CallbackKeeps ==
    ASSUME ProviderInv, NEW callback \in Callback, CallbackInCreate(callback)
    PROVE  ProviderInv'
<1>1. Head(stack).attempt \in Attempt
  BY InnermostFacts DEF CallbackInCreate
<1>2. TypeOK'
  BY <1>1 DEF ProviderInv, TypeOK, CallbackInCreate, presence
<1> QED BY <1>2, QuietKeeps DEF CallbackInCreate, conn, ProviderInv

(* create() returns: the subscription of an attempt that was stopped meanwhile
   goes. *)
LEMMA CreatedKeeps == ASSUME ProviderInv, Created PROVE ProviderInv'
<1> DEFINE i == Head(stack).attempt
<1>1. stack # << >> /\ Head(stack).call = "connect" /\ stack' = Tail(stack)
  BY DEF Created
<1>2. /\ i \in Attempt /\ Tail(stack) \in Seq(Calls) /\ Len(Tail(stack)) \in Nat /\ Len(Tail(stack)) < MaxDepth
      /\ MaxDepth \in Nat /\ MaxDepth # 0 /\ StackFits(Tail(stack), phase, attempt)
  BY <1>1, InnermostFacts DEF IsStop
<1>3. /\ UNCHANGED <<attempt, reason, deferred, synced, pending, presence, doomed, astray>>
      /\ IF Subscribing(i)
         THEN /\ subs' = [subs EXCEPT ![i] = "open"]
              /\ phase' = "connecting"
              /\ wire' = i
              /\ Tell("connecting", synced, pending)
         ELSE /\ subs' = [subs EXCEPT ![i] = "closing"]
              /\ UNCHANGED <<phase, wire, last>>
  BY DEF Created
<1> HIDE DEF i
<1>4. TypeOK /\ pending \in BOOLEAN
  BY DEF ProviderInv, TypeOK
<1>5. last' \in {"connecting", "connected", "synced", "disconnected"} \X BOOLEAN
  BY <1>3, <1>4, TellFacts DEF TypeOK
<1>6. TypeOK'
  <2>1. wire' \in 0..MaxAttempts
    BY <1>2, <1>3, <1>4 DEF TypeOK, Attempt
  <2> QED BY <1>1, <1>2, <1>3, <1>4, <1>5, <2>1 DEF TypeOK, Subscribing, Phases, presence
<1>7. StackFits(stack', phase', attempt')
  <2>1. CASE Subscribing(i)
    <3>1. NoStop(Tail(stack)) /\ NoCurrent(Tail(stack))
      BY <1>2, <2>1 DEF Subscribing, StackFits, Subscribed
    <3>2. CurrentOf(Tail(stack), attempt)
      BY <3>1 DEF NoCurrent, CurrentOf
    <3> QED BY <1>1, <1>3, <2>1, <3>1, <3>2 DEF StackFits
  <2>2. CASE ~Subscribing(i)
    BY <1>1, <1>2, <1>3, <2>2
  <2> QED BY <2>1, <2>2
<1>8. NoSubscriptionLeaks'
  BY <1>2, <1>3, <1>4 DEF ProviderInv, NoSubscriptionLeaks, HasSubscription, Subscribing, TypeOK
<1>9. DestroyTakesEffect' /\ FramesStayHome' /\ HasAttempt'
  BY <1>2, <1>3 DEF ProviderInv, DestroyTakesEffect, FramesStayHome, HasAttempt, HasSubscription, Subscribing
<1>10. PresenceInv'
  BY <1>3 DEF ProviderInv, PresenceInv, Awake, Subscribing, presence
<1> QED BY <1>6, <1>7, <1>8, <1>9, <1>10 DEF ProviderInv

(* create() throws, and connect() with it. *)
LEMMA CreateFailsKeeps == ASSUME ProviderInv, CreateFails PROVE ProviderInv'
<1> DEFINE i == Head(stack).attempt
<1>1. stack # << >> /\ Head(stack).call = "connect" /\ stack' = Tail(stack)
  BY DEF CreateFails
<1>2. /\ Tail(stack) \in Seq(Calls) /\ Len(Tail(stack)) \in Nat /\ Len(Tail(stack)) < MaxDepth
      /\ MaxDepth \in Nat /\ StackFits(Tail(stack), phase, attempt)
  BY <1>1, InnermostFacts DEF IsStop
<1>3. /\ UNCHANGED <<attempt, reason, subs, wire, deferred, synced, pending, presence, doomed, astray>>
      /\ IF Subscribing(i)
         THEN phase' = "disconnected" /\ Tell("disconnected", synced, pending)
         ELSE UNCHANGED <<phase, last>>
  BY DEF CreateFails
<1> HIDE DEF i
<1>4. TypeOK /\ pending \in BOOLEAN
  BY DEF ProviderInv, TypeOK
<1>5. last' \in {"connecting", "connected", "synced", "disconnected"} \X BOOLEAN
  BY <1>3, <1>4, TellFacts DEF TypeOK
<1>6. TypeOK'
  BY <1>1, <1>2, <1>3, <1>4, <1>5 DEF TypeOK, Subscribing, Phases, presence
<1>7. StackFits(stack', phase', attempt')
  BY <1>1, <1>2, <1>3 DEF StackFits, Subscribing, Subscribed
<1>8. NoSubscriptionLeaks' /\ DestroyTakesEffect' /\ FramesStayHome' /\ HasAttempt'
  BY <1>3 DEF ProviderInv, NoSubscriptionLeaks, HasSubscription, DestroyTakesEffect, FramesStayHome,
              HasAttempt, Subscribing
<1>9. PresenceInv'
  BY <1>3 DEF ProviderInv, PresenceInv, Awake, Subscribing, presence
<1> QED BY <1>6, <1>7, <1>8, <1>9 DEF ProviderInv

(* The rest of #stop: the attempt's subscription is on its way out, and so is
   the cycle. *)
LEMMA StopEndsKeeps == ASSUME ProviderInv, StopEnds PROVE ProviderInv'
<1> DEFINE s == Tail(stack)
<1>1. stack # << >> /\ IsStop(Head(stack)) /\ Awake
  BY DEF StopEnds, IsStop
<1>2. /\ s \in Seq(Calls) /\ Len(s) \in Nat /\ Len(s) < MaxDepth /\ MaxDepth \in Nat /\ NoStop(s)
      /\ phase = "stopping" /\ Head(stack).attempt = attempt
  BY <1>1, InnermostFacts
<1>3. /\ subs' = [subs EXCEPT ![attempt] = "closing"]
      /\ wire' = 0
      /\ synced' = FALSE
      /\ phase' = IF reason = "destroy" THEN "destroyed" ELSE "disconnected"
      /\ pending' = (pending /\ reason # "destroy")
      /\ reason' = "none"
      /\ stack' = NewCycle(s)
      /\ UNCHANGED <<attempt, deferred, presence, doomed, astray>>
      /\ Tell(phase', synced', pending')
  BY <1>2 DEF StopEnds
<1> HIDE DEF s
<1>4. TypeOK /\ pending' \in BOOLEAN
  BY <1>3 DEF ProviderInv, TypeOK
<1>5. last' \in {"connecting", "connected", "synced", "disconnected"} \X BOOLEAN
  BY <1>3, <1>4, TellFacts
<1>6. stack' \in Seq(Calls) /\ Len(stack') <= MaxDepth /\ NoStop(stack') /\ NoCurrent(stack')
  BY <1>2, <1>3, NewCycleFacts
<1>7. TypeOK'
  <2>1. wire' \in 0..MaxAttempts
    BY <1>3, ProviderAssumption
  <2> QED BY <1>3, <1>4, <1>5, <1>6, <2>1 DEF TypeOK, Phases, presence
<1>8. StackFits(stack', phase', attempt')
  BY <1>3, <1>6 DEF StackFits, Subscribed
<1>9. NoSubscriptionLeaks'
  BY <1>2, <1>3, <1>4 DEF ProviderInv, NoSubscriptionLeaks, HasSubscription, HasAttempt, TypeOK
<1>10. DestroyTakesEffect' /\ FramesStayHome' /\ HasAttempt'
  BY <1>2, <1>3 DEF ProviderInv, DestroyTakesEffect, FramesStayHome, HasAttempt, HasSubscription
<1>11. PresenceInv'
  BY <1>2, <1>3 DEF ProviderInv, PresenceInv, Awake, presence
<1> QED BY <1>7, <1>8, <1>9, <1>10, <1>11 DEF ProviderInv

(* renew() goes on, from its disconnect to its connect. *)
LEMMA RenewConnectsKeeps == ASSUME ProviderInv, RenewConnects PROVE ProviderInv'
<1>1. stack # << >> /\ ~IsStop(Head(stack)) /\ Awake
  BY DEF RenewConnects, IsStop
<1>2. /\ Tail(stack) \in Seq(Calls) /\ Len(Tail(stack)) \in Nat /\ Len(Tail(stack)) < MaxDepth
      /\ MaxDepth \in Nat /\ StackFits(Tail(stack), phase, attempt)
  BY <1>1, InnermostFacts
<1>3. CASE Subscribe(Tail(stack))
  BY <1>1, <1>2, <1>3, SubscribeKeeps
<1>4. CASE /\ stack' = Tail(stack)
           /\ UNCHANGED <<conn, deferred, synced, pending, last, presence, doomed, astray>>
  <2>1. TypeOK'
    BY <1>2, <1>4 DEF ProviderInv, TypeOK, conn, presence
  <2> QED BY <1>2, <1>4, <2>1, QuietKeeps
<1> QED BY <1>3, <1>4 DEF RenewConnects

(* The rest of #receive.  A frame of the present cycle came in on the present
   attempt's subscription, which is the one the provider sends on. *)
LEMMA ReceivedKeeps == ASSUME ProviderInv, Received PROVE ProviderInv'
<1>1. stack # << >> /\ Head(stack).call = "receive" /\ stack' = Tail(stack)
  BY DEF Received
<1>2. /\ Tail(stack) \in Seq(Calls) /\ Len(Tail(stack)) \in Nat /\ Len(Tail(stack)) < MaxDepth
      /\ MaxDepth \in Nat /\ StackFits(Tail(stack), phase, attempt)
      /\ IsCurrent(Head(stack)) => phase \in Subscribed /\ Head(stack).attempt = attempt
  BY <1>1, InnermostFacts DEF IsStop
<1>3. astray' = astray
  <2>1. astray \in BOOLEAN /\ (HasSubscription => wire = attempt)
    BY DEF ProviderInv, TypeOK, HasAttempt
  <2>2. ASSUME MarksSynced(Head(stack)) \/ Answers(Head(stack)) PROVE wire = Head(stack).attempt
    <3>1. IsCurrent(Head(stack))
      BY <1>1, <2>2 DEF MarksSynced, Answers, IsCurrent
    <3> QED BY <1>2, <2>1, <3>1 DEF Subscribed, HasSubscription
  <2> QED BY <2>1, <2>2 DEF Received
<1>4. synced' \in BOOLEAN /\ pending' \in BOOLEAN
  <2>1. MarksSynced(Head(stack)) \in BOOLEAN
    BY DEF MarksSynced
  <2> QED BY <2>1 DEF Received, ProviderInv, TypeOK
<1>5. last' \in {"connecting", "connected", "synced", "disconnected"} \X BOOLEAN
  BY <1>4, TellFacts DEF Received
<1>6. UNCHANGED <<conn, deferred, pending, presence, doomed>>
  BY DEF Received
<1>7. TypeOK'
  BY <1>1, <1>2, <1>3, <1>4, <1>5, <1>6 DEF ProviderInv, TypeOK, conn, presence
<1> QED BY <1>1, <1>2, <1>3, <1>6, <1>7, QuietKeeps

-----------------------------------------------------------------------------
(* What the cable brings, between calls. *)
LEMMA EventKeeps ==
    ASSUME ProviderInv, NEW i \in Attempt, Idle, deferred' \subseteq deferred,
           OnConnected(i) \/ OnLost(i) \/ OnAck(i)
    PROVE  ProviderInv'
<1>1. /\ phase \in {"connecting", "connected"} /\ phase' \in {"connecting", "connected"}
      /\ UNCHANGED <<attempt, reason, subs, wire, presence, stack, doomed, astray>>
      /\ Tell(phase', synced', pending')
  BY DEF OnConnected, OnLost, OnAck, Active
<1>2. TypeOK /\ synced' \in BOOLEAN /\ pending' \in BOOLEAN
  BY DEF ProviderInv, TypeOK, OnConnected, OnLost, OnAck
<1>3. last' \in {"connecting", "connected", "synced", "disconnected"} \X BOOLEAN
  BY <1>1, <1>2, TellFacts
<1>4. TypeOK'
  BY <1>1, <1>2, <1>3 DEF TypeOK, Phases, presence
<1>5. StackFits(stack', phase', attempt')
  BY <1>1 DEF ProviderInv, StackFits, Subscribed
<1>6. NoSubscriptionLeaks' /\ DestroyTakesEffect' /\ FramesStayHome' /\ HasAttempt'
  BY <1>1 DEF ProviderInv, NoSubscriptionLeaks, HasSubscription, DestroyTakesEffect, FramesStayHome, HasAttempt
<1>7. PresenceInv'
  BY <1>1 DEF ProviderInv, PresenceInv, Awake, presence, Idle
<1> QED BY <1>4, <1>5, <1>6, <1>7 DEF ProviderInv

(* The channel refuses the subscription. *)
LEMMA RejectionKeeps ==
    ASSUME ProviderInv, NEW i \in Attempt, Idle, deferred' \subseteq deferred, OnRejected(i)
    PROVE  ProviderInv'
<1>1. stack = << >> /\ Awake /\ Active(i) /\ Stop("reject", stack) /\ UNCHANGED doomed
  BY DEF Idle, OnRejected
<1>2. MaxDepth # 0 /\ MaxDepth \in Nat /\ Len(stack) = 0
  BY <1>1, ProviderAssumption DEF ProviderInv, HasAttempt, HasSubscription, Active
<1>3. stack \in Seq(Calls) /\ Len(stack) < MaxDepth /\ StackFits(stack, phase, attempt) /\ doomed \in BOOLEAN
  BY <1>2 DEF ProviderInv, TypeOK
<1> QED BY <1>1, <1>3, StopKeeps

(* A frame arrives, and the observers of what it changes run. *)
LEMMA FrameKeeps ==
    ASSUME ProviderInv, NEW i \in Attempt, NEW frame \in {"step1", "step2"},
           Idle, deferred' \subseteq deferred, OnFrame(i, frame)
    PROVE  ProviderInv'
<1> DEFINE x == [call |-> "receive", at |-> "applied", attempt |-> i, frame |-> frame, current |-> TRUE]
<1>1. x \in Calls /\ ~IsStop(x) /\ x.attempt = i
  BY DEF Calls, IsStop
<1>2. /\ stack = << >> /\ attempt = i /\ phase \in {"connecting", "connected"}
      /\ stack' = <<x>> \o stack
  BY DEF Idle, OnFrame, Active
<1> HIDE DEF x
<1>3. MaxDepth # 0 /\ MaxDepth \in Nat /\ Len(stack) = 0 /\ stack \in Seq(Calls)
  BY <1>2, ProviderAssumption DEF ProviderInv, HasAttempt, HasSubscription, TypeOK
<1>4. stack' \in Seq(Calls) /\ Len(stack') = 1
  BY <1>1, <1>2, <1>3, PushFacts
<1>5. StackFits(stack', phase, attempt)
  BY <1>1, <1>2, <1>3, PushedCalls DEF StackFits, ProviderInv, Subscribed
<1>6. Len(stack') <= MaxDepth
  BY <1>3, <1>4
<1>7. TypeOK'
  BY <1>4, <1>6 DEF OnFrame, ProviderInv, TypeOK, presence
<1> QED BY <1>5, <1>7, QuietKeeps DEF OnFrame, conn

(* The cable's callbacks, at once or deferred. *)
LEMMA CableStepKeeps == ASSUME ProviderInv, CableStep PROVE ProviderInv'
<1> PICK i \in Attempt : \/ CableEvent(i)
                         \/ Unsubscribe(i)
                         \/ \E callback \in Callback : DeferredCallback(callback, i)
  BY DEF CableStep
<1>1. CASE CableEvent(i)
  BY <1>1, EventKeeps, RejectionKeeps, FrameKeeps DEF CableEvent
<1>2. CASE Unsubscribe(i)
  <2>1. TypeOK'
    BY <1>2 DEF ProviderInv, TypeOK, Unsubscribe, presence
  <2>2. StackFits(stack, phase, attempt)' /\ DestroyTakesEffect' /\ FramesStayHome' /\ HasAttempt'
    BY <1>2 DEF ProviderInv, Unsubscribe, DestroyTakesEffect, FramesStayHome, HasAttempt, HasSubscription
  <2>3. NoSubscriptionLeaks'
    BY <1>2 DEF ProviderInv, TypeOK, Unsubscribe, NoSubscriptionLeaks, HasSubscription
  <2>4. PresenceInv'
    BY <1>2 DEF ProviderInv, Unsubscribe, PresenceInv, Awake, presence
  <2> QED BY <2>1, <2>2, <2>3, <2>4 DEF ProviderInv
<1>3. ASSUME NEW callback \in Callback, DeferredCallback(callback, i) PROVE ProviderInv'
  <2>1. Idle /\ deferred' \subseteq deferred
    BY <1>3 DEF DeferredCallback
  <2>2. CASE /\ UNCHANGED <<phase, attempt, reason, subs, wire, synced, pending, last, presence, stack, doomed, astray>>
    <3>1. TypeOK'
      BY <2>1, <2>2 DEF ProviderInv, TypeOK, presence
    <3> QED BY <2>2, <3>1, QuietKeeps DEF conn, ProviderInv
  <2> QED BY <1>3, <2>1, <2>2, EventKeeps, RejectionKeeps, FrameKeeps DEF DeferredCallback
<1> QED BY <1>1, <1>2, <1>3

(* pagehide takes the presence away, pageshow puts it back. *)
LEMMA PageKeeps == ASSUME ProviderInv, Hide \/ Show PROVE ProviderInv'
<1>1. TypeOK'
  BY DEF ProviderInv, TypeOK, Hide, Show, Awake, conn
<1>2. /\ StackFits(stack, phase, attempt)' /\ NoSubscriptionLeaks'
      /\ DestroyTakesEffect' /\ FramesStayHome' /\ HasAttempt'
  BY DEF ProviderInv, Hide, Show, conn, NoSubscriptionLeaks, HasSubscription, DestroyTakesEffect,
         FramesStayHome, HasAttempt
<1>3. PresenceInv'
  BY ProviderAssumption DEF ProviderInv, TypeOK, PresenceInv, Hide, Show, Idle, Awake, conn
<1> QED BY <1>1, <1>2, <1>3 DEF ProviderInv

-----------------------------------------------------------------------------
(* Every step keeps the invariant. *)
LEMMA ProviderInvStep == ProviderInv /\ [Next]_vars => ProviderInv'
<1> SUFFICES ASSUME ProviderInv, [Next]_vars PROVE ProviderInv'
  OBVIOUS
<1>1. CASE AppStep
  BY <1>1, AppStepKeeps
<1>2. CASE CallStep
  BY <1>2, RestoredKeeps, CreatedKeeps, CreateFailsKeeps, StopEndsKeeps, RenewConnectsKeeps, ReceivedKeeps,
     CallbackKeeps DEF CallStep
<1>3. CASE CableStep
  BY <1>3, CableStepKeeps
<1>4. CASE Hide \/ Show
  BY <1>4, PageKeeps
<1>5. CASE UNCHANGED vars
  <2>1. TypeOK'
    BY <1>5 DEF vars, conn, presence, ProviderInv, TypeOK
  <2> QED BY <1>5, <2>1, QuietKeeps DEF vars, ProviderInv
<1> QED BY <1>1, <1>2, <1>3, <1>4, <1>5 DEF Next

(* At most one stop is in progress, of the present attempt (#stop); the frames
   of the present cycle came in on its subscription; and the presence asked for
   is where its phase says, however deep the application's callbacks nest. *)
THEOREM ProviderInvariant == Spec => []ProviderInv
  BY ProviderInvInit, ProviderInvStep, PTL DEF Spec

(* The provider's state is well-formed, the calls in progress included. *)
THEOREM TypeCorrect == Spec => []TypeOK
  BY ProviderInvariant, PTL DEF ProviderInv

(* No subscription stays open behind the provider's back, although connect()
   can be overtaken by disconnect(), renew() and destroy() inside create(). *)
THEOREM SubscriptionsNeverLeak == Spec => []NoSubscriptionLeaks
  BY ProviderInvariant, PTL DEF ProviderInv

(* A destroy() made in the middle of a stop that another call began is not
   forgotten when that stop ends. *)
THEOREM DestroyIsFinal == Spec => []DestroyTakesEffect
  BY ProviderInvariant, PTL DEF ProviderInv

(* The presence disconnect() and pagehide take away comes back as the
   application last set it. *)
THEOREM PresenceSurvives == Spec => []PresenceIsKept
<1>1. ProviderInv => PresenceIsKept
  BY DEF ProviderInv, PresenceInv, PresenceIsKept, Idle
<1> QED BY <1>1, ProviderInvariant, PTL

(* A SyncStep2 marks synced, and an answer leaves on, the subscription the
   frame came in on (#receive and session.receive), whatever the document's
   observers did to the connection meanwhile. *)
THEOREM FramesGoHome == Spec => []FramesStayHome
  BY ProviderInvariant, PTL DEF ProviderInv

(* A frame that is still of the present cycle came in on the subscription the
   provider has, and a provider without one is applying no such frame. *)
CyclesAreOfTheirAttempt ==
    \A n \in 1 .. Len(stack) :
        stack[n].call = "receive" /\ stack[n].current => HasSubscription /\ stack[n].attempt = attempt

(* Why frames go home: session.pause() in #stop ends the cycle of the frames
   that are being applied; #receive's own check of the attempt only drops an
   answer while a stop is under way. *)
THEOREM CurrentFramesAreOurs == Spec => []CyclesAreOfTheirAttempt
<1>1. ProviderInv => CyclesAreOfTheirAttempt
  BY DEF ProviderInv, StackFits, CurrentOf, NoCurrent, IsCurrent, Subscribed, HasSubscription,
         CyclesAreOfTheirAttempt
<1> QED BY <1>1, ProviderInvariant, PTL
=============================================================================
