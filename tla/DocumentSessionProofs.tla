----------------------- MODULE DocumentSessionProofs -----------------------
(***************************************************************************)
(* One document's sessions, for any number of sessions and leases and      *)
(* however deep editor cleanup calls back into the store: one session is   *)
(* live, it closes only when nobody needs it, and it asks for a grant at   *)
(* most once.                                                              *)
(***************************************************************************)
EXTENDS DocumentSession, SequenceTheorems, TLAPS

(* Only a refreshing session waits for the grant it will use. *)
FetchIsRefreshing == \A s \in Session : "current" \in fetches[s] => phase[s] = "refreshing"

(* A session that asked for a grant has left "open", and returns to it only
   through what makes asking again legitimate: retry() or an acceptance. *)
AskedHasLeft == \A s \in asked : phase[s] \in {"refreshing", "renewed", "blocked", "closed"}

SessionInv == TypeOK /\ OneLiveSession /\ FetchIsRefreshing /\ AskedHasLeft

(* No session, no lease and no call to begin with. *)
LEMMA SessionInvInit == Init => SessionInv
  BY SessionAssumption DEF Init, SessionInv, TypeOK, OneLiveSession, FetchIsRefreshing, AskedHasLeft, Phase

-----------------------------------------------------------------------------
(* A call made on top of others. *)
LEMMA PushFacts ==
    ASSUME NEW S, NEW s \in Seq(S), NEW x \in S
    PROVE  <<x>> \o s \in Seq(S)
  BY ConcatProperties

(* The calls in progress are frames: what runs is one, and what goes on when
   it returns. *)
LEMMA RunningFacts ==
    ASSUME TypeOK, Running # "nothing"
    PROVE  /\ Head(stack) \in Frames
           /\ Tail(stack) \in Seq(Frames)
           /\ Running = Head(stack).call
           /\ Running = "release" => /\ Head(stack).session \in Session
                                     /\ Head(stack).lease \in Lease
           /\ Running \in {"settle", "close"} => /\ Head(stack).session \in Session
                                                 /\ Head(stack).rest \in SUBSET Lease
<1>1. stack # << >> /\ Running = Head(stack).call
  BY DEF Running
<1>2. Head(stack) \in Frames /\ Tail(stack) \in Seq(Frames)
  BY <1>1, HeadTailProperties DEF TypeOK
<1> QED BY <1>1, <1>2 DEF Frames

(* The stack stays one whatever is called or returns. *)
LEMMA StackStep == TypeOK /\ [Next]_vars => stack' \in Seq(Frames)
<1> SUFFICES ASSUME TypeOK, [Next]_vars PROVE stack' \in Seq(Frames)
  OBVIOUS
<1>0. stack \in Seq(Frames) /\ leases \in [Session -> SUBSET Lease] /\ retiring \in [Session -> SUBSET Lease]
  BY DEF TypeOK
<1>1. ASSUME NEW l \in Lease, Release(l) PROVE stack' \in Seq(Frames)
  <2> PICK s \in Session : Abort(s, l)
    BY <1>1 DEF Release
  <2> QED BY <1>0, PushFacts DEF Abort, Frames
<1>2. ASSUME NEW s \in Session, Discard(s) PROVE stack' \in Seq(Frames)
  <2>1. CloseFrame(s) \in Frames
    BY <1>0 DEF CloseFrame, Frames
  <2> QED BY <1>0, <1>2, <2>1, PushFacts DEF Discard
<1>3. CASE Released \/ Closed \/ Notify
  BY <1>3, RunningFacts DEF Released, Closed, Notify
<1>4. CASE ReleaseNext
  <2> PICK l \in Head(stack).rest :
         LET rest == <<[Head(stack) EXCEPT !.rest = @ \ {l}]>> \o Tail(stack)
         IN  \/ stack' = rest
             \/ stack' = <<[call |-> "release", session |-> Head(stack).session, lease |-> l]>> \o rest
    BY <1>4 DEF ReleaseNext
  <2> DEFINE left == [Head(stack) EXCEPT !.rest = @ \ {l}]
             frame == [call |-> "release", session |-> Head(stack).session, lease |-> l]
  <2>1. Running \in {"settle", "close"}
    BY <1>4 DEF ReleaseNext
  <2>2. /\ Head(stack) \in Frames /\ Tail(stack) \in Seq(Frames) /\ Head(stack).call \in {"settle", "close"}
        /\ Head(stack).session \in Session /\ Head(stack).rest \in SUBSET Lease
    BY <2>1, RunningFacts
  <2>3. left \in Frames
    BY <2>2 DEF Frames
  <2>4. frame \in Frames
    BY <2>2 DEF Frames
  <2> HIDE DEF left, frame
  <2>5. <<left>> \o Tail(stack) \in Seq(Frames)
    BY <2>2, <2>3, PushFacts
  <2>6. <<frame>> \o (<<left>> \o Tail(stack)) \in Seq(Frames)
    BY <2>4, <2>5, PushFacts
  <2> QED BY <2>5, <2>6 DEF left, frame
<1>5. ASSUME NEW s \in Session, Settle(s) PROVE stack' \in Seq(Frames)
  <2>1. CloseFrame(s) \in Frames /\ \A rest \in SUBSET Lease : SettleFrame(s, rest) \in Frames
    BY <1>0 DEF CloseFrame, SettleFrame, Frames
  <2>2. retiring[s] \in SUBSET Lease /\ {} \in SUBSET Lease
    BY <1>0
  <2>3. \/ stack' = <<SettleFrame(s, retiring[s])>>
        \/ stack' = <<SettleFrame(s, {})>>
        \/ stack' = <<CloseFrame(s), SettleFrame(s, {})>>
    BY <1>5 DEF Settle, SettleBlocked, SettleUnneeded, SettleQuiet
  <2>4. \A f, g \in Frames : <<f>> \in Seq(Frames) /\ <<f, g>> \in Seq(Frames)
    OBVIOUS
  <2> HIDE DEF Frames
  <2> QED BY <2>1, <2>2, <2>3, <2>4
<1>6. ASSUME stack' = stack PROVE stack' \in Seq(Frames)
  BY <1>0, <1>6
<1>7. ASSUME NEW l \in Lease, Acquire(l) PROVE stack' = stack
  BY <1>7 DEF Acquire
<1>8. ASSUME NEW s \in Session, Edit(s) \/ Retry(s) \/ NetworkStep(s) PROVE stack' = stack
  BY <1>8 DEF Edit, Retry, NetworkStep, Accepted, Lost, Acked, Rejected, Fetched
<1>9. CASE UNCHANGED vars
  BY <1>9, <1>6 DEF vars
<1> QED BY <1>1, <1>2, <1>3, <1>4, <1>5, <1>6, <1>7, <1>8, <1>9 DEF Next, AppStep, CallStep
-----------------------------------------------------------------------------
PhaseOf == Phase \cup {"new"}

(* Where an event leads is a phase; "close" alone leads to "closed", and
   "block" and "renew" keep a live session live. *)
LEMMA OnFacts ==
    ASSUME NEW p \in PhaseOf
    PROVE  /\ \A event \in {"refresh", "renew", "accept", "block", "retry", "close"} : On(p, event) \in PhaseOf
           /\ p \in Phase => On(p, "close") = "closed"
           /\ \A event \in {"refresh", "renew", "accept", "block", "retry"} :
                 /\ p \in Phase \ {"closed"} <=> On(p, event) \in Phase \ {"closed"}
                 /\ p = "closed" <=> On(p, event) = "closed"
           /\ On(p, "refresh") # p => p = "open" /\ On(p, "refresh") = "refreshing"
           /\ p = "blocked" => On(p, "retry") = "open"
           /\ p = "refreshing" => On(p, "renew") = "renewed"
           /\ On(p, "block") = IF p \in {"open", "refreshing", "renewed"} THEN "blocked" ELSE p
           /\ p = "renewed" => On(p, "accept") = "open"
  BY DEF On, Phase, PhaseOf, State

(* What #transition does, given the leases. *)
LEMMA EnterFacts ==
    ASSUME TypeOK, NEW s \in Session, NEW p \in PhaseOf, leases' \in [Session -> SUBSET Lease], Enter(s, p)
    PROVE  /\ phase' \in [Session -> PhaseOf]
           /\ phase'[s] = p
           /\ \A r \in Session : r # s => phase'[r] = phase[r]
           /\ retiring' \in [Session -> SUBSET Lease]
           /\ \A r \in Session : phase'[r] # "blocked" => retiring'[r] = {}
           /\ dirty' \subseteq Session /\ queued' \subseteq Session
  BY DEF TypeOK, Enter, Changed, PhaseOf

(* Whatever connect() finds, the session is connected or blocked. *)
LEMMA ConnectFacts ==
    ASSUME TypeOK, NEW s \in Session, NEW p \in PhaseOf, leases' \in [Session -> SUBSET Lease], ConnectIn(s, p)
    PROVE  /\ phase' \in [Session -> PhaseOf]
           /\ phase'[s] \in {p, "blocked"}
           /\ \A r \in Session : r # s => phase'[r] = phase[r]
           /\ retiring' \in [Session -> SUBSET Lease]
           /\ \A r \in Session : phase'[r] # "blocked" => retiring'[r] = {}
           /\ dirty' \subseteq Session /\ queued' \subseteq Session
           /\ link' \in [Session -> {"disconnected", "connecting", "connected", "destroyed"}]
<1>1. "blocked" \in PhaseOf
  BY DEF PhaseOf, Phase
<1>2. CASE Enter(s, p) /\ link' = [link EXCEPT ![s] = IF @ = "disconnected" THEN "connecting" ELSE @]
  BY <1>2, EnterFacts DEF TypeOK
<1>3. CASE Enter(s, "blocked") /\ UNCHANGED link
  BY <1>1, <1>3, EnterFacts DEF TypeOK
<1>4. CASE /\ link' = [link EXCEPT ![s] = IF @ = "disconnected" THEN "connecting" ELSE @]
           /\ p = phase[s] /\ Changed(s) /\ UNCHANGED <<phase, retiring>>
  BY <1>4 DEF TypeOK, Changed, PhaseOf
<1> QED BY <1>2, <1>3, <1>4 DEF ConnectIn

-----------------------------------------------------------------------------
(* acquire() makes the one live session, or finds it. *)
LEMMA AcquireKeeps ==
    ASSUME SessionInv, NEW l \in Lease, Acquire(l), stack' \in Seq(Frames)
    PROVE  SessionInv'
<1>0. TypeOK
  BY DEF SessionInv
<1> PICK s \in Session :
        /\ IF current = Nothing THEN Following(s, {r \in Session : phase[r] = "new"}) ELSE s = current
        /\ current' = s
        /\ leases' = [leases EXCEPT ![s] = @ \cup {l}]
        /\ LET now == IF phase[s] = "new" THEN "open" ELSE phase[s]
           IN  IF now \in Connects
               THEN ConnectIn(s, now)
               ELSE Changed(s) /\ UNCHANGED <<phase, retiring, link>>
  BY DEF Acquire
<1>1. UNCHANGED <<aborted, pending, fetches, stack, asked>>
  BY DEF Acquire
<1>2. leases' \in [Session -> SUBSET Lease]
  BY <1>0 DEF TypeOK
<1>3. phase[s] = "new" \/ phase[s] \in Phase \ {"closed"}
  BY <1>0 DEF SessionInv, OneLiveSession, Following
<1> DEFINE now == IF phase[s] = "new" THEN "open" ELSE phase[s]
<1>4. now \in Phase \ {"closed"} /\ now \in PhaseOf
  BY <1>3 DEF Phase, PhaseOf
<1>5. /\ phase' \in [Session -> PhaseOf]
      /\ phase'[s] \in {now, "blocked"}
      /\ now \notin Connects => phase'[s] = phase[s]
      /\ \A r \in Session : r # s => phase'[r] = phase[r]
      /\ retiring' \in [Session -> SUBSET Lease]
      /\ \A r \in Session : phase'[r] # "blocked" => retiring'[r] = {}
      /\ dirty' \subseteq Session /\ queued' \subseteq Session
      /\ link' \in [Session -> {"disconnected", "connecting", "connected", "destroyed"}]
  <2>1. CASE now \in Connects
    <3>1. ConnectIn(s, now)
      BY <2>1
    <3> QED BY <1>0, <1>2, <1>4, <2>1, <3>1, ConnectFacts
  <2>2. CASE now \notin Connects
    <3>1. Changed(s) /\ UNCHANGED <<phase, retiring, link>>
      BY <2>2
    <3>2. phase[s] = now
      BY <2>2 DEF Connects
    <3> QED BY <1>0, <2>2, <3>1, <3>2 DEF TypeOK, Changed, PhaseOf
  <2> QED BY <2>1, <2>2
<1>6. TypeOK'
  BY <1>0, <1>1, <1>2, <1>5 DEF TypeOK, PhaseOf
<1>7. OneLiveSession'
  BY <1>0, <1>3, <1>4, <1>5, SessionAssumption DEF SessionInv, OneLiveSession, Following, Phase, TypeOK
<1>8. FetchIsRefreshing' /\ AskedHasLeft'
  <2>1. now \in Connects => phase[s] \in {"new", "open", "renewed"}
    BY DEF Connects
  <2>2. now \in Connects => "current" \notin fetches[s]
    BY <2>1 DEF SessionInv, FetchIsRefreshing
  <2>3. s \in asked => now = phase[s] /\ phase[s] \in {"refreshing", "renewed", "blocked", "closed"}
    BY DEF SessionInv, AskedHasLeft
  <2> HIDE DEF now
  <2>4. FetchIsRefreshing'
    BY <1>1, <1>5, <2>2 DEF SessionInv, FetchIsRefreshing
  <2>5. AskedHasLeft'
    BY <1>0, <1>1, <1>5, <2>3 DEF SessionInv, AskedHasLeft, TypeOK
  <2> QED BY <2>4, <2>5
<1> QED BY <1>6, <1>7, <1>8 DEF SessionInv
(* A step after which no lifecycle is another keeps the invariant if the state
   stays well-formed. *)
LEMMA SamePhasesKeep ==
    ASSUME SessionInv, TypeOK', UNCHANGED <<current, phase, fetches, asked>>
    PROVE  SessionInv'
  BY DEF SessionInv, OneLiveSession, FetchIsRefreshing, AskedHasLeft

(* Releasing, and what goes on when a listener returns. *)
LEMMA ReleaseKeeps ==
    ASSUME SessionInv, NEW l \in Lease, Release(l), stack' \in Seq(Frames)
    PROVE  SessionInv'
<1>1. TypeOK'
  BY DEF SessionInv, TypeOK, Release, Abort, wire, notices
<1> QED BY <1>1, SamePhasesKeep DEF Release, wire

(* The calls in progress go on, and return. *)
LEMMA CallStepKeeps ==
    ASSUME SessionInv, CallStep, stack' \in Seq(Frames)
    PROVE  SessionInv'
<1>0. TypeOK
  BY DEF SessionInv
<1>1. CASE Released
  <2>1. Head(stack).session \in Session
    BY <1>0, <1>1, RunningFacts DEF Released
  <2>2. TypeOK'
    BY <1>0, <1>1, <2>1 DEF TypeOK, Released, Changed, wire
  <2> QED BY <1>1, <2>2, SamePhasesKeep DEF Released, wire
<1>2. CASE ReleaseNext
  <2>1. Head(stack).rest \in SUBSET Lease
    BY <1>0, <1>2, RunningFacts DEF ReleaseNext
  <2>2. aborted' \subseteq Lease
    BY <1>0, <1>2, <2>1 DEF TypeOK, ReleaseNext
  <2>3. TypeOK'
    BY <1>0, <1>2, <2>2 DEF TypeOK, ReleaseNext, wire, notices
  <2> QED BY <1>2, <2>3, SamePhasesKeep DEF ReleaseNext, wire
<1>3. CASE Closed
  <2>1. Head(stack).session \in Session
    BY <1>0, <1>3, RunningFacts DEF Closed
  <2>2. TypeOK'
    BY <1>0, <1>3, <2>1 DEF TypeOK, Closed, held, notices
  <2> QED BY <1>3, <2>2, SamePhasesKeep DEF Closed, held
<1>4. CASE Notify
  <2>1. TypeOK'
    BY <1>0, <1>4 DEF TypeOK, Notify, held, wire
  <2> QED BY <1>4, <2>1, SamePhasesKeep DEF Notify, held, wire
<1> QED BY <1>1, <1>2, <1>3, <1>4 DEF CallStep

(* Edits, acknowledgements and lost connections change no lifecycle. *)
LEMMA TrafficKeeps ==
    ASSUME SessionInv, NEW s \in Session, Edit(s) \/ Lost(s) \/ Acked(s), stack' \in Seq(Frames)
    PROVE  SessionInv'
<1>1. dirty' \subseteq Session /\ queued' \subseteq Session
  BY DEF SessionInv, TypeOK, Edit, Lost, Acked, StatusChanged, Changed, notices
<1>2. TypeOK'
  BY <1>1 DEF SessionInv, TypeOK, Edit, Lost, Acked, held
<1> QED BY <1>2, SamePhasesKeep DEF Edit, Lost, Acked, held

(* #close takes the session out of the store as it closes. *)
LEMMA CloseKeeps ==
    ASSUME SessionInv, NEW s \in Session, Close(s), phase[s] \in Phase \ {"closed"},
           UNCHANGED <<aborted, pending, link, asked>>, stack' \in Seq(Frames)
    PROVE  SessionInv'
<1>0. TypeOK
  BY DEF SessionInv
<1>1. leases' = leases /\ leases' \in [Session -> SUBSET Lease]
  BY <1>0 DEF Close, TypeOK
<1>2. On(phase[s], "close") = "closed" /\ "closed" \in PhaseOf
  BY <1>0, OnFacts DEF TypeOK, PhaseOf, Phase
<1>3. Enter(s, "closed")
  BY <1>2 DEF Close
<1>4. /\ phase' \in [Session -> PhaseOf]
      /\ phase'[s] = "closed"
      /\ \A r \in Session : r # s => phase'[r] = phase[r]
      /\ retiring' \in [Session -> SUBSET Lease]
      /\ \A r \in Session : phase'[r] # "blocked" => retiring'[r] = {}
      /\ dirty' \subseteq Session /\ queued' \subseteq Session
  BY <1>0, <1>1, <1>2, <1>3, EnterFacts
<1>5. fetches' \in [Session -> SUBSET {"current", "stale"}]
  BY <1>0 DEF Close, Outdated, TypeOK
<1>6. current = s /\ current' = Nothing
  BY DEF Close, SessionInv, OneLiveSession
<1>7. TypeOK'
  BY <1>0, <1>1, <1>4, <1>5, <1>6 DEF TypeOK, PhaseOf
<1>8. OneLiveSession'
  BY <1>4, <1>6, SessionAssumption DEF SessionInv, OneLiveSession
<1>9. FetchIsRefreshing' /\ AskedHasLeft'
  BY <1>0, <1>4 DEF SessionInv, FetchIsRefreshing, AskedHasLeft, Close, Outdated, TypeOK
<1> QED BY <1>7, <1>8, <1>9 DEF SessionInv

(* discard() closes at once. *)
LEMMA DiscardKeeps ==
    ASSUME SessionInv, NEW s \in Session, Discard(s), stack' \in Seq(Frames)
    PROVE  SessionInv'
  BY CloseKeeps DEF Discard

(* A settle releases, closes, or has nothing to do. *)
LEMMA SettleKeeps ==
    ASSUME SessionInv, NEW s \in Session, Settle(s), stack' \in Seq(Frames)
    PROVE  SessionInv'
<1>1. CASE SettleBlocked(s)
  <2>1. TypeOK'
    BY <1>1 DEF SessionInv, TypeOK, SettleBlocked, held, wire
  <2> QED BY <1>1, <2>1, SamePhasesKeep DEF SettleBlocked, held, wire
<1>2. CASE SettleUnneeded(s)
  <2>1. phase[s] \in Phase \ {"closed"}
    BY <1>2 DEF SettleUnneeded, State, Phase
  <2> QED BY <1>2, <2>1, CloseKeeps DEF SettleUnneeded
<1>3. CASE SettleQuiet(s)
  <2>1. TypeOK'
    BY <1>3 DEF SessionInv, TypeOK, SettleQuiet, held, wire
  <2> QED BY <1>3, <2>1, SamePhasesKeep DEF SettleQuiet, held, wire
<1> QED BY <1>1, <1>2, <1>3 DEF Settle
-----------------------------------------------------------------------------
(* A step of one session's lifecycle that neither opens nor closes it. *)
LEMMA LivesOn ==
    ASSUME SessionInv, NEW s \in Session, current' = current,
           phase'[s] \in Phase \ {"closed"} <=> phase[s] \in Phase \ {"closed"},
           \A r \in Session : r # s => phase'[r] = phase[r]
    PROVE  OneLiveSession'
  BY DEF SessionInv, OneLiveSession

(* What was asked for before the lifecycle moved on is stale. *)
LEMMA OutdatedFacts ==
    ASSUME TypeOK, NEW s \in Session
    PROVE  Outdated(s) \subseteq {"stale"}
  BY DEF Outdated

(* retry() *)
LEMMA RetryKeeps ==
    ASSUME SessionInv, NEW s \in Session, Retry(s), stack' \in Seq(Frames)
    PROVE  SessionInv'
<1>0. TypeOK /\ leases' = leases /\ leases' \in [Session -> SUBSET Lease]
  BY DEF SessionInv, TypeOK, Retry
<1>1. phase[s] = "blocked" /\ On(phase[s], "retry") = "open" /\ "open" \in PhaseOf
  BY OnFacts DEF Retry, PhaseOf, Phase
<1>2. ConnectIn(s, "open")
  BY <1>1 DEF Retry
<1>3. /\ phase' \in [Session -> PhaseOf]
      /\ phase'[s] \in {"open", "blocked"}
      /\ \A r \in Session : r # s => phase'[r] = phase[r]
      /\ retiring' \in [Session -> SUBSET Lease]
      /\ \A r \in Session : phase'[r] # "blocked" => retiring'[r] = {}
      /\ dirty' \subseteq Session /\ queued' \subseteq Session
      /\ link' \in [Session -> {"disconnected", "connecting", "connected", "destroyed"}]
  BY <1>0, <1>1, <1>2, ConnectFacts
<1>4. fetches' = [fetches EXCEPT ![s] = Outdated(s)] /\ Outdated(s) \subseteq {"stale"}
  BY <1>0, OutdatedFacts DEF Retry
<1>5. TypeOK'
  BY <1>0, <1>3, <1>4 DEF TypeOK, Retry, PhaseOf
<1>6. OneLiveSession'
  BY <1>1, <1>3, LivesOn DEF Retry, Phase
<1>7. FetchIsRefreshing' /\ AskedHasLeft'
  BY <1>0, <1>3, <1>4 DEF SessionInv, FetchIsRefreshing, AskedHasLeft, Retry, TypeOK
<1> QED BY <1>5, <1>6, <1>7 DEF SessionInv

(* An acceptance makes a renewed session open, and no other. *)
LEMMA AcceptedKeeps ==
    ASSUME SessionInv, NEW s \in Session, Accepted(s), stack' \in Seq(Frames)
    PROVE  SessionInv'
<1>0. TypeOK /\ leases' = leases /\ leases' \in [Session -> SUBSET Lease]
  BY DEF SessionInv, TypeOK, Accepted
<1>1. CASE phase[s] = "renewed"
  <2>1. On(phase[s], "accept") = "open" /\ "open" \in PhaseOf
    BY <1>0, <1>1, OnFacts DEF PhaseOf, Phase
  <2>2. Enter(s, "open") /\ fetches' = [fetches EXCEPT ![s] = Outdated(s)] /\ Outdated(s) \subseteq {"stale"}
    BY <1>0, <1>1, <2>1, OutdatedFacts DEF Accepted
  <2>3. /\ phase' \in [Session -> PhaseOf]
        /\ phase'[s] = "open"
        /\ \A r \in Session : r # s => phase'[r] = phase[r]
        /\ retiring' \in [Session -> SUBSET Lease]
        /\ \A r \in Session : phase'[r] # "blocked" => retiring'[r] = {}
        /\ dirty' \subseteq Session /\ queued' \subseteq Session
    BY <1>0, <2>1, <2>2, EnterFacts
  <2>4. TypeOK'
    BY <1>0, <2>2, <2>3 DEF TypeOK, Accepted, PhaseOf
  <2>5. OneLiveSession'
    BY <1>1, <2>3, LivesOn DEF Accepted, Phase
  <2>6. FetchIsRefreshing' /\ AskedHasLeft'
    BY <1>0, <2>2, <2>3 DEF SessionInv, FetchIsRefreshing, AskedHasLeft, Accepted, TypeOK
  <2> QED BY <2>4, <2>5, <2>6 DEF SessionInv
<1>2. CASE phase[s] # "renewed"
  <2>1. StatusChanged(s) /\ UNCHANGED <<phase, retiring, fetches>>
    BY <1>2 DEF Accepted
  <2>2. dirty' \subseteq Session /\ queued' \subseteq Session
    BY <1>0, <2>1 DEF TypeOK, StatusChanged, Changed, notices
  <2>3. TypeOK'
    BY <1>0, <2>1, <2>2 DEF TypeOK, Accepted
  <2>4. OneLiveSession' /\ FetchIsRefreshing' /\ AskedHasLeft'
    BY <2>1 DEF SessionInv, OneLiveSession, FetchIsRefreshing, AskedHasLeft, Accepted
  <2> QED BY <2>3, <2>4 DEF SessionInv
<1> QED BY <1>1, <1>2

(* A rejection makes an open session refresh, once, or block. *)
LEMMA RejectedKeeps ==
    ASSUME SessionInv, NEW s \in Session, Rejected(s), stack' \in Seq(Frames)
    PROVE  SessionInv'
<1>0. TypeOK /\ leases' = leases /\ leases' \in [Session -> SUBSET Lease] /\ phase[s] \in PhaseOf
  BY DEF SessionInv, TypeOK, Rejected, PhaseOf
<1> DEFINE refreshes == HasUrl /\ On(phase[s], "refresh") # phase[s]
           to == On(phase[s], IF refreshes THEN "refresh" ELSE "block")
<1>1. /\ refreshes => phase[s] = "open" /\ to = "refreshing"
      /\ ~refreshes => to = On(phase[s], "block")
      /\ to \in PhaseOf
      /\ to \in Phase \ {"closed"} <=> phase[s] \in Phase \ {"closed"}
      /\ phase[s] \in {"refreshing", "renewed", "blocked", "closed"} => to \in {"blocked", "closed"}
  BY <1>0, OnFacts
<1>2. /\ Enter(s, to)
      /\ fetches' = [fetches EXCEPT ![s] = Outdated(s) \cup IF refreshes THEN {"current"} ELSE {}]
      /\ asked' = IF refreshes THEN asked \cup {s} ELSE asked
      /\ Outdated(s) \subseteq {"stale"}
  BY <1>0, OutdatedFacts DEF Rejected
<1> HIDE DEF to, refreshes
<1>3. /\ phase' \in [Session -> PhaseOf]
      /\ phase'[s] = to
      /\ \A r \in Session : r # s => phase'[r] = phase[r]
      /\ retiring' \in [Session -> SUBSET Lease]
      /\ \A r \in Session : phase'[r] # "blocked" => retiring'[r] = {}
      /\ dirty' \subseteq Session /\ queued' \subseteq Session
  BY <1>0, <1>1, <1>2, EnterFacts
<1>4. TypeOK'
  <2>1. fetches' \in [Session -> SUBSET {"current", "stale"}] /\ asked' \subseteq Session
    BY <1>0, <1>2 DEF TypeOK
  <2>2. link' = [link EXCEPT ![s] = "disconnected"] /\ UNCHANGED <<current, aborted, pending, stack>>
    BY DEF Rejected
  <2> QED BY <1>0, <1>3, <2>1, <2>2 DEF TypeOK, PhaseOf
<1>5. OneLiveSession'
  BY <1>1, <1>3, LivesOn DEF Rejected
<1>6. FetchIsRefreshing' /\ AskedHasLeft'
  BY <1>0, <1>1, <1>2, <1>3 DEF SessionInv, FetchIsRefreshing, AskedHasLeft, TypeOK
<1> QED BY <1>4, <1>5, <1>6 DEF SessionInv

(* A grant reaches the lifecycle that asked for it, which still refreshes. *)
LEMMA FetchedKeeps ==
    ASSUME SessionInv, NEW s \in Session, Fetched(s), stack' \in Seq(Frames)
    PROVE  SessionInv'
<1>0. TypeOK /\ leases' = leases /\ leases' \in [Session -> SUBSET Lease]
  BY DEF SessionInv, TypeOK, Fetched
<1>1. CASE fetches' = [fetches EXCEPT ![s] = @ \ {"stale"}] /\ UNCHANGED <<phase, retiring, link, notices>>
  <2>1. TypeOK'
    BY <1>0, <1>1 DEF TypeOK, Fetched, notices
  <2>2. OneLiveSession' /\ FetchIsRefreshing' /\ AskedHasLeft'
    BY <1>0, <1>1 DEF SessionInv, OneLiveSession, FetchIsRefreshing, AskedHasLeft, Fetched, TypeOK
  <2> QED BY <2>1, <2>2 DEF SessionInv
<1>2. CASE /\ "current" \in fetches[s]
           /\ fetches' = [fetches EXCEPT ![s] = {"stale" : g \in @ \ {"current"}}]
           /\ ConnectIn(s, On(phase[s], "renew")) \/ (Enter(s, On(phase[s], "block")) /\ UNCHANGED link)
  <2>1. phase[s] = "refreshing" /\ "renewed" \in PhaseOf /\ "blocked" \in PhaseOf
    BY <1>2 DEF SessionInv, FetchIsRefreshing, PhaseOf, Phase
  <2>2. On(phase[s], "renew") = "renewed" /\ On(phase[s], "block") = "blocked"
    BY <2>1, OnFacts DEF PhaseOf, Phase
  <2>3. /\ phase' \in [Session -> PhaseOf]
        /\ phase'[s] \in {"renewed", "blocked"}
        /\ \A r \in Session : r # s => phase'[r] = phase[r]
        /\ retiring' \in [Session -> SUBSET Lease]
        /\ \A r \in Session : phase'[r] # "blocked" => retiring'[r] = {}
        /\ dirty' \subseteq Session /\ queued' \subseteq Session
        /\ link' \in [Session -> {"disconnected", "connecting", "connected", "destroyed"}]
    <3>1. CASE ConnectIn(s, "renewed")
      BY <1>0, <2>1, <3>1, ConnectFacts
    <3>2. CASE Enter(s, "blocked") /\ UNCHANGED link
      <4>1. Enter(s, "blocked") /\ link' \in [Session -> {"disconnected", "connecting", "connected", "destroyed"}]
        BY <1>0, <3>2 DEF TypeOK
      <4> QED BY <1>0, <2>1, <4>1, EnterFacts
    <3> QED BY <1>2, <2>2, <3>1, <3>2
  <2>4. TypeOK'
    <3>1. fetches' \in [Session -> SUBSET {"current", "stale"}]
      BY <1>0, <1>2 DEF TypeOK
    <3>2. UNCHANGED <<current, aborted, pending, stack, asked>>
      BY DEF Fetched
    <3> QED BY <1>0, <2>3, <3>1, <3>2 DEF TypeOK, PhaseOf
  <2>5. OneLiveSession'
    BY <2>1, <2>3, LivesOn DEF Fetched, Phase
  <2>6. FetchIsRefreshing' /\ AskedHasLeft'
    BY <1>0, <1>2, <2>3 DEF SessionInv, FetchIsRefreshing, AskedHasLeft, Fetched, TypeOK
  <2> QED BY <2>4, <2>5, <2>6 DEF SessionInv
<1> QED BY <1>1, <1>2 DEF Fetched

-----------------------------------------------------------------------------
(* Every step keeps the invariant. *)
LEMMA SessionInvStep == SessionInv /\ [Next]_vars => SessionInv'
<1> SUFFICES ASSUME SessionInv, [Next]_vars PROVE SessionInv'
  OBVIOUS
<1>1. stack' \in Seq(Frames)
  BY StackStep DEF SessionInv
<1>2. CASE AppStep
  BY <1>1, <1>2, AcquireKeeps, ReleaseKeeps, TrafficKeeps, RetryKeeps, DiscardKeeps DEF AppStep
<1>3. CASE CallStep
  BY <1>1, <1>3, CallStepKeeps
<1>4. ASSUME NEW s \in Session, Settle(s) PROVE SessionInv'
  BY <1>1, <1>4, SettleKeeps
<1>5. ASSUME NEW s \in Session, NetworkStep(s) PROVE SessionInv'
  BY <1>1, <1>5, AcceptedKeeps, TrafficKeeps, RejectedKeeps, FetchedKeeps DEF NetworkStep
<1>6. CASE UNCHANGED vars
  BY <1>6 DEF vars, held, wire, notices, SessionInv, TypeOK, OneLiveSession, FetchIsRefreshing, AskedHasLeft
<1> QED BY <1>2, <1>3, <1>4, <1>5, <1>6 DEF Next

(* The store has the one live session, only a refreshing session waits for a
   grant, and one that asked has left "open" (#transition, #refresh), however
   releases, settles and closes are nested. *)
THEOREM SessionInvariant == Spec => []SessionInv
  BY SessionInvInit, SessionInvStep, PTL DEF Spec

(* The state of the store and its sessions is well-formed, the stack of calls
   in progress included, however deep listeners call back. *)
THEOREM TypeCorrect == Spec => []TypeOK
  BY SessionInvariant, PTL DEF SessionInv

(* The store holds the one session that is not closed, whatever editor cleanup
   does in the middle of #settle or #close: acquire() never meets a closed
   session and no two sessions hold the document. *)
THEOREM StoreHasTheLiveSession == Spec => []OneLiveSession
  BY SessionInvariant, PTL DEF SessionInv
-----------------------------------------------------------------------------
(* Only #close closes: of a session nobody needs, or in discard(). *)
LEMMA ClosingStep ==
    ASSUME SessionInv, [Next]_vars, NEW s \in Session, phase[s] # "closed", phase'[s] = "closed"
    PROVE  (leases[s] = {} /\ ~pending[s]) \/ Discard(s)
<1>0. TypeOK /\ \A r \in Session : phase[r] \in PhaseOf
  BY DEF SessionInv, TypeOK, PhaseOf
<1>1. ASSUME NEW l \in Lease, Acquire(l) PROVE FALSE
  <2>1. PICK r \in Session :
          /\ leases' = [leases EXCEPT ![r] = @ \cup {l}]
          /\ LET now == IF phase[r] = "new" THEN "open" ELSE phase[r]
             IN  IF now \in Connects
                 THEN ConnectIn(r, now)
                 ELSE Changed(r) /\ UNCHANGED <<phase, retiring, link>>
    BY <1>1 DEF Acquire
  <2> DEFINE now == IF phase[r] = "new" THEN "open" ELSE phase[r]
  <2>2. now \in PhaseOf /\ leases' \in [Session -> SUBSET Lease]
    BY <1>0, <2>1 DEF PhaseOf, Phase, TypeOK
  <2>3. CASE now \in Connects
    <3>1. ConnectIn(r, now) /\ now # "closed"
      BY <2>1, <2>3 DEF Connects
    <3> QED BY <1>0, <2>2, <3>1, ConnectFacts
  <2>4. CASE now \notin Connects
    BY <2>1, <2>4
  <2> QED BY <2>3, <2>4
<1>2. ASSUME NEW r \in Session, Retry(r) \/ Accepted(r) \/ Rejected(r) \/ Fetched(r) PROVE FALSE
  <2>1. leases' \in [Session -> SUBSET Lease]
    BY <1>0, <1>2 DEF TypeOK, Retry, Accepted, Rejected, Fetched
  <2>2. phase[r] \in PhaseOf
    BY <1>0
  <2>3. ASSUME NEW event \in {"refresh", "renew", "accept", "block", "retry"},
               Enter(r, On(phase[r], event)) \/ ConnectIn(r, On(phase[r], event))
        PROVE  FALSE
    <3>1. On(phase[r], event) \in PhaseOf /\ (On(phase[r], event) = "closed" <=> phase[r] = "closed")
      BY <2>2, OnFacts
    <3>2. phase'[r] \in {On(phase[r], event), "blocked"} /\ \A q \in Session : q # r => phase'[q] = phase[q]
      BY <1>0, <2>1, <2>3, <3>1, EnterFacts, ConnectFacts
    <3> QED BY <3>1, <3>2
  <2>4. \/ UNCHANGED phase
        \/ \E event \in {"refresh", "renew", "accept", "block", "retry"} :
              Enter(r, On(phase[r], event)) \/ ConnectIn(r, On(phase[r], event))
    BY <1>2 DEF Retry, Accepted, Rejected, Fetched
  <2> QED BY <2>3, <2>4
<1>3. ASSUME NEW r \in Session, Close(r), phase[r] \in Phase \ {"closed"} PROVE r = s
  <2>1. leases' \in [Session -> SUBSET Lease] /\ "closed" \in PhaseOf
    BY <1>0, <1>3 DEF TypeOK, Close, PhaseOf, Phase
  <2>2. Enter(r, "closed")
    BY <1>0, <1>3, OnFacts DEF Close
  <2> QED BY <1>0, <2>1, <2>2, EnterFacts
<1>4. ASSUME NEW r \in Session, Discard(r) PROVE Discard(s)
  BY <1>3, <1>4 DEF Discard
<1>5. ASSUME NEW r \in Session, Settle(r) PROVE leases[s] = {} /\ ~pending[s]
  <2>1. SettleUnneeded(r)
    BY <1>5 DEF Settle, SettleBlocked, SettleQuiet
  <2>2. r = s
    BY <1>3, <2>1 DEF SettleUnneeded, State, Phase
  <2> QED BY <2>1, <2>2 DEF SettleUnneeded, Needed
<1>6. ASSUME UNCHANGED phase PROVE FALSE
  BY <1>6
<1>7. ASSUME NEW r \in Session, Edit(r) \/ Lost(r) \/ Acked(r) PROVE UNCHANGED phase
  BY <1>7 DEF Edit, Lost, Acked
<1>8. ASSUME NEW l \in Lease, Release(l) PROVE UNCHANGED phase
  BY <1>8 DEF Release
<1>9. CASE CallStep
  BY <1>6, <1>9 DEF CallStep, Released, ReleaseNext, Closed, Notify
<1>10. CASE AppStep
  BY <1>1, <1>2, <1>4, <1>6, <1>7, <1>8, <1>10 DEF AppStep
<1>11. ASSUME NEW r \in Session, NetworkStep(r) PROVE FALSE
  BY <1>2, <1>6, <1>7, <1>11 DEF NetworkStep
<1>12. CASE UNCHANGED vars
  BY <1>6, <1>12 DEF vars
<1> QED BY <1>5, <1>9, <1>10, <1>11, <1>12 DEF Next

(* "An ordinary detach keeps pending work": a session with unacknowledged
   edits, those of editor cleanup included, or with a lease, is closed by
   discard() and by nothing else. *)
THEOREM OnlyDiscardDropsWork == Spec => ClosesOnlyWhenDone
<1>1. SessionInv /\ [Next]_vars =>
        [\A s \in Session :
            phase[s] # "closed" /\ phase'[s] = "closed" =>
                \/ leases[s] = {} /\ ~pending[s]
                \/ Discard(s)]_vars
  BY ClosingStep
<1> QED BY <1>1, SessionInvariant, PTL DEF Spec, ClosesOnlyWhenDone

-----------------------------------------------------------------------------
(* A request goes out in Rejected alone, of a session that is open. *)
LEMMA AskingStep ==
    ASSUME SessionInv, [Next]_vars, NEW s \in Session, s \in asked
    PROVE  fetches'[s] \subseteq fetches[s] \cup {"stale"}
<1>0. TypeOK /\ phase[s] \in {"refreshing", "renewed", "blocked", "closed"} /\ phase[s] \in PhaseOf
  BY DEF SessionInv, AskedHasLeft, PhaseOf, Phase
<1>1. fetches \in [Session -> SUBSET {"current", "stale"}] /\ \A r \in Session : Outdated(r) \subseteq {"stale"}
  BY <1>0, OutdatedFacts DEF TypeOK
<1>2. ASSUME NEW r \in Session, fetches' = [fetches EXCEPT ![r] = Outdated(r)]
      PROVE  fetches'[s] \subseteq fetches[s] \cup {"stale"}
  BY <1>1, <1>2
<1>3. ASSUME UNCHANGED fetches PROVE fetches'[s] \subseteq fetches[s] \cup {"stale"}
  BY <1>3
<1>4. ASSUME NEW r \in Session, Rejected(r) PROVE fetches'[s] \subseteq fetches[s] \cup {"stale"}
  <2>1. CASE r # s
    BY <1>1, <1>4, <2>1 DEF Rejected
  <2>2. CASE r = s
    <3>1. On(phase[s], "refresh") = phase[s]
      BY <1>0, OnFacts
    <3>2. fetches' = [fetches EXCEPT ![s] = Outdated(s) \cup {}]
      BY <1>4, <2>2, <3>1 DEF Rejected
    <3> QED BY <1>1, <3>2
  <2> QED BY <2>1, <2>2
<1>5. ASSUME NEW r \in Session, Fetched(r) PROVE fetches'[s] \subseteq fetches[s] \cup {"stale"}
  <2>1. PICK f \in fetches[r] : \/ fetches' = [fetches EXCEPT ![r] = @ \ {f}]
                               \/ fetches' = [fetches EXCEPT ![r] = {"stale" : g \in @ \ {f}}]
    BY <1>5 DEF Fetched
  <2> QED BY <1>1, <2>1
<1>6. CASE AppStep
  BY <1>2, <1>3, <1>6 DEF AppStep, Acquire, Release, Edit, Retry, Discard, Close, wire
<1>7. CASE CallStep
  BY <1>3, <1>7 DEF CallStep, Released, ReleaseNext, Closed, Notify, wire
<1>8. ASSUME NEW r \in Session, Settle(r) PROVE fetches'[s] \subseteq fetches[s] \cup {"stale"}
  BY <1>2, <1>3, <1>8 DEF Settle, SettleBlocked, SettleUnneeded, SettleQuiet, Close, wire
<1>9. ASSUME NEW r \in Session, NetworkStep(r) PROVE fetches'[s] \subseteq fetches[s] \cup {"stale"}
  BY <1>2, <1>3, <1>4, <1>5, <1>9 DEF NetworkStep, Accepted, Lost, Acked
<1>10. CASE UNCHANGED vars
  BY <1>3, <1>10 DEF vars, wire
<1> QED BY <1>6, <1>7, <1>8, <1>9, <1>10 DEF Next

(* "The session fetches it at most once per rejection": a session that has
   asked for a grant asks for no other before the server accepted one or the
   application retried. *)
THEOREM GrantIsAskedForOnce == Spec => AsksOnce
<1>1. SessionInv /\ [Next]_vars =>
        [\A s \in Session : s \in asked => fetches'[s] \subseteq fetches[s] \cup {"stale"}]_vars
  BY AskingStep
<1> QED BY <1>1, SessionInvariant, PTL DEF Spec, AsksOnce
=============================================================================
