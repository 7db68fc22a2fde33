--------------------------- MODULE DocEditProofs ---------------------------
(***************************************************************************)
(* Y::Doc#edit loses no write and returns none twice, for any number of    *)
(* threads, edits and writes.  EditInv is inductive: a write that has been *)
(* made is in exactly one of three places (the document's unsent list, the *)
(* hands of one edit, the delivered updates), and each step moves it from  *)
(* one to another.                                                         *)
(***************************************************************************)
EXTENDS DocEdit, TLAPS

(* Nothing is made, taken or sent to begin with. *)
LEMMA EditInvInit == EditInit => EditInv
  BY EditAssumption DEF EditInit, EditInv, EditTypeOK, NoWriteLost, NothingTwice, InHand, Made, Holding

(* What a call that ends leaves behind: its hands are empty. *)
LEMMA FinishFacts ==
    ASSUME EditTypeOK, NEW t \in Thread, NEW e \in Edit, NEW how \in {"returned", "raised"},
           Finish(t, e, how), writes' = writes
    PROVE  /\ current' \in [Thread -> Edit \cup {None}]
           /\ stage' \in [Edit -> {"new", "block", "take", "returned", "raised"} \cup Holding]
           /\ taken' \in [Edit -> SUBSET Made']
           /\ \A f \in Edit : taken'[f] # {} => stage'[f] \in Holding
           /\ taken'[e] = {}
           /\ \A f \in Edit : f # e => taken'[f] = taken[f] /\ stage'[f] = stage[f]
           /\ stage'[e] # "kept"
  BY DEF Finish, EditTypeOK, Holding, Made

(* A local transaction adds its write to the unsent ones. *)
LEMMA CommitKeeps == ASSUME EditInv, NEW t \in Thread, Transact(t) PROVE EditInv'
<1>1. /\ writes \in 0 .. MaxWrite /\ writes < MaxWrite /\ MaxWrite \in Nat
      /\ Made' = Made \cup {writes + 1} /\ writes + 1 \notin Made
  BY EditAssumption DEF EditInv, EditTypeOK, Transact, Made
<1>2. InHand' = InHand /\ delivered' = delivered /\ InHand \subseteq Made /\ delivered \subseteq Made
  BY DEF EditInv, EditTypeOK, Transact, InHand, history
<1>3. EditTypeOK'
  <2>1. /\ writes' \in 0 .. MaxWrite
        /\ unsent' \subseteq Made'
        /\ taken' \in [Edit -> SUBSET Made']
        /\ returned' \subseteq Made'
    BY <1>1 DEF EditInv, EditTypeOK, Transact, history
  <2> QED BY <2>1 DEF EditInv, EditTypeOK, Transact, history, code
<1>4. NoWriteLost'
  BY <1>1, <1>2 DEF EditInv, NoWriteLost, Transact
<1>5. NothingTwice'
  <2>1. unsent' = unsent \cup {writes + 1}
    BY DEF Transact
  <2>2. delivered' \cap (unsent' \cup InHand') = {} /\ unsent' \cap InHand' = {}
    BY <1>1, <1>2, <2>1 DEF EditInv, NothingTwice
  <2>3. taken' = taken /\ stage' = stage
    BY DEF Transact
  <2> QED BY <2>2, <2>3 DEF EditInv, NothingTwice
<1> QED BY <1>3, <1>4, <1>5 DEF EditInv

(* Starting a thread moves no write. *)
LEMMA StartKeeps == ASSUME EditInv, NEW t \in Thread, NEW u \in Thread, StartThread(t, u) PROVE EditInv'
  BY DEF EditInv, EditTypeOK, NoWriteLost, NothingTwice, InHand, Made, StartThread, history

(* Entering a block. *)
LEMMA BeginKeeps == ASSUME EditInv, NEW t \in Thread, NEW e \in Edit, Begin(t, e) PROVE EditInv'
<1>1. taken[e] = {}
  BY DEF EditInv, EditTypeOK, Begin, Holding
<1>2. EditTypeOK'
  BY <1>1 DEF EditInv, EditTypeOK, Begin, history, Holding, Made
<1>3. InHand' = InHand
  BY <1>1 DEF EditInv, EditTypeOK, Begin, InHand, Holding
<1>4. NoWriteLost' /\ NothingTwice'
  BY <1>1, <1>3 DEF EditInv, EditTypeOK, NoWriteLost, NothingTwice, Begin, history, Made
<1> QED BY <1>2, <1>4 DEF EditInv

(* Leaving it normally. *)
LEMMA BlockEndsKeeps == ASSUME EditInv, NEW t \in Thread, NEW e \in Edit, BlockEnds(t, e) PROVE EditInv'
<1>1. taken[e] = {}
  BY DEF EditInv, EditTypeOK, BlockEnds, LeaveBlock, Holding
<1>2. EditTypeOK'
  BY <1>1 DEF EditInv, EditTypeOK, BlockEnds, LeaveBlock, history, Holding, Made
<1>3. InHand' = InHand
  BY <1>1 DEF EditInv, EditTypeOK, BlockEnds, LeaveBlock, InHand, Holding
<1>4. NoWriteLost' /\ NothingTwice'
  BY <1>1, <1>3 DEF EditInv, EditTypeOK, NoWriteLost, NothingTwice, BlockEnds, LeaveBlock, history, Made
<1> QED BY <1>2, <1>4 DEF EditInv

(* Leaving it with an exception. *)
LEMMA BlockRaisesKeeps == ASSUME EditInv, NEW t \in Thread, NEW e \in Edit, BlockRaises(t, e) PROVE EditInv'
<1>1. taken[e] = {} /\ stage[e] = "block"
  BY DEF EditInv, EditTypeOK, BlockRaises, LeaveBlock, Holding
<1>2. Finish(t, e, "raised") /\ writes' = writes
  BY DEF BlockRaises
<1>3. EditTypeOK'
  BY <1>2, FinishFacts DEF EditInv, EditTypeOK, BlockRaises, LeaveBlock, history, Made
<1>4. InHand' = InHand
  BY <1>1, <1>2, FinishFacts DEF EditInv, InHand
<1>5. NoWriteLost' /\ NothingTwice'
  BY <1>1, <1>2, <1>4, FinishFacts DEF EditInv, NoWriteLost, NothingTwice, BlockRaises, history, Made
<1> QED BY <1>3, <1>5 DEF EditInv

(* The take empties the unsent list into the hands of the edit. *)
LEMMA TakeKeeps == ASSUME EditInv, NEW t \in Thread, NEW e \in Edit, Take(t, e) PROVE EditInv'
<1>1. taken[e] = {} /\ stage[e] = "take"
  BY DEF EditInv, EditTypeOK, Take, Holding
<1>2. CASE unsent = {}
  <2>1. Finish(t, e, "returned") /\ writes' = writes /\ unsent' = unsent
    BY <1>2 DEF Take
  <2>2. EditTypeOK'
    BY <2>1, FinishFacts DEF EditInv, EditTypeOK, Take, history, Made
  <2>3. InHand' = InHand
    BY <1>1, <2>1, FinishFacts DEF EditInv, InHand
  <2>4. NoWriteLost' /\ NothingTwice'
    BY <1>1, <2>1, <2>3, FinishFacts DEF EditInv, NoWriteLost, NothingTwice, Take, history, Made
  <2> QED BY <2>2, <2>4 DEF EditInv
<1>3. CASE unsent # {}
  <2>1. /\ taken' = [taken EXCEPT ![e] = unsent]
        /\ unsent' = {}
        /\ stage' = [stage EXCEPT ![e] = "merge"]
    BY <1>3 DEF Take
  <2>2. EditTypeOK'
    BY <1>3, <2>1 DEF EditInv, EditTypeOK, Take, history, Holding, Made
  <2>3. InHand' = InHand \cup unsent
    BY <1>1, <2>1 DEF EditInv, EditTypeOK, InHand
  <2>4. NoWriteLost'
    BY <2>1, <2>3 DEF EditInv, NoWriteLost, Take, history, Made
  <2>5. NothingTwice'
    <3>1. delivered' \cap (unsent' \cup InHand') = {} /\ unsent' \cap InHand' = {}
      BY <2>1, <2>3 DEF EditInv, NothingTwice, Take, history
    <3>2. ASSUME NEW f \in Edit, NEW g \in Edit, f # g, stage'[f] # "kept", stage'[g] # "kept"
          PROVE  taken'[f] \cap taken'[g] = {}
      <4>1. \A h \in Edit : stage[h] # "kept" => taken[h] \cap unsent = {}
        BY DEF EditInv, NothingTwice, InHand
      <4> QED BY <1>1, <2>1, <3>2, <4>1 DEF EditInv, EditTypeOK, NothingTwice
    <3> QED BY <3>1, <3>2 DEF NothingTwice
  <2> QED BY <2>2, <2>4, <2>5 DEF EditInv
<1> QED BY <1>2, <1>3

(* The merge changes nobody's hands. *)
LEMMA MergedKeeps == ASSUME EditInv, NEW t \in Thread, NEW e \in Edit, Merged(t, e) PROVE EditInv'
<1>1. EditTypeOK'
  BY DEF EditInv, EditTypeOK, Merged, code, history, Holding, Made
<1>2. \A f \in Edit : (stage'[f] = "kept") = (stage[f] = "kept")
  BY DEF EditInv, EditTypeOK, Merged
<1>3. taken' = taken /\ unsent' = unsent /\ delivered' = delivered /\ writes' = writes
  BY DEF Merged, history
<1>4. InHand' = InHand
  BY <1>2, <1>3 DEF InHand
<1> QED BY <1>1, <1>2, <1>3, <1>4 DEF EditInv, NoWriteLost, NothingTwice, Made

(* An edit that gives up puts what it holds back, and what it held was in
   nobody else's hands. *)
LEMMA PutBackKeeps ==
    ASSUME EditInv, NEW t \in Thread, NEW e \in Edit, stage[e] \in {"merge", "taken"},
           unsent' = unsent \cup taken[e], Finish(t, e, "raised"),
           UNCHANGED <<writes, running, editing, started, parent, outer, nested>>,
           UNCHANGED <<returned, delivered>>, calm' \in BOOLEAN
    PROVE  EditInv'
<1>1. /\ taken'[e] = {} /\ stage'[e] # "kept"
      /\ \A f \in Edit : f # e => taken'[f] = taken[f] /\ stage'[f] = stage[f]
  BY FinishFacts DEF EditInv
<1>2. EditTypeOK'
  BY FinishFacts DEF EditInv, EditTypeOK, history, Made
<1>3. InHand = InHand' \cup taken[e]
  BY <1>1 DEF InHand
<1>4. InHand' \cap taken[e] = {}
  BY <1>1 DEF EditInv, NothingTwice, InHand
<1>5. NoWriteLost'
  BY <1>3 DEF EditInv, NoWriteLost, history, Made
<1>6. NothingTwice'
  BY <1>1, <1>3, <1>4 DEF EditInv, NothingTwice, history
<1> QED BY <1>2, <1>5, <1>6 DEF EditInv

(* An edit that has put its writes back already just ends. *)
LEMMA KeptEndsKeeps ==
    ASSUME EditInv, NEW t \in Thread, NEW e \in Edit, stage[e] = "kept",
           NEW how \in {"returned", "raised"}, Finish(t, e, how), returned' \subseteq Made',
           delivered' = delivered, returned \subseteq returned', calm' \in BOOLEAN,
           UNCHANGED <<unsent, writes, running, editing, started, parent, outer, nested>>
    PROVE  EditInv'
<1>1. /\ taken'[e] = {} /\ stage'[e] # "kept"
      /\ \A f \in Edit : f # e => taken'[f] = taken[f] /\ stage'[f] = stage[f]
  BY FinishFacts DEF EditInv
<1>2. EditTypeOK'
  BY FinishFacts DEF EditInv, EditTypeOK, Made
<1>3. InHand' = InHand
  BY <1>1 DEF InHand
<1>4. NoWriteLost' /\ NothingTwice'
  BY <1>1, <1>3 DEF EditInv, NoWriteLost, NothingTwice, Made
<1> QED BY <1>2, <1>4 DEF EditInv

(* A nested edit puts its writes back and has them in hand no longer. *)
LEMMA KeepKeeps == ASSUME EditInv, NEW t \in Thread, NEW e \in Edit, Keep(t, e) PROVE EditInv'
<1>1. /\ stage[e] = "taken"
      /\ unsent' = unsent \cup taken[e]
      /\ stage' = [stage EXCEPT ![e] = "kept"]
      /\ taken' = taken /\ delivered' = delivered /\ writes' = writes
  BY DEF Keep, history
<1>2. EditTypeOK'
  <2>1. /\ unsent' \subseteq Made'
        /\ stage' \in [Edit -> {"new", "block", "take", "returned", "raised"} \cup Holding]
        /\ taken' \in [Edit -> SUBSET Made']
        /\ \A f \in Edit : taken'[f] # {} => stage'[f] \in Holding
    BY <1>1 DEF EditInv, EditTypeOK, Holding, Made
  <2> QED BY <1>1, <2>1 DEF EditInv, EditTypeOK, Keep, code, history, Made
<1>3. InHand = InHand' \cup taken[e]
  BY <1>1 DEF EditInv, EditTypeOK, InHand
<1>4. InHand' \cap taken[e] = {}
  <2>1. \A f \in Edit : stage'[f] # "kept" => f # e /\ stage[f] # "kept"
    BY <1>1 DEF EditInv, EditTypeOK
  <2>2. \A f \in Edit : stage'[f] # "kept" => taken[f] \cap taken[e] = {}
    BY <1>1, <2>1 DEF EditInv, NothingTwice
  <2> QED BY <1>1, <2>2 DEF InHand
<1>5. NoWriteLost' /\ NothingTwice'
  BY <1>1, <1>3, <1>4 DEF EditInv, EditTypeOK, NoWriteLost, NothingTwice, Made
<1> QED BY <1>2, <1>5 DEF EditInv

(* An outermost edit returns: its writes are delivered. *)
LEMMA ReturnKeeps == ASSUME EditInv, NEW t \in Thread, NEW e \in Edit, Return(t, e) PROVE EditInv'
<1>1. CASE e \in nested
  <2>1. /\ stage[e] = "kept" /\ Finish(t, e, "returned") /\ delivered' = delivered
        /\ returned' = returned \cup taken[e]
        /\ UNCHANGED <<unsent, writes, running, editing, started, parent, outer, nested, calm>>
    BY <1>1 DEF Return, Unmasked
  <2>2. returned' \subseteq Made' /\ calm' \in BOOLEAN
    BY <2>1 DEF EditInv, EditTypeOK, Made
  <2> QED BY <2>1, <2>2, KeptEndsKeeps
<1>2. CASE e \notin nested
  <2>1. /\ stage[e] = "taken" /\ Finish(t, e, "returned")
        /\ delivered' = delivered \cup taken[e]
        /\ returned' = returned \cup taken[e]
        /\ UNCHANGED <<unsent, writes, running, editing, started, parent, outer, nested, calm>>
    BY <1>2 DEF Return, Unmasked
  <2>2. /\ taken'[e] = {} /\ stage'[e] # "kept"
        /\ \A f \in Edit : f # e => taken'[f] = taken[f] /\ stage'[f] = stage[f]
    BY <2>1, FinishFacts DEF EditInv
  <2>3. EditTypeOK'
    BY <2>1, FinishFacts DEF EditInv, EditTypeOK, Made
  <2>4. InHand = InHand' \cup taken[e]
    BY <2>1, <2>2 DEF InHand
  <2>5. InHand' \cap taken[e] = {}
    BY <2>1, <2>2 DEF EditInv, NothingTwice, InHand
  <2>6. NoWriteLost' /\ NothingTwice'
    BY <2>1, <2>2, <2>4, <2>5 DEF EditInv, NoWriteLost, NothingTwice, Made
  <2> QED BY <2>3, <2>6 DEF EditInv
<1> QED BY <1>1, <1>2

(* A masked interrupt is raised. *)
LEMMA InterruptedKeeps == ASSUME EditInv, NEW t \in Thread, NEW e \in Edit, Interrupted(t, e) PROVE EditInv'
<1>1. CASE e \in nested
  <2>1. /\ returned' \subseteq Made' /\ returned' = returned /\ delivered' = delivered
        /\ calm' \in BOOLEAN
    BY DEF EditInv, EditTypeOK, Interrupted, history, Made
  <2> QED BY <1>1, <2>1, KeptEndsKeeps DEF Interrupted, Unmasked, history
<1>2. CASE e \notin nested
  <2>1. calm' \in BOOLEAN
    BY DEF Interrupted
  <2> QED BY <1>2, <2>1, PutBackKeeps DEF Interrupted, Unmasked
<1> QED BY <1>1, <1>2

(* Every step keeps the invariant. *)
LEMMA EditInvStep == EditInv /\ [EditNext]_editVars => EditInv'
<1> SUFFICES ASSUME EditInv, [EditNext]_editVars PROVE EditInv'
  OBVIOUS
<1>1. CASE UNCHANGED editVars
  BY <1>1 DEF editVars, code, history, EditInv, EditTypeOK, NoWriteLost, NothingTwice, InHand, Made
<1>2. ASSUME NEW t \in Thread, NEW e \in Edit, MergeFails(t, e) PROVE EditInv'
  BY <1>2, PutBackKeeps DEF MergeFails
<1>3. CASE EditNext
  BY <1>2, <1>3, CommitKeeps, StartKeeps, BeginKeeps, BlockEndsKeeps, BlockRaisesKeeps, TakeKeeps,
     MergedKeeps, KeepKeeps, ReturnKeeps, InterruptedKeeps DEF EditNext
<1> QED BY <1>1, <1>3

-----------------------------------------------------------------------------
(* Doc#edit's bookkeeping invariant, in every reachable state. *)
THEOREM EditInvariant == EditSpec => []EditInv
  BY EditInvInit, EditInvStep, PTL DEF EditSpec

(* Unsent, taken and returned writes are writes that were made, and only an
   edit in progress holds any (take_unsent's locals). *)
THEOREM TypeCorrect == EditSpec => []EditTypeOK
<1>1. EditInv => EditTypeOK
  BY DEF EditInv
<1> QED BY <1>1, EditInvariant, PTL

(* "None is left out": no local write is lost between a document and the
   edits, whatever raises (take_unsent, keep_unsent). *)
THEOREM WritesAreNeverLost == EditSpec => []NoWriteLost
<1>1. EditInv => NoWriteLost
  BY DEF EditInv
<1> QED BY <1>1, EditInvariant, PTL

(* No two outermost edits return the same write. *)
THEOREM WritesComeOnce == EditSpec => []NothingTwice
<1>1. EditInv => NothingTwice
  BY DEF EditInv
<1> QED BY <1>1, EditInvariant, PTL
-----------------------------------------------------------------------------
(* What edits have returned or hold: nested ones and those that kept theirs
   count, whatever they took went out of the document in order. *)
Covered == returned \cup UNION {taken[e] : e \in Edit}

(* As long as nothing has gone wrong, it is all up to some write. *)
InOrder == calm => \A w \in Covered : \A v \in 1 .. w : v \in Covered

(* Everything that is made and not unsent is covered. *)
LEMMA MadeIsCovered ==
    ASSUME EditInv
    PROVE  Made \subseteq unsent \cup Covered /\ Covered \subseteq Made
<1>1. InHand \subseteq UNION {taken[e] : e \in Edit}
  BY DEF InHand
<1>2. delivered \subseteq returned /\ returned \subseteq Made /\ \A e \in Edit : taken[e] \subseteq Made
  BY DEF EditInv, EditTypeOK
<1> QED BY <1>1, <1>2 DEF EditInv, NoWriteLost, Covered

(* A take covers all that is made; no other step that goes well changes what
   is covered. *)
LEMMA CoveredStep ==
    ASSUME EditInv, [EditNext]_editVars, calm'
    PROVE  calm /\ (Covered' = Covered \/ Covered' = Made')
<1>1. ASSUME UNCHANGED <<taken, returned, calm>> PROVE calm /\ Covered' = Covered
  BY <1>1 DEF Covered
<1>2. ASSUME NEW t \in Thread,
             \/ Transact(t)
             \/ \E u \in Thread : StartThread(t, u)
             \/ \E e \in Edit : Begin(t, e) \/ BlockEnds(t, e) \/ Merged(t, e) \/ Keep(t, e)
      PROVE  UNCHANGED <<taken, returned, calm>>
  BY <1>2 DEF Transact, StartThread, Begin, BlockEnds, Merged, Keep, history
<1>3. ASSUME NEW t \in Thread, NEW e \in Edit, MergeFails(t, e) \/ Interrupted(t, e) PROVE FALSE
  BY <1>3 DEF MergeFails, Interrupted
<1>4. ASSUME NEW t \in Thread, NEW e \in Edit, BlockRaises(t, e) PROVE calm /\ Covered' = Covered
  <2>1. taken[e] = {} /\ taken' = [taken EXCEPT ![e] = {}] /\ UNCHANGED history
    BY <1>4 DEF EditInv, EditTypeOK, Holding, BlockRaises, LeaveBlock, Finish
  <2>2. taken' = taken
    BY <2>1 DEF EditInv, EditTypeOK
  <2> QED BY <1>1, <2>1, <2>2 DEF history
<1>5. ASSUME NEW t \in Thread, NEW e \in Edit, Take(t, e) PROVE calm /\ (Covered' = Covered \/ Covered' = Made')
  <2>1. taken[e] = {} /\ UNCHANGED <<writes, history>>
    BY <1>5 DEF EditInv, EditTypeOK, Holding, Take
  <2>2. CASE unsent = {}
    <3>1. taken' = [taken EXCEPT ![e] = {}]
      BY <1>5, <2>2 DEF Take, Finish
    <3>2. taken' = taken
      BY <2>1, <3>1 DEF EditInv, EditTypeOK
    <3> QED BY <1>1, <2>1, <3>2 DEF history
  <2>3. CASE unsent # {}
    <3>1. taken' = [taken EXCEPT ![e] = unsent]
      BY <1>5, <2>3 DEF Take
    <3>2. Covered' = Covered \cup unsent
      BY <2>1, <3>1 DEF EditInv, EditTypeOK, Covered, history
    <3>3. Covered' = Made
      BY <3>2, MadeIsCovered DEF EditInv, EditTypeOK
    <3> QED BY <2>1, <3>3 DEF Made, history
  <2> QED BY <2>2, <2>3
<1>6. ASSUME NEW t \in Thread, NEW e \in Edit, Return(t, e) PROVE calm /\ Covered' = Covered
  <2>1. returned' = returned \cup taken[e] /\ taken' = [taken EXCEPT ![e] = {}] /\ calm' = calm
    BY <1>6 DEF Return, Finish
  <2> QED BY <2>1 DEF EditInv, EditTypeOK, Covered
<1>7. CASE UNCHANGED editVars
  BY <1>1, <1>7 DEF editVars, history
<1> QED BY <1>1, <1>2, <1>3, <1>4, <1>5, <1>6, <1>7 DEF EditNext

(* So what is covered stays all that was made up to some write. *)
LEMMA InOrderStep == EditInv /\ EditInv' /\ InOrder /\ [EditNext]_editVars => InOrder'
<1> SUFFICES ASSUME EditInv, EditInv', InOrder, [EditNext]_editVars, calm' PROVE InOrder'
  BY DEF InOrder
<1>1. calm /\ (Covered' = Covered \/ Covered' = Made')
  BY CoveredStep
<1>2. ASSUME Covered' = Made' PROVE InOrder'
  BY <1>2 DEF InOrder, Made, EditInv, EditTypeOK
<1>3. ASSUME Covered' = Covered PROVE InOrder'
  BY <1>1, <1>3 DEF InOrder
<1> QED BY <1>1, <1>2, <1>3

(* "The updates edits return have no gaps between them": while no merge fails
   and no interrupt comes, whatever precedes a returned write is returned or
   held by an edit, nested and concurrent edits included. *)
THEOREM UpdatesHaveNoGaps == EditSpec => []NoGaps
<1>1. EditInit => InOrder
  BY DEF EditInit, InOrder, Covered
<1>2. EditInv /\ InOrder => NoGaps
  BY DEF InOrder, NoGaps, Covered
<1> QED BY <1>1, <1>2, InOrderStep, EditInvariant, PTL DEF EditSpec
=============================================================================
