------------------------------ MODULE DocEdit ------------------------------
(***************************************************************************)
(* Y::Doc#edit (lib/y/doc.rb) over the native document's list of unsent    *)
(* updates (ext/yrby/src/lib.rs): each call returns the local writes no    *)
(* edit has returned yet.  Threads write, edit and start threads inside    *)
(* their blocks; an edit inside another, in the same thread or in one its  *)
(* block started, leaves what it took for the outer one.  Blocks raise,    *)
(* merges fail, interrupts arrive while an edit holds what it took.        *)
(*                                                                         *)
(* Of an update only the writes it carries matter, so the list of unsent   *)
(* updates is the set of their writes and merging is union.                *)
(***************************************************************************)
EXTENDS Naturals, FiniteSets

CONSTANTS Thread,    \* threads or fibers
          Pool,      \* those that run from the start; the others are started
                     \* by a thread, inside its block or outside
          Edit,      \* calls of edit (bounds them)
          MaxWrite,  \* bound: local transactions
          None       \* no edit

ASSUME EditAssumption ==
    /\ Pool \subseteq Thread
    /\ MaxWrite \in Nat
    /\ None \notin Edit

VARIABLES
    unsent,     \* the writes in Unsent
    writes,     \* how many writes there were: they are 1 .. writes
    running,    \* the edits whose block runs: entries that are not empty
    editing,    \* per thread: the entries of Fiber[:yrby_editing]
    started,    \* the threads that exist
    current,    \* per thread: its innermost edit
    parent,     \* per edit: the edit around it in its thread
    outer,      \* per edit: the local of that name
    nested,     \* the edits that began inside another
    stage,      \* per edit: where it is
    taken,      \* per edit: the local of that name
    returned,   \* history: the writes some edit has returned
    delivered,  \* history: those an edit that was not nested has returned
    calm        \* history: no merge has failed, no interrupt has come

code     == <<running, editing, started, current, parent, outer, nested>>
history  == <<returned, delivered, calm>>
editVars == <<unsent, writes, code, stage, taken, history>>

Made == 1 .. writes

Holding == {"merge", "taken", "kept"}

EditTypeOK ==
    /\ writes \in 0 .. MaxWrite
    /\ unsent \subseteq Made
    /\ running \subseteq Edit
    /\ editing \in [Thread -> SUBSET Edit]
    /\ started \subseteq Thread
    /\ current \in [Thread -> Edit \cup {None}]
    /\ parent \in [Edit -> Edit \cup {None}]
    /\ outer \in [Edit -> SUBSET Edit]
    /\ nested \subseteq Edit
    /\ stage \in [Edit -> {"new", "block", "take", "returned", "raised"} \cup Holding]
    /\ taken \in [Edit -> SUBSET Made]
    /\ \A e \in Edit : taken[e] # {} => stage[e] \in Holding
    /\ returned \subseteq Made
    /\ delivered \subseteq returned
    /\ calm \in BOOLEAN

EditInit ==
    /\ unsent = {}
    /\ writes = 0
    /\ running = {}
    /\ editing = [t \in Thread |-> {}]
    /\ started = Pool
    /\ current = [t \in Thread |-> None]
    /\ parent = [e \in Edit |-> None]
    /\ outer = [e \in Edit |-> {}]
    /\ nested = {}
    /\ stage = [e \in Edit |-> "new"]
    /\ taken = [e \in Edit |-> {}]
    /\ returned = {}
    /\ delivered = {}
    /\ calm = TRUE

-----------------------------------------------------------------------------
(* A thread runs application code: outside any edit, or in an edit's block. *)
RunsCode(t) ==
    /\ t \in started
    /\ current[t] # None => stage[current[t]] = "block"

(* A local transaction commits: the observer pushes its update. *)
Transact(t) ==
    /\ RunsCode(t)
    /\ writes < MaxWrite
    /\ writes' = writes + 1
    /\ unsent' = unsent \cup {writes + 1}
    /\ UNCHANGED <<code, stage, taken, history>>

(* Thread.new or Fiber.new: the other one inherits the fiber storage. *)
StartThread(t, u) ==
    /\ RunsCode(t)
    /\ u \notin started
    /\ started' = started \cup {u}
    /\ editing' = [editing EXCEPT ![u] = editing[t]]
    /\ UNCHANGED <<unsent, writes, running, current, parent, outer, nested, stage, taken, history>>

(* edit, up to the block. *)
Begin(t, e) ==
    /\ RunsCode(t)
    /\ stage[e] = "new"
    /\ outer' = [outer EXCEPT ![e] = editing[t] \cap running]
    /\ nested' = IF editing[t] \cap running # {} THEN nested \cup {e} ELSE nested
    /\ running' = running \cup {e}
    /\ editing' = [editing EXCEPT ![t] = (@ \cap running) \cup {e}]
    /\ parent' = [parent EXCEPT ![e] = current[t]]
    /\ current' = [current EXCEPT ![t] = e]
    /\ stage' = [stage EXCEPT ![e] = "block"]
    /\ UNCHANGED <<unsent, writes, started, taken, history>>

(* The ensure clause: the edit no longer runs. *)
LeaveBlock(t, e) ==
    /\ current[t] = e
    /\ stage[e] = "block"
    /\ running' = running \ {e}
    /\ editing' = [editing EXCEPT ![t] = outer[e]]

(* The call of edit e is over, one way or the other. *)
Finish(t, e, how) ==
    /\ current' = [current EXCEPT ![t] = parent[e]]
    /\ stage' = [stage EXCEPT ![e] = how]
    /\ taken' = [taken EXCEPT ![e] = {}]

BlockEnds(t, e) ==
    /\ LeaveBlock(t, e)
    /\ stage' = [stage EXCEPT ![e] = "take"]
    /\ UNCHANGED <<unsent, writes, started, current, parent, outer, nested, taken, history>>

(* The block raises, or an interrupt does before the take: nothing is taken. *)
BlockRaises(t, e) ==
    /\ LeaveBlock(t, e)
    /\ Finish(t, e, "raised")
    /\ UNCHANGED <<unsent, writes, started, parent, outer, nested, history>>

TakeLatest(t, e) ==
    /\ current[t] = e
    /\ stage[e] = "take"
    /\ IF unsent = {}
       THEN Finish(t, e, "returned") /\ UNCHANGED unsent
       ELSE /\ \E w \in unsent : /\ \A v \in unsent : v <= w
                                 /\ taken' = [taken EXCEPT ![e] = {w}]
                                 /\ unsent' = unsent \ {w}
            /\ stage' = [stage EXCEPT ![e] = "merge"]
            /\ UNCHANGED current
    /\ UNCHANGED <<writes, running, editing, started, parent, outer, nested, history>>

(* native_take_unsent, the take: everything at once, or nil. *)
Take(t, e) ==
    /\ current[t] = e
    /\ stage[e] = "take"
    /\ IF unsent = {}
       THEN Finish(t, e, "returned") /\ UNCHANGED unsent
       ELSE /\ taken' = [taken EXCEPT ![e] = unsent]
            /\ unsent' = {}
            /\ stage' = [stage EXCEPT ![e] = "merge"]
            /\ UNCHANGED current
    /\ UNCHANGED <<writes, running, editing, started, parent, outer, nested, history>>

(* The merge, without the GVL. *)
Merged(t, e) ==
    /\ current[t] = e
    /\ stage[e] = "merge"
    /\ stage' = [stage EXCEPT ![e] = "taken"]
    /\ UNCHANGED <<unsent, writes, code, taken, history>>

MergeFailsAndDrops(t, e) ==
    /\ current[t] = e
    /\ stage[e] = "merge"
    /\ Finish(t, e, "raised")
    /\ calm' = FALSE
    /\ UNCHANGED <<unsent, writes, running, editing, started, parent, outer, nested, returned, delivered>>

(* The merge fails, or an interrupt comes back with it: put it all back. *)
MergeFails(t, e) ==
    /\ current[t] = e
    /\ stage[e] = "merge"
    /\ unsent' = unsent \cup taken[e]
    /\ Finish(t, e, "raised")
    /\ calm' = FALSE
    /\ UNCHANGED <<writes, running, editing, started, parent, outer, nested, returned, delivered>>

(* native_keep_unsent, still masked: a nested edit leaves it for the outer. *)
Keep(t, e) ==
    /\ current[t] = e
    /\ stage[e] = "taken"
    /\ e \in nested
    /\ unsent' = unsent \cup taken[e]
    /\ stage' = [stage EXCEPT ![e] = "kept"]
    /\ UNCHANGED <<writes, code, taken, history>>

(* The masked block is over. *)
Unmasked(t, e) ==
    /\ current[t] = e
    /\ stage[e] = IF e \in nested THEN "kept" ELSE "taken"

(* edit returns what it took. *)
Return(t, e) ==
    /\ Unmasked(t, e)
    /\ returned' = returned \cup taken[e]
    /\ delivered' = IF e \in nested THEN delivered ELSE delivered \cup taken[e]
    /\ Finish(t, e, "returned")
    /\ UNCHANGED <<unsent, writes, running, editing, started, parent, outer, nested, calm>>

InterruptedKeepsAgain(t, e) ==
    /\ Unmasked(t, e)
    /\ unsent' = unsent \cup taken[e]
    /\ Finish(t, e, "raised")
    /\ calm' = FALSE
    /\ UNCHANGED <<writes, running, editing, started, parent, outer, nested, returned, delivered>>

(* An interrupt that was masked is raised: what was taken goes back, unless
   it is back already. *)
Interrupted(t, e) ==
    /\ Unmasked(t, e)
    /\ unsent' = IF e \in nested THEN unsent ELSE unsent \cup taken[e]
    /\ Finish(t, e, "raised")
    /\ calm' = FALSE
    /\ UNCHANGED <<writes, running, editing, started, parent, outer, nested, returned, delivered>>

EditNext ==
    \E t \in Thread :
        \/ Transact(t)
        \/ \E u \in Thread : StartThread(t, u)
        \/ \E e \in Edit :
              \/ Begin(t, e) \/ BlockEnds(t, e) \/ BlockRaises(t, e)
              \/ Take(t, e) \/ Merged(t, e) \/ MergeFails(t, e)
              \/ Keep(t, e) \/ Return(t, e) \/ Interrupted(t, e)

EditSpec == EditInit /\ [][EditNext]_editVars

-----------------------------------------------------------------------------
(* The writes an edit has taken and nobody else has: those of an edit that is
   not nested, or is and has not put them back yet. *)
InHand == UNION {taken[e] : e \in {f \in Edit : stage[f] # "kept"}}

(* "The document keeps every local write until an edit returns it, so none is
   left out": a write that no outermost edit has returned waits in the
   document or is in the hands of an edit that will return it or put it back,
   whatever raises and whichever threads edit at once. *)
NoWriteLost == Made \subseteq unsent \cup InHand \cup delivered

(* No write comes twice from edits that are not nested: what one has returned
   or is about to return is neither unsent nor in another one's hands. *)
NothingTwice ==
    /\ delivered \cap (unsent \cup InHand) = {}
    /\ unsent \cap InHand = {}
    /\ \A e, f \in Edit : e # f /\ stage[e] # "kept" /\ stage[f] # "kept"
                          => taken[e] \cap taken[f] = {}

(* "Each edit takes everything unsent at once, so the updates edits return
   have no gaps between them": as long as no merge has failed and no interrupt
   has come, all that precedes a returned write is returned or about to be. *)
NoGaps ==
    calm => \A w \in returned : \A v \in 1 .. w :
                v \in returned \/ \E e \in Edit : v \in taken[e]

(* Inductive as it stands. *)
EditInv == EditTypeOK /\ NoWriteLost /\ NothingTwice
=============================================================================
