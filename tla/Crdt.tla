-------------------------------- MODULE Crdt --------------------------------
(***************************************************************************)
(* What the rest of the project needs to know of a Y.Doc.  A document, an  *)
(* update, a state vector are SETS of structs: applying an update is set   *)
(* union, which makes it idempotent, commutative and associative.  A       *)
(* struct takes effect (is INTEGRATED) once everything it refers to is     *)
(* there; until then it is PENDING, parked inside the document.  What it   *)
(* refers to need not be all that its author wrote before it: a block past *)
(* a missing one can integrate and leave a HOLE below it, which neither    *)
(* the pending structs nor the state vector shows.                         *)
(*                                                                         *)
(* The operators are the pure functions of ext/yrby/src/protocol.rs and    *)
(* the Y::Doc methods of ext/yrby/src/lib.rs built on them.  How yrs       *)
(* integrates a struct is its own business (external).                     *)
(***************************************************************************)
EXTENDS FiniteSets

CONSTANTS Struct,   \* the structs (inserted items and deletions) of a history
          Deletes,  \* those that are deletions: no state vector counts them
          Client,   \* the Yjs client ids that authored them
          Author,   \* the client id of a struct
          Past,     \* its causal past: the client's earlier structs, its
                    \* origins and parent, the target of a deletion
          Needs     \* the part of it that integration waits for

ASSUME CrdtAssumption ==
    /\ Deletes \subseteq Struct
    /\ Author \in [Struct -> Client]
    /\ Past \in [Struct -> SUBSET (Struct \ Deletes)]
    /\ Needs \in [Struct -> SUBSET Struct]
    /\ \A u \in Struct :
           /\ u \notin Past[u]
           /\ Needs[u] \subseteq Past[u]
           /\ \A v \in Past[u] : Past[v] \subseteq Past[u]
           /\ \A v \in Needs[u] : Needs[v] \subseteq Needs[u]

(* A document, or an update: what it carries. *)
Content == SUBSET Struct

-----------------------------------------------------------------------------
(* The structs of S that take effect, and the ones that are parked. *)
Integrated(S) == {u \in S : Needs[u] \subseteq S}
Pending(S) == S \ Integrated(S)

(* Document#pending? *)
HasPending(S) == Pending(S) # {}

(* Neither a parked struct in S nor a hole below an integrated one. *)
GapFree(S) == \A u \in S : Past[u] \subseteq S

(* The structs of u's author that precede u: the lower clocks. *)
Earlier(u) == {v \in Past[u] : Author[v] = Author[u]}

(* The clocks a document announces, per client up to the first hole. *)
StateVector(S) == {u \in Integrated(S) \ Deletes : Earlier(u) \subseteq Integrated(S)}

(* encode_state_as_update(sv): everything, the pending structs and the whole
   delete set included, that the state vector does not cover. *)
EncodeStateAsUpdate(S, sv) == S \ sv

(* compacted_state_update: the integrated part alone, holes as they are. *)
CompactedStateUpdate(S) == Integrated(S)

(* state_vector_lower() of an update: the clocks below its first ones. *)
Below(U) == {w \in UNION {Earlier(u) : u \in U \ Deletes} :
                w \notin U /\ Earlier(w) \cap U = {}}

(* update_ready?: the document has the clocks below U, and U integrates on
   its integrated part with nothing parked. *)
UpdateIsReady(S, U) == /\ Below(U) \subseteq StateVector(S)
                       /\ ~HasPending(Integrated(S) \cup U)

(* state_vector() of an update: a client's clocks from its very first one up
   to the first Skip, so none for an update that starts later. *)
UpdateStateVector(U) == {u \in U \ Deletes : Earlier(u) \subseteq U}

GapsOverlooked(U) == FALSE

(* An insertion past a non-zero cap of that state vector: it hides behind a
   Skip, and may take effect without moving the document's state vector. *)
HiddenGap(U) ==
    \E u \in U \ Deletes, v \in UpdateStateVector(U) :
        Author[u] = Author[v] /\ u \notin UpdateStateVector(U)

(* The fast path: clocks of U that the document's state vector lacks. *)
BeyondStateVector(S, U) == ~(UpdateStateVector(U) \subseteq StateVector(S))

(* update_advances?: would applying U change the document? *)
UpdateAdvances(S, U) ==
    \/ HiddenGap(U)
    \/ /\ U \cap Deletes # {}
       /\ ~(U \subseteq S)
    \/ /\ U \cap Deletes = {}
       /\ \/ BeyondStateVector(S, U)
          \/ StateVector(S \cup U) # StateVector(S)
          \/ HasPending(S \cup U) # HasPending(S)

(* update_from_message: the frame's change, nothing for a genuine no-op. *)
NoChange(U) == U = {}
=============================================================================
