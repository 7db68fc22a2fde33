------------------------------ MODULE MCCollab ------------------------------
(* Two tabs, with edits that build on each other. *)
EXTENDS Collab, TLC

CONSTANTS h, a1, a2, d1, A, B

(* The document began as h, by A; a1 and a2 are A's next edits, d1 is B's
   deletion of what a1 inserted.  Editors send their structs in one piece, each
   with what it follows, and one that arrives early waits for all of it: Needs
   is Past. *)
MCAuthor == (h :> A) @@ (a1 :> A) @@ (a2 :> A) @@ (d1 :> B)
MCPast == (h :> {}) @@ (a1 :> {h}) @@ (a2 :> {h, a1}) @@ (d1 :> {h, a1})

Restrict(f, S) == [x \in S |-> f[x]]
Writer == {h, a1, a2}
WriterAuthor == Restrict(MCAuthor, Writer)
WriterPast == Restrict(MCPast, Writer)
Pair == {h, a1, d1}
PairAuthor == Restrict(MCAuthor, Pair)
PairPast == Restrict(MCPast, Pair)

(* Where a document comes from: the store, or the page before its session. *)
NoSeed == [t \in Tab |-> {}]
SeededA == [t \in Tab |-> IF t = A THEN {h} ELSE {}]

(* Connections: everybody keeps the first one; B, or A, opens more. *)
Stable == [t \in Tab |-> 1]
AReconnects == [t \in Tab |-> IF t = A THEN 2 ELSE 1]

(* Who disconnects by itself, and comes back. *)
NobodyLeaves == [t \in Tab |-> 0]
ALeaves == [t \in Tab |-> IF t = A THEN 1 ELSE 0]
BLeaves == [t \in Tab |-> IF t = B THEN 1 ELSE 0]
=============================================================================
