--------------------------- MODULE MCDocumentStore ---------------------------
(* A history with a chain and a deletion, recorded with gaps, for TLC. *)
EXTENDS DocumentStore, TLC

CONSTANTS a1, a2, a3, d1, A, B

(* a1, a2, a3 is A's chain, d1 deletes a1. *)
MCStruct == {a1, a2, a3, d1}
MCDeletes == {d1}
MCAuthor == (a1 :> A) @@ (a2 :> A) @@ (a3 :> A) @@ (d1 :> B)
MCPast == (a1 :> {}) @@ (a2 :> {a1}) @@ (a3 :> {a1, a2}) @@ (d1 :> {a1})

(* a2 is typed after a1 and waits for it; a3 is the first of another root. *)
MCNeeds == [MCPast EXCEPT ![a3] = {}]

(* Single edits, and a merged frame with a Skip that a3 integrates past. *)
MCPayload == {{a1}, {a2}, {d1}, {a1, a3}}
=============================================================================
