-------------------------- MODULE MCDocumentChannel --------------------------
(* Two attributes with their derived keys and a key the application chose. *)
EXTENDS DocumentChannel, TLC

CONSTANTS attrA, attrB, keyA, keyB, room

MCDerived == attrA :> keyA @@ attrB :> keyB

MCSymmetry == Permutations(Caller) \cup Permutations(Sub)
=============================================================================
