------------------------- MODULE MCDocumentSession -------------------------
(* A document's sessions in one page, with a few editors that come and go. *)
EXTENDS DocumentSession
=============================================================================
