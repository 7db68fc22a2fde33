------------------------- MODULE MCDocumentElement -------------------------
EXTENDS DocumentElement, TLC

Symmetry == Permutations(Element)
=============================================================================
