SPECIFICATION Spec
CONSTANTS
    Element = {e1, e2}
    Doc = {d1}
    Nothing = Nothing
SYMMETRY Symmetry
INVARIANTS NoLeaseLeaks InertUntilSynced NeverForgotten
PROPERTIES ClonesAreInert
