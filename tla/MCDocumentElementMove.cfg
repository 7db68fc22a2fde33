SPECIFICATION Spec
CONSTANTS
    Element = {e1, e2}
    Doc = {d1}
    Nothing = Nothing
INVARIANT MovesKeepBinding
