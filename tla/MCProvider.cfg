SPECIFICATION Spec
CONSTANTS
    MaxAttempts = 3
    MaxDepth = 3
    Presence = {p, q}
    Null = Null
SYMMETRY Symmetry
INVARIANTS NoSubscriptionLeaks DestroyTakesEffect PresenceIsKept FramesStayHome
CHECK_DEADLOCK FALSE
