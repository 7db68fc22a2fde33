SPECIFICATION ChannelSpec
CONSTANTS
    attrA = attrA
    attrB = attrB
    keyA = keyA
    keyB = keyB
    room = room
    Caller = {c1, c2}
    Sub = {s1, s2}
    Attr = {attrA, attrB}
    Key = {keyA, keyB, room}
    Derived <- MCDerived
    Absent = Absent
    Unbound = Unbound
    Nothing = Nothing
SYMMETRY MCSymmetry
INVARIANTS UpdatesAreLoaded FramesAreHandled BroadcastsGoHome RefusedIsStopped
CHECK_DEADLOCK FALSE
