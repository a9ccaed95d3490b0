SPECIFICATION Spec
CONSTANTS
    p1 = p1
    p2 = p2
    r1 = r1
    r2 = r2
    s1 = s1
    s2 = s2
    NONE = NONE
    Plays <- TwoPlays
    Recordings <- OneRecording
    Stops <- TwoStops
INVARIANTS
    OnePlayAtATime
CHECK_DEADLOCK FALSE
