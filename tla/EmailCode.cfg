SPECIFICATION MCSpec
CONSTANTS
    Senders = {s1, s2}
    Verifiers = {v1, v2}
    Sec = 3
    Cooldown = 2
    CodeTTL = 3
    DayLen = 6
    DailyLimit = 1
    MaxAttempts = 2
    MaxTime = 12
    Start = 8
    Moments = {10, 11, 12}
    MaxSends = 3
    MaxCodes = 2
    MaxGuesses = 2
INVARIANTS
    SendsLimited
    SpentGone
    LatestUsable
SYMMETRY RequestSymmetry
CHECK_DEADLOCK FALSE
