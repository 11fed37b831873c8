SPECIFICATION MCSpec
CONSTANTS
    Reqs = {r1, r2}
    AccessTTL = 1
    RefreshTTL = 2
    Leeway = 1
    MaxTime = 3
    MaxPairs = 3
    MaxResets = 1
    LoggedOut = {1}
    Senders = {c1, c2}
    Emails = {e1, e2}
    Names = {n1, n2}
    NoCode = NoCode
    Rooms = {a}
    Users = {owner, guest, other}
    Owner = owner
    Manages <- OwnerManages
    GrantTTL = 2
    TokenTTL = 1
    MaxAccessTime = 4
INVARIANTS
    ResetEndsSessions
    SpentStaysSpent
    LoggedOutRefused
    RegistrationSound
    AccessAsEarned
    TokensEnd
SYMMETRY Symmetry
CHECK_DEADLOCK FALSE
