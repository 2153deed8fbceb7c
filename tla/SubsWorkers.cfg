CONSTANTS
    None = None
    u1 = u1
    u2 = u2
    c1 = c1
    c2 = c2
    c3 = c3
    User <- MCUser
    Conn <- TwoConns
    Owner <- MCOwner
    Room = {r1}
    MaxBusy = 2
    Timely = TRUE
    Crashes = TRUE
    OneWorker = FALSE
    Stale = TRUE
SPECIFICATION FairSpec
INVARIANTS
    NoStranger
PROPERTIES
    HandlersEnd
CHECK_DEADLOCK FALSE
