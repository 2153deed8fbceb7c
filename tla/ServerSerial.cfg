CONSTANTS
    None = None
    u1 = u1
    u2 = u2
    u3 = u3
    h1 = h1
    h2 = h2
    User <- MCUser
    Handler <- MCHandler
    Owner <- MCOwner
    Room = {r1}
    Kinds = {"group", "channel"}
    MaxMembers = 2
    Deletable = {}
    MaxBusy = 1
    Timely = TRUE
    Crashes = TRUE
    OneWorker = TRUE
SPECIFICATION ServerSpec
INVARIANTS
    TypeOK
    AdminsAreMembers
    HoldersAreMembers
PROPERTIES
    RefinesStore
    ImplementsSubscriptions
CHECK_DEADLOCK FALSE
