CONSTANTS
    None = None
    User = {u1, u2, u3}
    Room = {r1}
    Message = {m1, m2}
    Handler = {h1, h2}
    MaxEvents = 4
    Emoji = {e1, e2}
SPECIFICATION Spec
SYMMETRY Symmetry
INVARIANTS
    TypeOK
    TracesAreOfMembers
    NobodyMissed
    LastIsStored
PROPERTIES
    OnlySenderModifies
    DeletedStays
    NoEmptiedNote
CHECK_DEADLOCK FALSE
