CONSTANTS
    None = None
    User = {u1, u2, u3}
    Room = {r1}
    Handler = {h1, h2}
    Kinds = {"group", "channel", "direct"}
    MaxMembers = 2
    Deletable = {u1, u2, u3}
SPECIFICATION Spec
SYMMETRY Symmetry
INVARIANTS
    Capacity
    NoOrphanRows
    DirectSize
PROPERTIES
    CreatorStays
    NeverEmptied
CHECK_DEADLOCK FALSE
