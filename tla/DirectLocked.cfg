CONSTANTS
    None = None
    User = {u1, u2, u3}
    Room = {r1, r2, r3, r4}
    Worker = {w1, w2, w3}
    Isolation = "locked"
SPECIFICATION Spec
SYMMETRY Symmetry
INVARIANTS
    TypeOK
    UniquePair
    AllOrNothing
    NoDeadlock
PROPERTIES
    KeepsBook
CHECK_DEADLOCK FALSE
