CONSTANTS
    None = None
    User = {u1, u2, u3}
    Room = {r1, r2, r3}
    Worker = {w1, w2}
    Isolation = "read_committed"
SPECIFICATION Spec
INVARIANTS
    UniquePair
CHECK_DEADLOCK FALSE
