CONSTANTS
    None = None
    User = {u1, u2, u3}
    Room = {r1}
    Handler = {h1, h2}
    Kinds = {"group"}
    MaxMembers = 3
    Deletable = {}
SPECIFICATION Spec
PROPERTY
    DeletedForGood
CHECK_DEADLOCK FALSE
