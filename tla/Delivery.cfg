SPECIFICATION FairSpec
CONSTANTS
    alice = alice
    bob = bob
    phone = phone
    laptop = laptop
    m1 = m1
    m2 = m2
    None = None
    User = {alice, bob}
    Device = {phone, laptop}
    Owner <- MCOwner
    Message = {m1, m2}
    Author <- MCAuthor
    Capacity = 1
    MaxFaults = 1
INVARIANTS TypeOK UpToDate TickIsTrue
PROPERTIES KeepsMailbox OfflineLearns EverybodyConfirms
CHECK_DEADLOCK FALSE
