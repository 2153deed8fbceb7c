------------------------------ MODULE Mailbox ------------------------------
(***************************************************************************)
(* What the notifications of a room promise to its members, whatever       *)
(* devices they connect and lose: a message that was announced waits for   *)
(* everybody but its sender, a user is shown only what was announced, and  *)
(* waits no more only after having been shown it.                          *)
(***************************************************************************)
CONSTANTS
    User,       \* the members of the room
    Message     \* the messages that may be sent

VARIABLES
    waiting,    \* waiting[m]: those m is still announced to
    confirmed,  \* confirmed[m]: those who acknowledged m
    posted,     \* the messages that were announced
    shown       \* shown[u]: what some device of u has shown

vars == <<waiting, confirmed, posted, shown>>

Init ==
    /\ waiting = [m \in Message |-> {}]
    /\ confirmed = [m \in Message |-> {}]
    /\ posted = {}
    /\ shown = [u \in User |-> {}]

Post(m, s) ==
    /\ m \notin posted
    /\ posted' = posted \cup {m}
    /\ waiting' = [waiting EXCEPT ![m] = User \ {s}]
    /\ UNCHANGED <<confirmed, shown>>

Show(u, M) ==
    /\ M \subseteq posted
    /\ shown' = [shown EXCEPT ![u] = @ \cup M]
    /\ UNCHANGED <<waiting, confirmed, posted>>

Confirm(u, M) ==
    /\ M \subseteq shown[u]
    /\ waiting' = [m \in Message |->
           IF m \in M THEN waiting[m] \ {u} ELSE waiting[m]]
    /\ confirmed' = [m \in Message |->
           IF m \in M THEN confirmed[m] \cup {u} ELSE confirmed[m]]
    /\ UNCHANGED <<posted, shown>>

Next ==
    \/ \E m \in Message, s \in User : Post(m, s)
    \/ \E u \in User, M \in SUBSET Message : Show(u, M) \/ Confirm(u, M)

Spec == Init /\ [][Next]_vars
=============================================================================
