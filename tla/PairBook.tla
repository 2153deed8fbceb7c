------------------------------ MODULE PairBook ------------------------------
(***************************************************************************)
(* What enforce_two_participants_on_one_to_one_chat (signals.py:53)        *)
(* promises: a pair of users opens a chat only when it has none, and a     *)
(* chat is of one pair for as long as it exists.  DirectChats shows how    *)
(* worker processes keep that promise, or fail to.                         *)
(***************************************************************************)
CONSTANTS Pair, Room

VARIABLE chats    \* chats[p]: the direct chats of pair p

Init == chats = [p \in Pair |-> {}]

\* p opens room r.
Open(p, r) ==
    /\ chats[p] = {}
    /\ \A q \in Pair : r \notin chats[q]
    /\ chats' = [chats EXCEPT ![p] = {r}]

\* The chat of p is deleted.
Close(p) ==
    /\ chats[p] # {}
    /\ chats' = [chats EXCEPT ![p] = {}]

Next ==
    \E p \in Pair :
        \/ \E r \in Room : Open(p, r)
        \/ Close(p)

Spec == Init /\ [][Next]_chats
=============================================================================
