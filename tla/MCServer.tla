------------------------------ MODULE MCServer ------------------------------
(* The devices for the run of Server: one each of two users.  A third user *)
(* is never connected.                                                     *)
EXTENDS Server, TLC

CONSTANTS u1, u2, u3, h1, h2

MCUser    == {u1, u2, u3}
MCHandler == {h1, h2}
MCOwner   == [h \in Handler |-> IF h = h1 THEN u1 ELSE u2]
=============================================================================
