-------------------------- MODULE MCSubscriptions --------------------------
(* The devices for the runs of Subscriptions: two of one user and one of   *)
(* another, or one of each.                                                *)
EXTENDS Subscriptions, TLC

CONSTANTS u1, u2, c1, c2, c3

MCUser     == {u1, u2}
ThreeConns == {c1, c2, c3}
TwoConns   == {c1, c3}
MCOwner    == [c \in Conn |-> IF c = c3 THEN u2 ELSE u1]

RoomSymmetry == Permutations(Room)
=============================================================================
