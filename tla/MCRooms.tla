------------------------------ MODULE MCRooms ------------------------------
(* Model values for the runs of Rooms. *)
EXTENDS Rooms, TLC

Symmetry == Permutations(User) \cup Permutations(Room) \cup Permutations(Handler)
=============================================================================
