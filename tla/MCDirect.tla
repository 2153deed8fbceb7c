------------------------------ MODULE MCDirect ------------------------------
(* Model values for the runs of DirectChats. *)
EXTENDS DirectChats, TLC

Symmetry ==
    Permutations(User) \cup Permutations(Room) \cup Permutations(Worker)
=============================================================================
