---------------------------- MODULE MCMessages ----------------------------
(* Model values for the runs of Messages. *)
EXTENDS Messages, TLC

Symmetry == Permutations(User) \cup Permutations(Handler)
                \cup Permutations(Message) \cup Permutations(Emoji)
=============================================================================
