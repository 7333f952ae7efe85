--------------------------- MODULE MCRunScheduler ---------------------------
(* Small instances of RunScheduler for TLC. *)
EXTENDS RunScheduler, TLC

\* Runs, chats and calls are interchangeable; sound for the safety runs only.
Symmetry == Permutations(Runs) \cup Permutations(Chats) \cup Permutations(Calls)
=============================================================================
