---------------------------- MODULE MCConsoleFeed ----------------------------
(* Small instances of ConsoleFeed for TLC. *)
EXTENDS ConsoleFeed, TLC

Symmetry == Permutations(Runs) \cup Permutations(Subs)
=============================================================================
