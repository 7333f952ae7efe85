---------------------------- MODULE MCTranscript ----------------------------
(* Small instances of Transcript for TLC. *)
EXTENDS Transcript

\* The calls of a turn are interchangeable.
Symmetry == Permutations(Calls)
=============================================================================
