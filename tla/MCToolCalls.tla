----------------------------- MODULE MCToolCalls -----------------------------
(* Small instances of ToolCalls for TLC. *)
EXTENDS ToolCalls, TLC

McNoAnns == {Nil}

\* Calls and people are interchangeable.
McSymmetry == Permutations(CallIDs) \cup Permutations(Requests)
=============================================================================
