---------------------------- MODULE EventLedger ----------------------------
(***************************************************************************)
(* What the log exporter promises of the events it is given: the events it *)
(* accepted wait in order, at most Capacity of them; they leave from the   *)
(* front, shipped or counted as dropped, and a closing exporter may give   *)
(* up on the youngest.  An event is never shipped twice, and none          *)
(* disappears without being counted.                                       *)
(***************************************************************************)
EXTENDS Naturals, Sequences

CONSTANTS Events, Capacity

VARIABLES pending, shipped, lost

Upto(q, n)  == SubSeq(q, 1, n)
After(q, n) == SubSeq(q, n + 1, Len(q))
Elements(q) == {q[i] : i \in 1..Len(q)}

LInit == pending = <<>> /\ shipped = <<>> /\ lost = {}

New(e) == e \notin Elements(pending) \cup Elements(shipped) \cup lost

Accept(e) == /\ New(e) /\ Len(pending) < Capacity
             /\ pending' = Append(pending, e) /\ UNCHANGED <<shipped, lost>>

Refuse(e) == New(e) /\ lost' = lost \cup {e} /\ UNCHANGED <<pending, shipped>>

Ship(n) == /\ shipped' = shipped \o Upto(pending, n)
           /\ pending' = After(pending, n) /\ UNCHANGED lost

Lose(n) == /\ lost' = lost \cup Elements(Upto(pending, n))
           /\ pending' = After(pending, n) /\ UNCHANGED shipped

GiveUp(n) == /\ lost' = lost \cup Elements(After(pending, n))
             /\ pending' = Upto(pending, n) /\ UNCHANGED shipped

LNext == \/ \E e \in Events : Accept(e) \/ Refuse(e)
         \/ \E n \in 1..Len(pending) : Ship(n) \/ Lose(n)
         \/ \E n \in 0..Len(pending) : GiveUp(n)

LSpec == LInit /\ [][LNext]_<<pending, shipped, lost>>
=============================================================================
