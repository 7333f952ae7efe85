--------------------------- MODULE ToolCallsProofs ---------------------------
(***************************************************************************)
(* Proofs about the tool calls of a run, for any number of calls, turns    *)
(* and people, any tools, modes, budget and edits: what runs was approved  *)
(* and within the budget, the call log tells what happened, and every call *)
(* has its one result when the turn ends.                                  *)
(***************************************************************************)
EXTENDS ToolCalls, FiniteSetTheorems, TLAPS

-----------------------------------------------------------------------------
(* Types, as far as the proofs need them.                                  *)

ReqSet == [state : {"idle", "sent", "found", "ok", "refused"}, id : CallIDs \cup {Nil},
           op : Ops \cup {Nil}, pa : Entries \cup {Nil}]

CallTypes ==
    /\ turn \in 1..MaxTurns
    /\ pc \in [CallIDs -> PCs] /\ kind \in [CallIDs -> AllKinds]
    /\ asked \subseteq CallIDs /\ dispatched \subseteq CallIDs /\ lost \subseteq CallIDs
    /\ DOMAIN rows = CallIDs /\ results \in [CallIDs -> Nat]
    /\ toolCalls \in Nat /\ made \in Nat

WaitTypes ==
    /\ dec \in [CallIDs -> Ops \cup {"timeout", "cancelled", Nil}]
    /\ approvals \in [CallIDs -> Entries \cup {Nil}]
    /\ box \in [Entries -> Ops \cup {Nil}]
    /\ req \in [Requests -> ReqSet]
    /\ \A q \in Requests : req[q].state = "sent" => req[q].id \in CallIDs

TypeInv == CallTypes /\ WaitTypes

LEMMA InitTypes == Init => TypeInv
<1> SUFFICES ASSUME Init PROVE TypeInv
  OBVIOUS
<1>1. 1 \in 1..MaxTurns
  BY ToolCallsAssumption
<1>2. CallTypes
  BY <1>1, ToolCallsAssumption DEF Init, CallTypes, PCs, AllKinds
<1>3. WaitTypes
  BY DEF Init, WaitTypes, NoReq, ReqSet
<1> QED BY <1>2, <1>3 DEF TypeInv

\* Every step of a call moves that call only.
LEMMA CallTypesStep ==
    ASSUME CallTypes, NEW k \in CallIDs, CallNext(k)
    PROVE  CallTypes'
<1> USE DEF CallTypes, PCs, Goto
<1>1. CASE Start(k)
  BY <1>1 DEF Start, waitVars, logVars
<1>2. CASE Check(k)
  BY <1>2 DEF Check, Record, runVars, waitVars
<1>3. CASE Gate(k)
  BY <1>3 DEF Gate, PassOrAsk, runVars, waitVars, logVars
<1>4. CASE GateWait(k)
  BY <1>4 DEF GateWait, runVars, logVars
<1>5. CASE GateLeave(k)
  BY <1>5 DEF GateLeave, Record, runVars
<1>6. CASE Run(k)
  BY <1>6 DEF Run, Record, Dispatch, runVars, waitVars
<1>7. CASE Ask(k)
  BY <1>7 DEF Ask, Record, Dispatch, runVars, waitVars
<1>8. CASE AskWait(k)
  BY <1>8 DEF AskWait, runVars, logVars
<1>9. CASE AskLeave(k)
  BY <1>9 DEF AskLeave, Record, Panic
<1>10. CASE Persist(k)
  BY <1>10 DEF Persist, runVars, waitVars
<1> QED BY <1>1, <1>2, <1>3, <1>4, <1>5, <1>6, <1>7, <1>8, <1>9, <1>10 DEF CallNext

LEMMA WaitTypesStep ==
    ASSUME TypeInv, NEW k \in CallIDs, CallNext(k)
    PROVE  WaitTypes'
<1> USE DEF TypeInv, WaitTypes
<1>0. Entry(k, "gate") \in Entries /\ Entry(k, "question") \in Entries
  BY DEF CallTypes, Entry, Entries
<1>1. CASE Start(k)
  BY <1>1 DEF Start, waitVars, userVars
<1>2. CASE Check(k)
  BY <1>2 DEF Check, waitVars, userVars
<1>3. CASE Gate(k)
  BY <1>0, <1>3 DEF Gate, PassOrAsk, userVars, waitVars
<1>4. CASE GateWait(k)
  BY <1>0, <1>4 DEF GateWait, Wait, Receive, Outcome, userVars
<1>5. CASE GateLeave(k)
  BY <1>5 DEF GateLeave, Outcome, userVars
<1>6. CASE Run(k)
  BY <1>6 DEF Run, waitVars, userVars
<1>7. CASE Ask(k)
  BY <1>0, <1>7 DEF Ask, waitVars, userVars
<1>8. CASE AskWait(k)
  BY <1>0, <1>8 DEF AskWait, Wait, Receive, Outcome, userVars
<1>9. CASE AskLeave(k)
  <2>1. dec' \in [CallIDs -> Ops \cup {"timeout", "cancelled", Nil}] /\ box' = box
    BY <1>9 DEF AskLeave, Outcome
  <2>2. approvals' \in [CallIDs -> Entries \cup {Nil}]
    BY <1>9 DEF AskLeave, Panic
  <2>3. /\ req' \in [Requests -> ReqSet]
        /\ \A q \in Requests : req'[q].state = "sent" => req'[q].id \in CallIDs
    BY <1>9 DEF AskLeave, Panic, ReqSet
  <2> QED BY <2>1, <2>2, <2>3
<1>10. CASE Persist(k)
  BY <1>10 DEF Persist, waitVars, userVars
<1> QED BY <1>1, <1>2, <1>3, <1>4, <1>5, <1>6, <1>7, <1>8, <1>9, <1>10 DEF CallNext

LEMMA NextTurnTypes == TypeInv /\ NextTurn => TypeInv'
<1> SUFFICES ASSUME TypeInv, NextTurn PROVE TypeInv'
  OBVIOUS
<1>1. CASE BeginTurn /\ turn < MaxTurns
  <2>1. CallTypes'
    BY <1>1, ToolCallsAssumption DEF TypeInv, CallTypes, NextTurn, BeginTurn, PCs, AllKinds
  <2>2. /\ req' \in [Requests -> ReqSet]
        /\ \A q \in Requests : req'[q].state = "sent" => req'[q].id \in CallIDs
    BY <1>1 DEF TypeInv, WaitTypes, BeginTurn, Done, NoReq, ReqSet
  <2>3. box' \in [Entries -> Ops \cup {Nil}]
    BY <1>1 DEF TypeInv, WaitTypes, BeginTurn
  <2>4. dec' \in [CallIDs -> Ops \cup {"timeout", "cancelled", Nil}] /\ approvals' = approvals
    BY <1>1 DEF BeginTurn, NextTurn
  <2> QED BY <2>1, <2>2, <2>3, <2>4 DEF TypeInv, WaitTypes
<1>2. CASE over' = TRUE /\ UNCHANGED <<turn, callVars, asked, dispatched, lost, rows, results, box, req>>
  BY <1>2 DEF NextTurn, TypeInv, CallTypes, WaitTypes, callVars
<1> QED BY <1>1, <1>2 DEF NextTurn

LEMMA PeopleTypes ==
    ASSUME TypeInv, NEW q \in Requests, Find(q) \/ Decide(q) \/ \E k \in CallIDs : Send(q, k)
    PROVE  TypeInv'
<1>1. CallTypes'
  BY DEF TypeInv, CallTypes, Find, Decide, Send, runVars, callVars, waitVars, logVars
<1>2. WaitTypes'
  <2> USE DEF TypeInv, WaitTypes, callVars, waitVars
  <2> DEFINE Sound(r) == r \in ReqSet /\ (r.state = "sent" => r.id \in CallIDs)
  <2>0. /\ \A r \in ReqSet : /\ r.op \in Ops \cup {Nil} /\ Sound([r EXCEPT !.state = "ok"])
                           /\ \A e \in Entries : Sound([r EXCEPT !.state = "found", !.pa = e])
        /\ Sound(Done("refused"))
        /\ \A k \in CallIDs, op \in Ops :
             Sound([state |-> "sent", id |-> k, op |-> op, pa |-> Nil])
    BY DEF ReqSet, Done, NoReq
  <2>1. ASSUME NEW r, Sound(r), req' = [req EXCEPT ![q] = r]
        PROVE  /\ req' \in [Requests -> ReqSet]
               /\ \A p \in Requests : req'[p].state = "sent" => req'[p].id \in CallIDs
    BY <2>1
  <2>2. CASE Find(q)
    <3> DEFINE pa == approvals[req[q].id]
    <3>1. pa \in Entries \cup {Nil}
      BY <2>2 DEF Find
    <3>2. \/ req' = [req EXCEPT ![q] = Done("refused")]
          \/ pa # Nil /\ req' = [req EXCEPT ![q] = [req[q] EXCEPT !.state = "found", !.pa = pa]]
      BY <2>2 DEF Find
    <3> HIDE DEF pa, Sound
    <3>3. \E r : Sound(r) /\ req' = [req EXCEPT ![q] = r]
      BY <2>0, <3>1, <3>2
    <3> QED BY <2>1, <2>2, <3>3 DEF Find
  <2>3. CASE Decide(q)
    <3> HIDE DEF Sound
    <3>1. \E r : Sound(r) /\ req' = [req EXCEPT ![q] = r]
      BY <2>0, <2>3 DEF Decide
    <3>2. box' \in [Entries -> Ops \cup {Nil}]
      BY <2>0, <2>3 DEF Decide
    <3> QED BY <2>1, <2>3, <3>1, <3>2 DEF Decide
  <2>4. ASSUME NEW k \in CallIDs, Send(q, k) PROVE WaitTypes'
    <3> HIDE DEF Sound
    <3>1. \E r : Sound(r) /\ req' = [req EXCEPT ![q] = r]
      BY <2>0, <2>4 DEF Send, Ops
    <3> QED BY <2>1, <2>4, <3>1 DEF Send
  <2> QED BY <2>2, <2>3, <2>4
<1> QED BY <1>1, <1>2 DEF TypeInv

LEMMA StepTypes == TypeInv /\ [Next]_vars => TypeInv'
<1> SUFFICES ASSUME TypeInv, [Next]_vars PROVE TypeInv'
  OBVIOUS
<1>1. ASSUME UNCHANGED <<turn, callVars, waitVars, logVars, toolCalls, req>> PROVE TypeInv'
  BY <1>1 DEF TypeInv, CallTypes, WaitTypes, callVars, waitVars, logVars
<1>2. CASE Cancel \/ Edit
  BY <1>1, <1>2 DEF Cancel, Edit, userVars, runVars
<1>3. CASE UNCHANGED vars
  BY <1>1, <1>3 DEF vars, runVars, userVars
<1>4. ASSUME NEW k \in CallIDs, CallNext(k) PROVE TypeInv'
  BY <1>4, CallTypesStep, WaitTypesStep DEF TypeInv
<1> QED BY <1>2, <1>3, <1>4, NextTurnTypes, PeopleTypes DEF Next

-----------------------------------------------------------------------------
(* W1, W3: what ran was approved.                                          *)

Yes(e) == \E q \in Requests : req[q].state = "ok" /\ req[q].pa = e /\ req[q].op = "approve"

\* No decision is of a turn to come: entries, requests and boxes.
NotAhead ==
    /\ \A e \in Entries : box[e] # Nil => e.turn <= turn
    /\ \A k \in CallIDs : approvals[k] # Nil =>
         approvals[k] \in Entries /\ approvals[k].turn <= turn
    /\ \A q \in Requests : req[q].state = "found" =>
         req[q].pa \in Entries /\ req[q].pa.turn <= turn

\* A yes in a box of this turn is somebody's.
BoxIsSomebodys == \A e \in Entries : e.turn = turn /\ box[e] = "approve" => Yes(e)

\* A call that had to wait goes on with a yes only, and nothing has run before
\* it is its turn to run.
GateHolds(k) ==
    /\ pc[k] = "decided" /\ dec[k] = "approve" => Yes(Entry(k, "gate"))
    /\ pc[k] \in {"ready", "exec", "gate"} => k \notin asked
    /\ pc[k] \in {"ready", "exec", "gate", "asking", "decided", "run"} => k \notin dispatched
    /\ pc[k] = "run" /\ k \in asked => Yes(Entry(k, "gate"))

ApprovedInv == NotAhead /\ BoxIsSomebodys /\ Approved /\ \A k \in CallIDs : GateHolds(k)

LEMMA InitApproved == Init => ApprovedInv
<1> SUFFICES ASSUME Init PROVE ApprovedInv
  OBVIOUS
<1>1. \A e \in Entries : box[e] = Nil /\ box[e] # "approve"
  BY ToolCallsAssumption DEF Init
<1>2. \A q \in Requests : req[q].state = "idle"
  BY DEF Init, NoReq
<1> QED BY <1>1, <1>2 DEF Init, ApprovedInv, NotAhead, BoxIsSomebodys, Approved, GateHolds

\* A step of call k within the turn that leaves the yeses and the entries alone
\* may end a wait of its own, and runs nothing that is not allowed to run.
LEMMA CallApproved ==
    ASSUME TypeInv, ApprovedInv, NEW k \in CallIDs, CallNext(k)
    PROVE  ApprovedInv'
<1> USE DEF TypeInv, ApprovedInv
<1>a. Entry(k, "gate") \in Entries /\ Entry(k, "question") \in Entries
  BY DEF CallTypes, Entry, Entries
<1>b. turn' = turn /\ turn \in Nat
  BY DEF CallNext, Start, Check, Gate, GateWait, GateLeave, Run, Ask, AskWait, AskLeave,
         Persist, runVars, CallTypes
<1>c. \A e : Yes(e) => Yes(e)'
  <2>1. CASE req' = req
    BY <2>1 DEF Yes
  <2>2. CASE AskLeave(k)
    BY <2>2 DEF AskLeave, Panic, Yes, WaitTypes
  <2> QED BY <2>1, <2>2 DEF CallNext, Start, Check, Gate, GateWait, GateLeave, Run, Ask,
                            AskWait, Persist, userVars
<1>d. \A j \in CallIDs : \A w : Entry(j, w)' = Entry(j, w)
  BY <1>b DEF Entry
\* Boxes are emptied, entries are of this turn.
<1>1. NotAhead'
  <2>1. \A e \in Entries : box'[e] # Nil => box[e] # Nil
    BY <1>a DEF CallNext, Start, Check, Gate, PassOrAsk, GateWait, GateLeave, Run, Ask, AskWait,
                AskLeave, Persist, Wait, Receive, waitVars, WaitTypes
  <2>2. \A j \in CallIDs : approvals'[j] # Nil =>
           approvals'[j] = approvals[j] \/ approvals'[j] \in {Entry(k, "gate"), Entry(k, "question")}
    BY <1>a DEF CallNext, Start, Check, Gate, PassOrAsk, GateWait, GateLeave, Run, Ask, AskWait,
                AskLeave, Panic, Persist, waitVars, WaitTypes
  <2>3. Entry(k, "gate").turn = turn /\ Entry(k, "question").turn = turn
    BY DEF Entry
  <2>4. \A q \in Requests : req'[q].state = "found" => req'[q] = req[q]
    BY DEF CallNext, Start, Check, Gate, GateWait, GateLeave, Run, Ask, AskWait,
           AskLeave, Panic, Persist, userVars, WaitTypes, ReqSet
  <2> QED BY <1>a, <1>b, <2>1, <2>2, <2>3, <2>4 DEF NotAhead
<1>2. BoxIsSomebodys'
  <2>1. \A e \in Entries : box'[e] = box[e] \/ box'[e] = Nil
    BY <1>a DEF CallNext, Start, Check, Gate, PassOrAsk, GateWait, GateLeave, Run, Ask, AskWait,
                AskLeave, Persist, Wait, Receive, waitVars, WaitTypes
  <2>2. Nil # "approve"
    BY ToolCallsAssumption
  <2> QED BY <1>b, <1>c, <2>1, <2>2 DEF BoxIsSomebodys
<1>3. \A j \in CallIDs \ {k} : GateHolds(j)'
  <2>1. CASE AskLeave(k) /\ dec[k] = "approve"
    BY <2>1 DEF AskLeave, Panic, GateHolds
  <2>2. CASE ~(AskLeave(k) /\ dec[k] = "approve")
    <3>1. \A j \in CallIDs \ {k} : pc'[j] = pc[j] /\ dec'[j] = dec[j]
      BY <2>2 DEF CallNext, Start, Check, Gate, PassOrAsk, GateWait, GateLeave, Run, Ask, AskWait,
                  AskLeave, Persist, Wait, Receive, Outcome, Goto, CallTypes, WaitTypes
    <3>2. \A j \in CallIDs \ {k} : (j \in asked' <=> j \in asked) /\ (j \in dispatched' <=> j \in dispatched)
      BY DEF CallNext, Start, Check, Gate, PassOrAsk, GateWait, GateLeave, Run, Ask, AskWait,
             AskLeave, Persist, Dispatch, waitVars, logVars
    <3> QED BY <1>c, <1>d, <3>1, <3>2 DEF GateHolds
  <2> QED BY <2>1, <2>2
<1>4. GateHolds(k)' /\ (k \in (dispatched \cap asked)' => Yes(Entry(k, "gate"))')
  <2>0. /\ GateHolds(k)
        /\ k \in dispatched \cap asked => Yes(Entry(k, "gate"))
        /\ Yes(Entry(k, "gate")) => Yes(Entry(k, "gate"))'
    BY <1>c, <1>d DEF Approved, Yes
  <2>1. CASE Start(k) \/ Check(k)
    <3>1. pc'[k] \in {"exec", "persist", "gate"} /\ asked' = asked /\ dispatched' = dispatched
          /\ pc[k] \in {"ready", "exec"}
      BY <2>1 DEF Start, Check, Goto, waitVars, logVars, CallTypes
    <3> QED BY <2>0, <3>1 DEF GateHolds
  <2>2. CASE Gate(k)
    <3>1. /\ pc[k] = "gate" /\ dispatched' = dispatched
          /\ \/ pc'[k] = "run" /\ asked' = asked
             \/ pc'[k] = "asking" /\ asked' = asked \cup {k}
      BY <2>2 DEF Gate, PassOrAsk, Goto, waitVars, logVars, CallTypes
    <3> QED BY <2>0, <3>1 DEF GateHolds
  <2>3. CASE GateWait(k)
    <3>1. pc[k] = "asking" /\ pc'[k] = "decided" /\ asked' = asked /\ dispatched' = dispatched
      BY <2>3 DEF GateWait, Wait, Receive, Outcome, Goto, logVars, CallTypes
    <3>2. dec'[k] = "approve" => box[Entry(k, "gate")] = "approve"
      BY <2>3 DEF GateWait, Wait, Receive, Outcome, WaitTypes
    <3>3. box[Entry(k, "gate")] = "approve" => Yes(Entry(k, "gate"))
      BY <1>a DEF BoxIsSomebodys, Entry
    <3> QED BY <2>0, <3>1, <3>2, <3>3 DEF GateHolds
  <2>4. CASE GateLeave(k)
    <3>1. /\ pc[k] = "decided" /\ asked' = asked /\ dispatched' = dispatched
          /\ pc'[k] = "persist" \/ (pc'[k] = "run" /\ dec[k] = "approve")
      BY <2>4 DEF GateLeave, Goto, CallTypes
    <3> QED BY <2>0, <3>1 DEF GateHolds
  <2>5. CASE Run(k) \/ Ask(k)
    <3>1. pc[k] = "run" /\ pc'[k] \in {"persist", "waiting"} /\ asked' = asked
      BY <2>5 DEF Run, Ask, Goto, waitVars, CallTypes
    <3> QED BY <2>0, <3>1 DEF GateHolds
  <2>6. CASE AskWait(k) \/ AskLeave(k) \/ Persist(k)
    <3>1. /\ pc'[k] \in {"answered", "persist", "dead", "done"}
          /\ asked' = asked /\ dispatched' = dispatched
      BY <2>6 DEF AskWait, AskLeave, Panic, Persist, Wait, Receive, Goto, waitVars, logVars, CallTypes
    <3> QED BY <2>0, <3>1 DEF GateHolds
  <2> QED BY <2>1, <2>2, <2>3, <2>4, <2>5, <2>6 DEF CallNext
<1>5. Approved'
  <2>1. /\ asked' \subseteq asked \cup {k} /\ dispatched' \subseteq dispatched \cup {k}
        /\ dispatched' \subseteq CallIDs
    BY CallTypesStep DEF CallNext, Start, Check, Gate, PassOrAsk, GateWait, GateLeave, Run, Ask,
                         AskWait, AskLeave, Persist, Dispatch, waitVars, logVars, CallTypes
  <2>2. \A j \in (dispatched \cap asked)' \ {k} : Yes(Entry(j, "gate"))'
    <3> SUFFICES ASSUME NEW j \in (dispatched \cap asked)' \ {k} PROVE Yes(Entry(j, "gate"))'
      OBVIOUS
    <3>1. j \in CallIDs /\ Yes(Entry(j, "gate"))
      BY <2>1 DEF Approved, Yes
    <3> QED BY <1>c, <1>d, <3>1
  <2> QED BY <1>4, <2>2 DEF Approved, Yes
<1> QED BY <1>1, <1>2, <1>3, <1>4, <1>5

LEMMA NextTurnApproved == TypeInv /\ ApprovedInv /\ NextTurn => ApprovedInv'
<1> SUFFICES ASSUME TypeInv, ApprovedInv, NextTurn PROVE ApprovedInv'
  OBVIOUS
<1> USE DEF TypeInv, ApprovedInv
<1>1. CASE BeginTurn /\ approvals' = approvals
  <2>1. turn' = turn + 1 /\ turn \in Nat
    BY <1>1 DEF BeginTurn, CallTypes
  <2>2. \A e \in Entries : (box'[e] # Nil => box'[e] = box[e]) /\ e.turn \in Nat
    BY <1>1 DEF BeginTurn, Entries
  <2>3. \A q \in Requests : req'[q].state = "found" => req'[q] = req[q]
    BY <1>1 DEF BeginTurn, Done, NoReq, WaitTypes
  <2>4. Nil # "approve"
    BY ToolCallsAssumption
  <2>5. NotAhead'
    BY <1>1, <2>1, <2>2, <2>3 DEF NotAhead, Entries
  <2>6. BoxIsSomebodys'
    BY <2>1, <2>2, <2>4 DEF NotAhead, BoxIsSomebodys
  <2>7. \A k \in CallIDs : pc'[k] = "ready" /\ k \notin asked' /\ k \notin dispatched'
    BY <1>1 DEF BeginTurn
  <2>8. Approved' /\ \A k \in CallIDs : GateHolds(k)'
    BY <1>1, <2>7 DEF BeginTurn, Approved, GateHolds
  <2> QED BY <2>5, <2>6, <2>8
<1>2. CASE UNCHANGED <<turn, callVars, asked, dispatched, box, req, approvals>>
  BY <1>2 DEF callVars, NotAhead, BoxIsSomebodys, Approved, GateHolds, Yes, Entry
<1> QED BY <1>1, <1>2 DEF NextTurn

LEMMA PeopleApproved ==
    ASSUME TypeInv, ApprovedInv, NEW q \in Requests,
           Find(q) \/ Decide(q) \/ \E k \in CallIDs : Send(q, k)
    PROVE  ApprovedInv'
<1> USE DEF TypeInv, ApprovedInv
<1>1. UNCHANGED <<turn, pc, dec, approvals, asked, dispatched>>
  BY DEF Find, Decide, Send, runVars, callVars, waitVars, logVars
<1>2. \A p \in Requests \ {q} : req'[p] = req[p]
  BY DEF Find, Decide, Send, WaitTypes
<1>3. req[q].state # "ok"
  BY DEF Find, Decide, Send
<1>4. \A e : Yes(e) => Yes(e)'
  BY <1>2, <1>3 DEF Yes
<1>5. Approved' /\ \A k \in CallIDs : GateHolds(k)'
  <2>1. \A k \in CallIDs : Entry(k, "gate")' = Entry(k, "gate")
    BY <1>1 DEF Entry
  <2>2. \A k \in CallIDs : GateHolds(k)'
    BY <1>1, <1>4, <2>1 DEF GateHolds
  <2>3. \A k \in dispatched \cap asked : k \in CallIDs /\ Yes(Entry(k, "gate"))
    BY DEF Approved, Yes, CallTypes
  <2>4. \A k \in dispatched \cap asked : Yes(Entry(k, "gate"))'
    BY <1>4, <2>1, <2>3
  <2> QED BY <1>1, <2>2, <2>4 DEF Approved, Yes
<1>6. CASE Find(q)
  <2>1. box' = box
    BY <1>6 DEF Find, waitVars
  <2>2. req'[q].state = "found" =>
          \E k \in CallIDs : approvals[k] # Nil /\ req'[q].pa = approvals[k]
    BY <1>6 DEF Find, WaitTypes, ReqSet, Done, NoReq
  <2>3. NotAhead'
    BY <1>1, <1>2, <2>1, <2>2 DEF NotAhead
  <2> QED BY <1>1, <1>4, <1>5, <2>1, <2>3 DEF BoxIsSomebodys
<1>7. CASE Decide(q)
  <2>0. req[q].pa \in Entries /\ req[q].pa.turn <= turn
    BY <1>7 DEF Decide, NotAhead
  <2>1. PICK e, op : e \in Entries /\ e = req[q].pa /\ op = req[q].op /\ e.turn <= turn
    BY <2>0
  <2>2. req'[q].state # "found"
    BY <1>7 DEF Decide, Done, NoReq, WaitTypes, ReqSet
  <2>3. \/ box' = box
        \/ /\ box' = [box EXCEPT ![e] = op]
           /\ req'[q].state = "ok" /\ req'[q].pa = e /\ req'[q].op = op
    BY <1>7, <2>1 DEF Decide, WaitTypes, ReqSet
  <2>4. NotAhead'
    BY <1>1, <1>2, <2>1, <2>2, <2>3 DEF NotAhead, WaitTypes
  <2>5. BoxIsSomebodys'
    <3>1. box' # box /\ op = "approve" => Yes(e)'
      BY <2>3 DEF Yes
    <3> QED BY <1>1, <1>4, <2>1, <2>3, <3>1 DEF BoxIsSomebodys, WaitTypes
  <2> QED BY <1>5, <2>4, <2>5
<1>8. ASSUME NEW k \in CallIDs, Send(q, k) PROVE ApprovedInv'
  <2>1. box' = box /\ req'[q].state = "sent"
    BY <1>8 DEF Send, waitVars, WaitTypes
  <2> QED BY <1>1, <1>2, <1>4, <1>5, <2>1 DEF NotAhead, BoxIsSomebodys
<1> QED BY <1>6, <1>7, <1>8

LEMMA StepApproved == TypeInv /\ ApprovedInv /\ [Next]_vars => ApprovedInv'
<1> SUFFICES ASSUME TypeInv, ApprovedInv, [Next]_vars PROVE ApprovedInv'
  OBVIOUS
<1>1. ASSUME UNCHANGED <<turn, callVars, waitVars, dispatched, req>> PROVE ApprovedInv'
  BY <1>1 DEF ApprovedInv, callVars, waitVars, NotAhead, BoxIsSomebodys, Approved, GateHolds,
              Yes, Entry
<1>2. CASE Cancel \/ Edit
  BY <1>1, <1>2 DEF Cancel, Edit, userVars, runVars, logVars
<1>3. CASE UNCHANGED vars
  BY <1>1, <1>3 DEF vars, runVars, userVars, logVars
<1> QED BY <1>2, <1>3, CallApproved, NextTurnApproved, PeopleApproved DEF Next

-----------------------------------------------------------------------------
(* The budget: what has run and what has reserved its place.               *)

Reserved == {k \in CallIDs : pc[k] \in {"exec", "gate", "asking", "decided", "run"}}

BudgetInv == MaxToolCalls # 0 => /\ made + Cardinality(Reserved) <= toolCalls
                                 /\ toolCalls <= MaxToolCalls

LEMMA ReservedFinite == /\ IsFiniteSet(Reserved) /\ Cardinality(Reserved) \in Nat
                        /\ IsFiniteSet(Reserved') /\ Cardinality(Reserved') \in Nat
<1>1. IsFiniteSet(CallIDs) /\ Reserved \subseteq CallIDs /\ Reserved' \subseteq CallIDs
  BY ToolCallsAssumption DEF Reserved
<1> QED BY <1>1, FS_Subset, FS_CardinalityType

LEMMA InitBudget == Init => BudgetInv
<1> SUFFICES ASSUME Init PROVE BudgetInv
  OBVIOUS
<1>1. Reserved = {}
  BY DEF Init, Reserved
<1> QED BY <1>1, FS_EmptySet, ToolCallsAssumption DEF Init, BudgetInv

\* Fewer reserved, and nothing run.
LEMMA FewerReserved ==
    ASSUME TypeInv, BudgetInv, Reserved' \subseteq Reserved, made' = made, toolCalls' = toolCalls
    PROVE  BudgetInv'
<1>1. Cardinality(Reserved') <= Cardinality(Reserved)
  BY ReservedFinite, FS_Subset
<1> QED BY <1>1, ReservedFinite DEF BudgetInv, TypeInv, CallTypes

LEMMA StepBudget == TypeInv /\ BudgetInv /\ [Next]_vars => BudgetInv'
<1> SUFFICES ASSUME TypeInv, BudgetInv, [Next]_vars PROVE BudgetInv'
  OBVIOUS
<1>0. made \in Nat /\ toolCalls \in Nat /\ MaxToolCalls \in Nat /\ pc \in [CallIDs -> PCs]
  BY ToolCallsAssumption DEF TypeInv, CallTypes
<1>1. ASSUME NEW k \in CallIDs, Start(k) PROVE BudgetInv'
  <2>1. made' = made
    BY <1>1 DEF Start, logVars
  <2>2. CASE ctxLive /\ Reserve
    <3>1. Reserved' = Reserved \cup {k} /\ k \notin Reserved
      BY <1>0, <1>1, <2>2 DEF Start, Goto, Reserved
    <3>2. Cardinality(Reserved') = Cardinality(Reserved) + 1
      BY <3>1, ReservedFinite, FS_AddElement
    <3>3. toolCalls' = toolCalls + 1 /\ (MaxToolCalls # 0 => toolCalls < MaxToolCalls)
      BY <1>1, <2>2 DEF Start, Reserve
    <3> QED BY <1>0, <2>1, <3>2, <3>3, ReservedFinite DEF BudgetInv
  <2>3. CASE ~(ctxLive /\ Reserve)
    <3>1. Reserved' \subseteq Reserved /\ toolCalls' = toolCalls
      BY <1>0, <1>1, <2>3 DEF Start, Goto, Reserved
    <3> QED BY <2>1, <3>1, FewerReserved
  <2> QED BY <2>2, <2>3
<1>2. ASSUME NEW k \in CallIDs, Run(k) \/ Ask(k) PROVE BudgetInv'
  <2>1. Reserved' = Reserved \ {k} /\ k \in Reserved /\ toolCalls' = toolCalls
    BY <1>0, <1>2 DEF Run, Ask, Goto, runVars, Reserved
  <2>2. made' = made \/ made' = made + 1
    BY <1>2 DEF Run, Ask, Dispatch
  <2>3. Cardinality(Reserved') = Cardinality(Reserved) - 1
    BY <2>1, ReservedFinite, FS_RemoveElement
  <2> QED BY <1>0, <2>1, <2>2, <2>3, ReservedFinite DEF BudgetInv
<1>3. ASSUME NEW k \in CallIDs, CallNext(k), ~Start(k), ~Run(k), ~Ask(k) PROVE BudgetInv'
  <2>1. made' = made /\ toolCalls' = toolCalls
    BY <1>3 DEF CallNext, Check, Gate, GateWait, GateLeave, AskWait, AskLeave, Persist, runVars, logVars
  <2>2. Reserved' \subseteq Reserved
    BY <1>0, <1>3 DEF CallNext, Check, Gate, PassOrAsk, GateWait, GateLeave, AskWait, AskLeave,
                      Panic, Persist, Goto, Reserved
  <2> QED BY <2>1, <2>2, FewerReserved
<1>4. CASE NextTurn
  <2>1. made' = made /\ toolCalls' = toolCalls
    BY <1>4 DEF NextTurn
  <2>2. Reserved' \subseteq Reserved
    BY <1>4 DEF NextTurn, BeginTurn, callVars, Reserved
  <2> QED BY <2>1, <2>2, FewerReserved
<1>5. ASSUME UNCHANGED <<pc, made, toolCalls>> PROVE BudgetInv'
  BY <1>5 DEF BudgetInv, Reserved
<1>6. ASSUME NEW q \in Requests, Find(q) \/ Decide(q) \/ \E k \in CallIDs : Send(q, k) PROVE BudgetInv'
  BY <1>5, <1>6 DEF Find, Decide, Send, runVars, callVars, logVars
<1>7. CASE Cancel \/ Edit \/ UNCHANGED vars
  BY <1>5, <1>7 DEF Cancel, Edit, vars, runVars, callVars, logVars
<1> QED BY <1>1, <1>2, <1>3, <1>4, <1>6, <1>7 DEF Next

\* Whatever people, timers, cancellations and edits do, a call that had to wait
\* (gate, Approve) runs only with a yes to its own entry, and no more tools run
\* than the budget allows (reserveToolCall), for any calls, turns and people.
THEOREM NoUnapprovedCallHolds == Spec => []NoUnapprovedCall
<1> DEFINE IInv == TypeInv /\ ApprovedInv /\ BudgetInv
<1>1. Init => IInv
  BY InitTypes, InitApproved, InitBudget
<1>2. IInv /\ [Next]_vars => IInv'
  BY StepTypes, StepApproved, StepBudget
<1>3. IInv => NoUnapprovedCall
  BY ReservedFinite, ToolCallsAssumption
     DEF ApprovedInv, BudgetInv, NoUnapprovedCall, TypeInv, CallTypes
<1> QED BY <1>1, <1>2, <1>3, PTL DEF Spec

-----------------------------------------------------------------------------
(* R1, R2: the call log.                                                   *)

\* Nothing is recorded before a call is over, a question that waits has run, and
\* of a call that is over the log tells the truth.
LogHolds(k) ==
    /\ pc[k] \in {"ready", "exec", "gate", "asking", "decided", "run"} =>
         rows[k] = <<>> /\ k \notin dispatched
    /\ pc[k] \in {"waiting", "answered"} => rows[k] = <<>> /\ k \in dispatched
    /\ pc[k] \in {"persist", "done"} =>
         /\ k \in dispatched => Len(rows[k]) = 1
         /\ k \in dispatched /\ rows[k] = <<"denied">> => kind[k] = "local"
         /\ rows[k] = <<"ok">> => k \in dispatched

LogInv == \A k \in CallIDs : LogHolds(k)

LEMMA OneRow == \A s, t : /\ Append(<<>>, s) = <<s>> /\ Len(<<s>>) = 1
                          /\ <<s>> # <<>> /\ (<<s>> = <<t>> => s = t)
OBVIOUS

\* Dispatcher.finish: the one row of a call that had none.
LEMMA RecordOnce ==
    ASSUME CallTypes, NEW k \in CallIDs, NEW status, Record(k, status), rows[k] = <<>>
    PROVE  rows'[k] \in {<<status>>, <<"lost">>}
BY OneRow DEF Record, CallTypes

\* The call that moves.
LEMMA OwnLog ==
    ASSUME CallTypes, LogInv, NEW k \in CallIDs, CallNext(k)
    PROVE  LogHolds(k)'
<1>0. LogHolds(k) /\ kind'[k] = kind[k]
  BY DEF LogInv, CallNext, Start, Check, Gate, GateWait, GateLeave, Run, Ask, AskWait, AskLeave,
         Persist
<1>1. CASE Start(k) \/ Gate(k) \/ GateWait(k)
  <2>1. /\ rows[k] = <<>> /\ k \notin dispatched /\ rows' = rows /\ dispatched' = dispatched
        /\ pc'[k] \in {"exec", "persist", "asking", "run", "decided"}
    BY <1>0, <1>1 DEF LogHolds, Start, Gate, PassOrAsk, GateWait, Goto, logVars, CallTypes
  <2> QED BY <2>1, OneRow DEF LogHolds
<1>2. CASE Check(k)
  <2>1. /\ rows[k] = <<>> /\ k \notin dispatched /\ dispatched' = dispatched
        /\ pc'[k] \in {"persist", "gate"}
    BY <1>0, <1>2 DEF LogHolds, Check, Goto, CallTypes
  <2>2. rows' = rows \/ (pc'[k] = "persist" /\ (Record(k, "denied") \/ Record(k, "error")))
    BY <1>2 DEF Check, Goto, CallTypes
  <2>3. rows' = rows \/ (pc'[k] = "persist" /\ rows'[k] \in {<<"denied">>, <<"error">>, <<"lost">>})
    BY <2>1, <2>2, RecordOnce
  <2> QED BY <2>1, <2>3, OneRow DEF LogHolds
<1>3. CASE GateLeave(k)
  <2>1. /\ rows[k] = <<>> /\ k \notin dispatched /\ dispatched' = dispatched
        /\ \/ pc'[k] = "run" /\ rows' = rows
           \/ pc'[k] = "persist" /\ Record(k, "denied")
    BY <1>0, <1>3 DEF LogHolds, GateLeave, Goto, CallTypes
  <2>2. \/ pc'[k] = "run" /\ rows' = rows
        \/ pc'[k] = "persist" /\ rows'[k] \in {<<"denied">>, <<"lost">>}
    BY <2>1, RecordOnce
  <2> QED BY <2>1, <2>2, OneRow DEF LogHolds
<1>4. CASE Run(k)
  <2>1. rows[k] = <<>> /\ k \notin dispatched /\ pc'[k] = "persist"
    BY <1>0, <1>4 DEF LogHolds, Run, Goto, CallTypes
  <2>2. \/ dispatched' = dispatched /\ Record(k, "error")
        \/ \E s \in {"ok", "error", "denied"} :
             (s = "denied" => kind[k] = "local") /\ k \in dispatched' /\ Record(k, s)
    BY <1>4 DEF Run, Results, Dispatch
  <2>3. \/ dispatched' = dispatched /\ rows'[k] \in {<<"error">>, <<"lost">>}
        \/ \E s \in {"ok", "error", "denied"} :
             (s = "denied" => kind[k] = "local") /\ k \in dispatched' /\ rows'[k] \in {<<s>>, <<"lost">>}
    BY <2>1, <2>2, RecordOnce
  <2> QED BY <1>0, <2>1, <2>3, OneRow DEF LogHolds
<1>5. CASE Ask(k)
  <2>1. /\ rows[k] = <<>> /\ k \in dispatched'
        /\ \/ pc'[k] = "persist" /\ Record(k, "error")
           \/ pc'[k] = "waiting" /\ rows' = rows
    BY <1>0, <1>5 DEF LogHolds, Ask, Dispatch, Goto, CallTypes
  <2>2. \/ pc'[k] = "persist" /\ rows'[k] \in {<<"error">>, <<"lost">>}
        \/ pc'[k] = "waiting" /\ rows' = rows
    BY <2>1, RecordOnce
  <2> QED BY <2>1, <2>2, OneRow DEF LogHolds
<1>6. CASE AskWait(k)
  <2>1. /\ rows[k] = <<>> /\ k \in dispatched /\ pc'[k] = "answered"
        /\ rows' = rows /\ dispatched' = dispatched
    BY <1>0, <1>6 DEF LogHolds, AskWait, Goto, logVars, CallTypes
  <2> QED BY <2>1 DEF LogHolds
<1>7. CASE AskLeave(k)
  <2>1. /\ rows[k] = <<>> /\ k \in dispatched /\ dispatched' = dispatched
        /\ pc'[k] = "dead" \/ (pc'[k] = "persist" /\ (Record(k, "ok") \/ Record(k, "error")))
    BY <1>0, <1>7 DEF LogHolds, AskLeave, Panic, Goto, CallTypes
  <2>2. pc'[k] = "dead" \/ (pc'[k] = "persist" /\ rows'[k] \in {<<"ok">>, <<"error">>, <<"lost">>})
    BY <2>1, RecordOnce
  <2> QED BY <2>1, <2>2, OneRow DEF LogHolds
<1>8. CASE Persist(k)
  <2>1. pc[k] = "persist" /\ pc'[k] = "done" /\ rows' = rows /\ dispatched' = dispatched
    BY <1>8 DEF Persist, Goto, CallTypes
  <2> QED BY <1>0, <2>1 DEF LogHolds
<1> QED BY <1>1, <1>2, <1>3, <1>4, <1>5, <1>6, <1>7, <1>8 DEF CallNext

\* The calls that do not move, or die with the process.
LEMMA OtherLog ==
    ASSUME CallTypes, LogInv, NEW k \in CallIDs, CallNext(k), NEW j \in CallIDs \ {k}
    PROVE  LogHolds(j)'
<1>1. /\ kind' = kind /\ rows'[j] = rows[j] /\ (j \in dispatched' <=> j \in dispatched)
  BY DEF CallTypes, CallNext, Start, Check, Gate, GateWait, GateLeave, Run, Ask, AskWait, AskLeave,
         Panic, Persist, Record, Dispatch, logVars
<1>2. pc'[j] = pc[j] \/ pc'[j] = "dead"
  BY DEF CallTypes, CallNext, Start, Check, Gate, PassOrAsk, GateWait, GateLeave, Run, Ask, AskWait,
         AskLeave, Panic, Persist, Goto
<1> QED BY <1>1, <1>2 DEF LogInv, LogHolds

LEMMA StepLog == TypeInv /\ LogInv /\ [Next]_vars => LogInv'
<1> SUFFICES ASSUME TypeInv, LogInv, [Next]_vars PROVE LogInv'
  OBVIOUS
<1>1. ASSUME NEW k \in CallIDs, CallNext(k) PROVE LogInv'
  BY <1>1, OwnLog, OtherLog DEF TypeInv, LogInv
<1>2. ASSUME UNCHANGED <<pc, kind, rows, dispatched>> PROVE LogInv'
  BY <1>2 DEF LogInv, LogHolds
<1>3. CASE NextTurn
  <2>1. CASE BeginTurn
    BY <2>1 DEF BeginTurn, LogInv, LogHolds
  <2>2. CASE UNCHANGED <<pc, kind, rows, dispatched>>
    BY <1>2, <2>2
  <2> QED BY <1>3, <2>1, <2>2 DEF NextTurn, callVars
<1>4. ASSUME NEW q \in Requests, Find(q) \/ Decide(q) \/ \E k \in CallIDs : Send(q, k) PROVE LogInv'
  BY <1>2, <1>4 DEF Find, Decide, Send, callVars, logVars
<1>5. CASE Cancel \/ Edit \/ UNCHANGED vars
  BY <1>2, <1>5 DEF Cancel, Edit, vars, callVars, logVars
<1> QED BY <1>1, <1>3, <1>4, <1>5 DEF Next

\* The call log (Dispatcher.finish, gate, toolAsk) tells what happened to every
\* call, cancelled or not, for any calls, turns and people.
THEOREM RowTellsTheTruthHolds == Spec => []RowTellsTheTruth
<1>1. Init => LogInv
  BY DEF Init, LogInv, LogHolds
<1>2. LogInv => RowTellsTheTruth
  BY DEF LogInv, LogHolds, RowTellsTheTruth
<1> QED BY InitTypes, StepTypes, StepLog, <1>1, <1>2, PTL DEF Spec

-----------------------------------------------------------------------------
(* R6: one result per call.                                                *)

ResultInv == \A k \in CallIDs :
    /\ pc[k] \notin {"done", "dead"} => results[k] = 0 /\ k \notin lost
    /\ pc[k] = "done" => results[k] = IF k \in lost THEN 0 ELSE 1

LEMMA StepResults == TypeInv /\ ResultInv /\ [Next]_vars => ResultInv'
<1> SUFFICES ASSUME TypeInv, ResultInv, [Next]_vars PROVE ResultInv'
  OBVIOUS
<1> USE DEF TypeInv, CallTypes, ResultInv
<1>1. ASSUME NEW k \in CallIDs, Persist(k) PROVE ResultInv'
  BY <1>1 DEF Persist, Goto
<1>2. ASSUME NEW k \in CallIDs, CallNext(k), ~Persist(k) PROVE ResultInv'
  <2>1. results' = results /\ lost' = lost /\ pc[k] \notin {"done", "dead"}
    BY <1>2 DEF CallNext, Start, Check, Gate, GateWait, GateLeave, Run, Ask, AskWait, AskLeave, logVars
  <2>2. /\ pc'[k] # "done"
        /\ \A j \in CallIDs \ {k} : pc'[j] = pc[j] \/ pc'[j] = "dead"
    BY <1>2 DEF CallNext, Start, Check, Gate, PassOrAsk, GateWait, GateLeave, Run, Ask, AskWait,
                AskLeave, Panic, Goto
  <2> QED BY <2>1, <2>2
<1>3. ASSUME UNCHANGED <<pc, results, lost>> PROVE ResultInv'
  BY <1>3
<1>4. CASE NextTurn
  <2>1. CASE BeginTurn
    BY <2>1 DEF BeginTurn
  <2>2. CASE UNCHANGED <<pc, results, lost>>
    BY <1>3, <2>2
  <2> QED BY <1>4, <2>1, <2>2 DEF NextTurn, callVars
<1>5. ASSUME NEW q \in Requests, Find(q) \/ Decide(q) \/ \E k \in CallIDs : Send(q, k) PROVE ResultInv'
  BY <1>3, <1>5 DEF Find, Decide, Send, callVars, logVars
<1>6. CASE Cancel \/ Edit \/ UNCHANGED vars
  BY <1>3, <1>6 DEF Cancel, Edit, vars, callVars, logVars
<1> QED BY <1>1, <1>2, <1>4, <1>5, <1>6 DEF Next

\* When the next turn begins or the run ends (execTools), every call has its one
\* tool message, unless the store refused it (persistToolResult).
THEOREM ResultPerCallHolds == Spec => ResultPerCall
<1>1. Init => ResultInv
  BY DEF Init, ResultInv
<1>2. ResultInv /\ [Next]_vars =>
        (turn' # turn \/ over' # over => \A k \in CallIDs : results[k] = IF k \in lost THEN 0 ELSE 1)
  <2> SUFFICES ASSUME ResultInv, [Next]_vars, turn' # turn \/ over' # over
               PROVE  \A k \in CallIDs : pc[k] = "done"
    BY DEF ResultInv
  <2>1. NextTurn
    BY DEF Next, CallNext, Start, Check, Gate, GateWait, GateLeave, Run, Ask, AskWait, AskLeave,
           Persist, Cancel, Edit, Find, Decide, Send, vars, runVars
  <2> QED BY <2>1 DEF NextTurn
<1> QED BY InitTypes, StepTypes, StepResults, <1>1, <1>2, PTL DEF Spec, ResultPerCall
=============================================================================
