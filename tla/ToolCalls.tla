------------------------------ MODULE ToolCalls ------------------------------
(***************************************************************************)
(* The tool calls of one run: execTools in hub/internal/agents/run.go,      *)
(* execTool, gate and Approve in tools.go, toolAsk and Answer in            *)
(* questions.go, and the call log of hub/internal/calls/dispatch.go.        *)
(*                                                                         *)
(* The calls of a turn run concurrently.  A call is authorised, may wait   *)
(* for a person, is dispatched, recorded and persisted.  People answer by  *)
(* run and call ID from any number of tabs, so an answer can be late,      *)
(* repeated, or overtaken by the timeout or a cancellation.                *)
(*                                                                         *)
(* A provider that sends no call IDs gets "call_0", "call_1", ... from the *)
(* hub on every turn, so IDs are unique within a turn only.  An entry of   *)
(* the pending map is identified here by its turn, its ID and whether it   *)
(* is the gate of a call or the question of a switchboard.user.ask.        *)
(* Concurrency slots are the subject of RunScheduler.                      *)
(***************************************************************************)
EXTENDS Integers, FiniteSets, Sequences

CONSTANTS
    CallIDs,       \* the call IDs of a turn
    MaxTurns,      \* turns of the run
    Requests,      \* requests of people to the hub
    Kinds,         \* kinds of tools the model calls
    Anns,          \* the annotations those tools carry
    Modes,         \* the approval modes a chat sets for itself
    AgentMode,     \* the agent's, which counts when the chat sets none
    Parallel,      \* Manager.parallel: calls that run at the same time
    MaxToolCalls,  \* budget.max_tool_calls (0 is no limit)
    MaxEdits,      \* bound on edits of grants and chat preferences
    Nil

AllKinds == {"upstream", "local", "ask"}
Hints == {TRUE, FALSE, Nil}
Annotations == [irreversible : BOOLEAN, readOnly : BOOLEAN,
                destructive : Hints, openWorld : Hints]

ASSUME ToolCallsAssumption ==
    /\ IsFiniteSet(CallIDs) /\ Nil \notin {"approve", "deny", "answer"}
    /\ Kinds \subseteq AllKinds
    /\ Anns \subseteq Annotations \cup {Nil}
    /\ Modes \cup {AgentMode} \subseteq {"never", "destructive", "always"}
    /\ MaxTurns \in Nat \ {0} /\ Parallel \in Nat \ {0}
    /\ MaxToolCalls \in Nat /\ MaxEdits \in Nat

VARIABLES
    turn,        \* the turn of the run; it has ended when over
    over,
    ctxLive,     \* the run's context is not cancelled
    toolCalls,   \* runState.toolCalls
    budgetHit,   \* runState.budgetHit is set
    pc,          \* where each call of the turn is
    kind, ann,   \* the tool each call names
    dec,         \* what the wait of a call ended with
    approvals,   \* runState.approvals
    box,         \* pendingApproval.ch of every entry ever made
    asked,       \* calls of this turn that had to wait at the gate (history)
    dispatched,  \* calls of this turn whose tool was run (history)
    made,        \* tools run in all turns (history)
    rows,        \* call log: the statuses recorded per call of this turn
    results,     \* tool messages persisted per call of this turn
    lost,        \* calls of this turn whose message the store refused
    req,         \* the requests of people
    granted,     \* the agent's grants allow the server
    mode, auto,  \* the chat's approval mode and auto-approver
    edits,
    panicked     \* the process died of an unrecovered panic

runVars  == <<turn, over, ctxLive, toolCalls, budgetHit>>
callVars == <<pc, kind, ann, dec>>
waitVars == <<approvals, box, asked>>
logVars  == <<dispatched, made, rows, results, lost>>
prefVars == <<granted, mode, auto, edits>>
userVars == <<req, prefVars>>
vars == <<runVars, callVars, waitVars, logVars, userVars, panicked>>

Entries == [turn : 1..MaxTurns, id : CallIDs, what : {"gate", "question"}]
Ops == {"approve", "deny", "answer"}
PCs == {"ready", "exec", "gate", "asking", "decided", "run", "waiting",
        "answered", "persist", "done", "dead"}
\* "lost": the store refused the row, which never fails the call.
Statuses == {"ok", "error", "denied", "lost"}
NoReq == [state |-> "idle", id |-> Nil, op |-> Nil, pa |-> Nil]
Done(reply) == [NoReq EXCEPT !.state = reply]

TypeOK ==
    /\ turn \in 1..MaxTurns
    /\ {over, ctxLive, budgetHit, granted, auto, panicked} \subseteq BOOLEAN
    /\ toolCalls \in Nat
    /\ pc \in [CallIDs -> PCs]
    /\ kind \in [CallIDs -> AllKinds] /\ ann \in [CallIDs -> Annotations \cup {Nil}]
    /\ dec \in [CallIDs -> Ops \cup {"timeout", "cancelled", Nil}]
    /\ approvals \in [CallIDs -> Entries \cup {Nil}]
    /\ box \in [Entries -> Ops \cup {Nil}]
    /\ asked \subseteq CallIDs /\ dispatched \subseteq CallIDs /\ lost \subseteq CallIDs
    /\ made \in Nat
    /\ rows \in [CallIDs -> {<<>>} \cup {<<s>> : s \in Statuses}]
    /\ results \in [CallIDs -> 0..1]
    /\ \A q \in Requests : /\ req[q].state \in {"idle", "sent", "found", "ok", "refused"}
                           /\ req[q].id \in CallIDs \cup {Nil}
                           /\ req[q].pa \in Entries \cup {Nil}
    /\ mode \in Modes \cup {AgentMode}
    /\ edits \in 0..MaxEdits

Init ==
    /\ turn = 1 /\ over = FALSE /\ ctxLive = TRUE /\ toolCalls = 0 /\ budgetHit = FALSE
    /\ pc = [k \in CallIDs |-> "ready"]
    /\ kind \in [CallIDs -> Kinds] /\ ann \in [CallIDs -> Anns]
    /\ dec = [k \in CallIDs |-> Nil]
    /\ approvals = [k \in CallIDs |-> Nil]
    /\ box = [e \in Entries |-> Nil]
    /\ asked = {} /\ dispatched = {} /\ made = 0 /\ lost = {}
    /\ rows = [k \in CallIDs |-> <<>>]
    /\ results = [k \in CallIDs |-> 0]
    /\ req = [q \in Requests |-> NoReq]
    /\ granted = TRUE /\ mode \in Modes /\ auto = FALSE /\ edits = 0
    /\ panicked = FALSE

-----------------------------------------------------------------------------

Entry(k, what) == [turn |-> turn, id |-> k, what |-> what]
Goto(k, to) == pc' = [pc EXCEPT ![k] = to]

\* Dispatcher.finish: one row per call, whatever happened to it.
Record(k, status) == \E s \in {status, "lost"} : rows' = [rows EXCEPT ![k] = Append(@, s)]

Dispatch(k) == dispatched' = dispatched \cup {k} /\ made' = made + 1

\* needsApproval (W1, W10): an irreversible tool always waits; under
\* "destructive" a tool waits unless it is provably harmless.
NeedsApproval(m, a) ==
    \/ a # Nil /\ a.irreversible
    \/ m = "always"
    \/ m = "destructive" /\ (a = Nil \/ ~(a.readOnly \/ (a.destructive = FALSE /\ a.openWorld = FALSE)))

\* switchboard.user.ask is annotated by the hub itself.
AskAnn == [irreversible |-> FALSE, readOnly |-> TRUE, destructive |-> Nil, openWorld |-> FALSE]

AnnOf(k) == IF kind[k] = "ask" THEN AskAnn ELSE ann[k]

-----------------------------------------------------------------------------
(* execTools and execTool.                                                 *)

\* Mutant: one call too many.
ReserveOneMore == MaxToolCalls = 0 \/ toolCalls <= MaxToolCalls

\* reserveToolCall: checked and counted under one lock.
Reserve == MaxToolCalls = 0 \/ toolCalls < MaxToolCalls

\* The semaphore admits the call; it is not made when the run was stopped or
\* the budget is spent.
Start(k) ==
    /\ pc[k] = "ready"
    /\ Cardinality({j \in CallIDs : pc[j] \notin {"ready", "done"}}) < Parallel
    /\ Goto(k, IF ctxLive /\ Reserve THEN "exec" ELSE "persist")
    /\ toolCalls' = IF ctxLive /\ Reserve THEN toolCalls + 1 ELSE toolCalls
    /\ budgetHit' = (budgetHit \/ (ctxLive /\ ~Reserve))
    /\ UNCHANGED <<turn, over, ctxLive, kind, ann, dec, waitVars, logVars, userVars, panicked>>

\* execTool up to the gate: the tool is not found (no row), not permitted
\* (denied), called with invalid arguments (error), or goes on.
Check(k) ==
    /\ pc[k] = "exec"
    /\ \/ Goto(k, "persist") /\ UNCHANGED rows
       \/ /\ kind[k] = "upstream" /\ ~granted
          /\ Record(k, "denied") /\ Goto(k, "persist")
       \/ /\ kind[k] = "upstream" => granted
          /\ \/ Record(k, "error") /\ Goto(k, "persist")
             \/ Goto(k, "gate") /\ UNCHANGED rows
    /\ UNCHANGED <<runVars, kind, ann, dec, waitVars, dispatched,
                   made, results, lost, userVars, panicked>>

\* A call that needs approval is entered in the pending map.
PassOrAsk(k, m) ==
    IF ~NeedsApproval(m, AnnOf(k))
      THEN Goto(k, "run") /\ UNCHANGED waitVars
      ELSE /\ Goto(k, "asking")
           /\ approvals' = [approvals EXCEPT ![k] = Entry(k, "gate")]
           /\ asked' = asked \cup {k}
           /\ UNCHANGED box

\* gate: the chat's preferences are read now, with the run's context, and
\* override the agent's mode; when they cannot be read the agent's mode counts.
Gate(k) ==
    /\ pc[k] = "gate"
    /\ \/ ctxLive /\ auto /\ Goto(k, "run") /\ UNCHANGED waitVars
       \/ ctxLive /\ ~auto /\ PassOrAsk(k, mode)
       \/ PassOrAsk(k, AgentMode)
    /\ UNCHANGED <<runVars, kind, ann, dec, logVars,
                   userVars, panicked>>

Outcome(k, d) == dec' = [dec EXCEPT ![k] = d]

\* A decision is taken out of the entry's channel.
Receive(k, e) == box[e] # Nil /\ Outcome(k, box[e]) /\ box' = [box EXCEPT ![e] = Nil]

\* Mutant: the expired timer lets the call through.
WaitLenient(k, e) ==
    \/ Receive(k, e)
    \/ Outcome(k, "approve") /\ UNCHANGED box
    \/ ~ctxLive /\ Outcome(k, "cancelled") /\ UNCHANGED box

\* The select of gate and toolAsk: a decision, the timer or a cancellation.
Wait(k, e) ==
    \/ Receive(k, e)
    \/ Outcome(k, "timeout") /\ UNCHANGED box
    \/ ~ctxLive /\ Outcome(k, "cancelled") /\ UNCHANGED box

GateWait(k) ==
    /\ pc[k] = "asking"
    /\ Wait(k, Entry(k, "gate"))
    /\ Goto(k, "decided")
    /\ UNCHANGED <<runVars, kind, ann, approvals, asked, logVars, userVars, panicked>>

\* The entry is deleted; without a yes the call is recorded as denied.
GateLeave(k) ==
    /\ pc[k] = "decided"
    /\ approvals' = [approvals EXCEPT ![k] = Nil]
    /\ IF dec[k] = "approve" THEN Goto(k, "run") /\ UNCHANGED rows
         ELSE Record(k, "denied") /\ Goto(k, "persist")
    /\ Outcome(k, Nil)
    /\ UNCHANGED <<runVars, kind, ann, box, asked, dispatched,
                   made, results, lost, userVars, panicked>>

\* How a tool can end; one of the hub's own tools may itself refuse.
Results(k) == IF kind[k] = "local" THEN {"ok", "error", "denied"} ELSE {"ok", "error"}

\* Mutant: a cancelled caller's call is not recorded.
RunUnlessCancelled(k) ==
    /\ pc[k] = "run" /\ kind[k] # "ask"
    /\ Dispatch(k)
    /\ \E s \in Results(k) :
          rows' = IF ctxLive THEN [rows EXCEPT ![k] = Append(@, s)] ELSE rows
    /\ Goto(k, "persist")
    /\ UNCHANGED <<runVars, kind, ann, dec, waitVars, results,
                   lost, userVars, panicked>>

\* Dispatcher.Call and Local: the tool runs, or the server is not connected;
\* the row is written under a context of its own.
Run(k) ==
    /\ pc[k] = "run" /\ kind[k] # "ask"
    /\ \/ /\ Dispatch(k)
          /\ \E s \in Results(k) : Record(k, s)
       \/ /\ kind[k] = "upstream"
          /\ Record(k, "error")
          /\ UNCHANGED <<dispatched, made>>
    /\ Goto(k, "persist")
    /\ UNCHANGED <<runVars, kind, ann, dec, waitVars, results,
                   lost, userVars, panicked>>

-----------------------------------------------------------------------------
(* toolAsk.                                                                *)

Ask(k) ==
    /\ pc[k] = "run" /\ kind[k] = "ask"
    /\ Dispatch(k)
    /\ \/ Record(k, "error") /\ Goto(k, "persist") /\ UNCHANGED waitVars
       \/ /\ approvals' = [approvals EXCEPT ![k] = Entry(k, "question")]
          /\ Goto(k, "waiting")
          /\ UNCHANGED <<box, asked, rows>>
    /\ UNCHANGED <<runVars, kind, ann, dec, results, lost,
                   userVars, panicked>>

AskWait(k) ==
    /\ pc[k] = "waiting"
    /\ Wait(k, Entry(k, "question"))
    /\ Goto(k, "answered")
    /\ UNCHANGED <<runVars, kind, ann, approvals, asked, logVars, userVars, panicked>>

\* A panic that nothing recovers ends the process.
Panic ==
    /\ panicked' = TRUE
    /\ ctxLive' = FALSE
    /\ pc' = [k \in CallIDs |-> "dead"]
    /\ approvals' = [k \in CallIDs |-> Nil]
    /\ req' = [q \in Requests |-> IF req[q].state \in {"sent", "found"}
                                     THEN [req[q] EXCEPT !.state = "refused"] ELSE req[q]]
    /\ UNCHANGED rows

\* The answers are indexed by question: a yes that carries none panics.
AskLeave(k) ==
    /\ pc[k] = "answered"
    /\ IF dec[k] = "approve" THEN Panic
         ELSE /\ approvals' = [approvals EXCEPT ![k] = Nil]
              /\ Record(k, IF dec[k] = "answer" THEN "ok" ELSE "error")
              /\ Goto(k, "persist")
              /\ UNCHANGED <<panicked, ctxLive, req>>
    /\ Outcome(k, Nil)
    /\ UNCHANGED <<turn, over, toolCalls, budgetHit, kind, ann, box, asked, dispatched,
                   made, results, lost, prefVars>>

-----------------------------------------------------------------------------

\* persistToolResult: one tool message, unless the store fails.
Persist(k) ==
    /\ pc[k] = "persist"
    /\ \/ results' = [results EXCEPT ![k] = @ + 1] /\ UNCHANGED lost
       \/ lost' = lost \cup {k} /\ UNCHANGED results
    /\ Goto(k, "done")
    /\ UNCHANGED <<runVars, kind, ann, dec, waitVars, dispatched,
                   made, rows, userVars, panicked>>

\* The next turn of the model calls other tools under the same IDs.  What no one
\* can reach any more of the last turn's entries and requests is dropped.
BeginTurn ==
    /\ turn' = turn + 1
    /\ pc' = [k \in CallIDs |-> "ready"]
    /\ kind' \in [CallIDs -> Kinds] /\ ann' \in [CallIDs -> Anns]
    /\ dec' = [k \in CallIDs |-> Nil]
    /\ asked' = {} /\ dispatched' = {} /\ lost' = {}
    /\ rows' = [k \in CallIDs |-> <<>>]
    /\ results' = [k \in CallIDs |-> 0]
    /\ box' = [e \in Entries |-> IF \E q \in Requests : req[q].state = "found" /\ req[q].pa = e
                                   THEN box[e] ELSE Nil]
    /\ req' = [q \in Requests |-> IF req[q].state = "ok" THEN Done("ok") ELSE req[q]]
    /\ UNCHANGED over

\* Mutant: the turn does not wait for all its calls.
NextTurnEarly ==
    /\ \E k \in CallIDs : pc[k] = "done"
    /\ ~over
    /\ turn < MaxTurns /\ ctxLive /\ ~budgetHit /\ BeginTurn
    /\ UNCHANGED <<ctxLive, toolCalls, budgetHit, approvals, made, prefVars, panicked>>

\* All calls have returned: the model is asked again, or the run ends.
NextTurn ==
    /\ \A k \in CallIDs : pc[k] = "done"
    /\ ~over
    /\ \/ turn < MaxTurns /\ ctxLive /\ ~budgetHit /\ BeginTurn
       \/ /\ over' = TRUE
          /\ UNCHANGED <<turn, callVars, asked, dispatched, lost, rows, results, box, req>>
    /\ UNCHANGED <<ctxLive, toolCalls, budgetHit, approvals, made, prefVars, panicked>>

\* CancelRun, shutdown or the wall timer.
Cancel ==
    /\ ctxLive
    /\ ctxLive' = FALSE
    /\ UNCHANGED <<turn, over, toolCalls, budgetHit, callVars, waitVars, logVars, userVars, panicked>>

-----------------------------------------------------------------------------
(* People.                                                                 *)

\* Someone sees a pending entry and answers it.
Send(q, k) ==
    /\ req[q].state = "idle"
    /\ approvals[k] # Nil
    /\ \E op \in IF approvals[k].what = "gate" THEN {"approve", "deny"} ELSE {"answer", "deny"} :
          req' = [req EXCEPT ![q] = [state |-> "sent", id |-> k, op |-> op, pa |-> Nil]]
    /\ UNCHANGED <<runVars, callVars, waitVars, logVars, prefVars, panicked>>

\* Approve and Answer look the entry up by run and call ID ...
Find(q) ==
    /\ req[q].state = "sent"
    /\ LET pa == IF over THEN Nil ELSE approvals[req[q].id]
           hit == pa # Nil /\ (req[q].op = "answer" => pa.what = "question")
       IN req' = [req EXCEPT ![q] = IF hit THEN [@ EXCEPT !.state = "found", !.pa = pa]
                                      ELSE Done("refused")]
    /\ UNCHANGED <<runVars, callVars, waitVars, logVars, prefVars, panicked>>

\* ... and offer the decision to its channel, which holds one.
Decide(q) ==
    /\ req[q].state = "found"
    /\ IF box[req[q].pa] = Nil
         THEN /\ box' = [box EXCEPT ![req[q].pa] = req[q].op]
              /\ req' = [req EXCEPT ![q].state = "ok"]
         ELSE req' = [req EXCEPT ![q] = Done("refused")] /\ UNCHANGED box
    /\ UNCHANGED <<runVars, callVars, approvals, asked, logVars, prefVars, panicked>>

\* A grant, the approval mode or the auto-approver is edited while the run works.
Edit ==
    /\ edits < MaxEdits /\ ~panicked
    /\ edits' = edits + 1
    /\ \/ granted' = ~granted /\ UNCHANGED <<mode, auto>>
       \/ mode' \in (Modes \cup {AgentMode}) \ {mode} /\ UNCHANGED <<granted, auto>>
       \/ auto' = ~auto /\ UNCHANGED <<granted, mode>>
    /\ UNCHANGED <<runVars, callVars, waitVars, logVars, req, panicked>>

-----------------------------------------------------------------------------

CallNext(k) ==
    \/ Start(k) \/ Check(k) \/ Gate(k) \/ GateWait(k) \/ GateLeave(k)
    \/ Run(k) \/ Ask(k) \/ AskWait(k) \/ AskLeave(k) \/ Persist(k)

Next ==
    \/ \E k \in CallIDs : CallNext(k)
    \/ NextTurn \/ Cancel \/ Edit
    \/ \E q \in Requests : Find(q) \/ Decide(q) \/ \E k \in CallIDs : Send(q, k)

Spec == Init /\ [][Next]_vars

-----------------------------------------------------------------------------
(* Properties.                                                             *)

\* W1, W3: a call that was made to wait runs only after someone said yes to its
\* own entry: not by the timer, not by a cancellation, not by a decision put
\* into the entry of another call or of an earlier turn.
Approved == \A k \in dispatched \cap asked : \E q \in Requests :
    req[q].state = "ok" /\ req[q].pa = Entry(k, "gate") /\ req[q].op = "approve"

\* A call runs only with the yes it waited for, and the concurrent calls of all
\* turns together never run more tools than max_tool_calls.
NoUnapprovedCall == Approved /\ (MaxToolCalls # 0 => made <= MaxToolCalls)

\* R1, R2: the call log tells what happened, cancelled or not: a call whose
\* tool ran has one row (or the store refused it), and only a tool of the hub
\* itself can have run and be "denied"; a row "ok" is of a call that ran.
RowTellsTheTruth ==
    \A k \in CallIDs : pc[k] \in {"persist", "done"} =>
        /\ k \in dispatched => Len(rows[k]) = 1
        /\ k \in dispatched /\ rows[k] = <<"denied">> => kind[k] = "local"
        /\ rows[k] = <<"ok">> => k \in dispatched

\* R6: every call of a turn has exactly one tool message by the time the next
\* turn begins or the run ends (or the store refused it), also a call that was
\* denied, timed out, cancelled or over budget.
ResultPerCall ==
    [][turn' # turn \/ over' # over =>
         \A k \in CallIDs : results[k] = IF k \in lost THEN 0 ELSE 1]_vars


\* M6: a question is answered or skipped; nothing sent to it kills the hub.
QuestionSurvives == ~panicked
=============================================================================
