---------------------------- MODULE RunScheduler ----------------------------
(***************************************************************************)
(* The run scheduler of the agent orchestrator:                            *)
(*   hub/internal/agents/manager.go  submit, acquire, releaseLocked,       *)
(*                                   enterWait, leaveWait, finish,         *)
(*                                   cancelRunState, Start, Shutdown       *)
(*   hub/internal/agents/run.go      execute, turn, execTools              *)
(*                                                                         *)
(* A run is triggered by a message to a chat.  At most one run of a chat   *)
(* executes; later ones wait in the chat's queue.  At most MaxRun runs     *)
(* hold a concurrency slot.  One turn of a run ends in up to               *)
(* Cardinality(Calls) tool calls that run in goroutines of their own; a    *)
(* call may wait for a human, and while any call of a run waits the run    *)
(* gives its slot away and takes one back when the last wait ends.         *)
(*                                                                         *)
(* Each action is one critical section of Manager.mu, one store            *)
(* transaction or one blocking point: the grain at which the goroutines    *)
(* interleave.  What the model turn says, what a tool does and what a      *)
(* message contains are abstracted to which way the code branches.         *)
(***************************************************************************)
EXTENDS Integers, FiniteSets, SequencesExt

CONSTANTS
    Runs,        \* identities of runs (one per submission)
    Chats,       \* chats
    Calls,       \* tool calls a single turn may make
    Main,        \* names the run's own goroutine among its threads
    Null,        \* "no run" / "no chat"
    MaxRun,      \* AGENT_MAX_CONCURRENT_RUNS
    Parallel,    \* AGENT_MAX_PARALLEL_TOOL_CALLS
    MaxTurns,    \* the max_turns budget of a run
    MaxCrashes,  \* bound on the number of process deaths explored
    Faults       \* which collaborators may fail: subset of {"store", "model"}

ASSUME SchedulerAssumption ==
    /\ MaxRun \in Nat \ {0}
    /\ Parallel \in Nat \ {0}
    /\ MaxTurns \in Nat
    /\ MaxCrashes \in Nat
    /\ IsFiniteSet(Runs)
    /\ IsFiniteSet(Calls)
    /\ Main \notin Calls
    /\ Null \notin Runs \cup Chats \cup Calls \cup {Main}
    /\ Faults \subseteq {"store", "model"}

Threads == Calls \cup {Main}

\* The waiter objects of acquire(): which goroutine of which run is asking.
Waiters == Runs \X Threads

Terminal == {"done", "error", "cancelled", "interrupted"}
Unfinished == {"queued", "running", "waiting"}
RunStatus == {"none"} \cup Unfinished \cup Terminal

VARIABLES
    up,          \* the process is alive and Start has swept the store
    stopping,    \* baseCtx is cancelled (Shutdown was called)
    crashes,     \* process deaths so far
    deleted,     \* store: chats whose agent has deleted_at set
    status,      \* store: runs.status ("none" = no row yet)
    chatOf,      \* the chat a run belongs to
    pc,          \* where the run's own goroutine is
    ctx,         \* rs.ctx: "live", or the first cause it was cancelled with
    outcome,     \* runOutcome.status once execute() has returned
    turns,       \* rs.turns
    call,        \* where each tool-call goroutine of the current turn is
    acq,         \* progress of each thread's acquire()
    holdsSlot,   \* rs.holdsSlot
    acquiring,   \* rs.acquiring
    waiters,     \* rs.waiters
    running,     \* Manager.running
    resumeQ,     \* Manager.resumeQ
    startQ,      \* Manager.startQ
    chatActive,  \* Manager.chatActive
    chatQueue    \* Manager.chatQueue

process == <<up, stopping, crashes, deleted>>
slots   == <<acq, running, resumeQ, startQ>>
waits   == <<holdsSlot, acquiring, waiters>>
chatQs  == <<chatActive, chatQueue>>
vars == <<process, status, chatOf, pc, ctx, outcome, turns, call,
          slots, waits, chatQs>>

PCs == {"none", "chatQueue", "submitted", "promoted", "acquire", "loop",
        "lookup", "turn", "tools", "finish", "recorded", "released",
        "dequeued", "over"}

\* A tool call: not made; ready (goroutine started, before the semaphore);
\* gate (before the approval decision), gateWait, gateLeft (waiting has ended,
\* slot being re-acquired); run, runWait, runLeft likewise for a tool that
\* itself asks the user; done.
CallStates == {"off", "ready", "gate", "gateWait", "gateLeft",
               "run", "runWait", "runLeft", "done"}

TypeOK ==
    /\ up \in BOOLEAN
    /\ stopping \in BOOLEAN
    /\ crashes \in 0..MaxCrashes
    /\ deleted \subseteq Chats
    /\ status \in [Runs -> RunStatus]
    /\ chatOf \in [Runs -> Chats \cup {Null}]
    /\ pc \in [Runs -> PCs]
    /\ ctx \in [Runs -> {"live", "cancelled", "wall", "shutdown"}]
    /\ outcome \in [Runs -> {"none"} \cup Terminal]
    /\ turns \in [Runs -> 0..MaxTurns]
    /\ call \in [Runs \X Calls -> CallStates]
    /\ acq \in [Waiters -> {"none", "queued", "granted", "held"}]
    /\ holdsSlot \in [Runs -> BOOLEAN]
    /\ acquiring \in [Runs -> BOOLEAN]
    /\ waiters \in [Runs -> Nat]
    /\ running \in Nat
    /\ resumeQ \in Seq(Waiters)
    /\ startQ \in Seq(Waiters)
    /\ chatActive \in [Chats -> Runs \cup {Null}]
    /\ chatQueue \in [Chats -> Seq(Runs)]

-----------------------------------------------------------------------------
(* The process starts with an empty memory; Start sweeps what is stored.   *)

Init ==
    /\ up = FALSE
    /\ stopping = FALSE
    /\ crashes = 0
    /\ deleted = {}
    /\ status = [r \in Runs |-> "none"]
    /\ chatOf = [r \in Runs |-> Null]
    /\ pc = [r \in Runs |-> "none"]
    /\ ctx = [r \in Runs |-> "live"]
    /\ outcome = [r \in Runs |-> "none"]
    /\ turns = [r \in Runs |-> 0]
    /\ call = [rk \in Runs \X Calls |-> "off"]
    /\ acq = [w \in Waiters |-> "none"]
    /\ running = 0
    /\ resumeQ = <<>>
    /\ startQ = <<>>
    /\ holdsSlot = [r \in Runs |-> FALSE]
    /\ acquiring = [r \in Runs |-> FALSE]
    /\ waiters = [r \in Runs |-> 0]
    /\ chatActive = [c \in Chats |-> Null]
    /\ chatQueue = [c \in Chats |-> <<>>]

\* Mutant: the sweep only knows rows marked running.
SweepRunningOnly(s) == IF s = "running" THEN "interrupted" ELSE s

\* InterruptRunning: what a previous process left unfinished is interrupted.
Sweep(s) == IF s \in Unfinished THEN "interrupted" ELSE s

Start ==
    /\ ~up
    /\ up' = TRUE
    /\ status' = [r \in Runs |-> Sweep(status[r])]
    /\ UNCHANGED <<stopping, crashes, deleted, chatOf, pc, ctx, outcome, turns, call,
                   slots, waits, chatQs>>

\* The process dies (or exits after Shutdown): only the store survives.
Crash ==
    /\ up
    /\ crashes < MaxCrashes
    /\ up' = FALSE
    /\ stopping' = FALSE
    /\ crashes' = crashes + 1
    /\ pc' = [r \in Runs |-> IF pc[r] = "none" THEN "none" ELSE "over"]
    /\ call' = [rk \in Runs \X Calls |-> "off"]
    /\ acq' = [w \in Waiters |-> "none"]
    /\ running' = 0
    /\ resumeQ' = <<>>
    /\ startQ' = <<>>
    /\ holdsSlot' = [r \in Runs |-> FALSE]
    /\ acquiring' = [r \in Runs |-> FALSE]
    /\ waiters' = [r \in Runs |-> 0]
    /\ chatActive' = [c \in Chats |-> Null]
    /\ chatQueue' = [c \in Chats |-> <<>>]
    /\ UNCHANGED <<deleted, status, chatOf, ctx, outcome, turns>>

\* Shutdown cancels baseCtx, the parent of every run's context.
Shutdown ==
    /\ up
    /\ ~stopping
    /\ stopping' = TRUE
    /\ ctx' = [r \in Runs |->
                 IF pc[r] # "none" /\ ctx[r] = "live" THEN "shutdown" ELSE ctx[r]]
    /\ UNCHANGED <<up, crashes, deleted, status, chatOf, pc, outcome, turns, call,
                   slots, waits, chatQs>>

-----------------------------------------------------------------------------
(* The slot semaphore.                                                     *)

\* acquire(): take a free slot at once, or join the given queue.
TakeSlot(w) ==
    /\ running < MaxRun
    /\ running' = running + 1
    /\ acq' = [acq EXCEPT ![w] = "held"]
    /\ UNCHANGED <<resumeQ, startQ>>

JoinStartQ(w) ==
    /\ running >= MaxRun
    /\ startQ' = Append(startQ, w)
    /\ acq' = [acq EXCEPT ![w] = "queued"]
    /\ UNCHANGED <<running, resumeQ>>

JoinResumeQ(w) ==
    /\ running >= MaxRun
    /\ resumeQ' = Append(resumeQ, w)
    /\ acq' = [acq EXCEPT ![w] = "queued"]
    /\ UNCHANGED <<running, startQ>>

\* Mutant: a released slot is only handed to a resuming run.
ReleaseResumeOnly(acq0) ==
    IF resumeQ = <<>>
      THEN /\ running' = running - 1
           /\ acq' = acq0
           /\ UNCHANGED <<resumeQ, startQ>>
      ELSE /\ acq' = [acq0 EXCEPT ![Head(resumeQ)] = "granted"]
           /\ resumeQ' = Tail(resumeQ)
           /\ UNCHANGED <<running, startQ>>

\* releaseLocked(): give one slot back and hand free slots to the first
\* waiters, those of resumeQ before those of startQ.  acq0 is acq as the
\* caller leaves it.
ReleaseLocked(acq0) ==
    LET q    == resumeQ \o startQ
        free == MaxRun - (running - 1)
        n    == IF Len(q) < free THEN Len(q) ELSE free
    IN  /\ running' = running - 1 + n
        /\ acq' = [w \in Waiters |->
                     IF \E i \in 1..n : q[i] = w THEN "granted" ELSE acq0[w]]
        /\ resumeQ' = SubSeq(resumeQ, n + 1, Len(resumeQ))
        /\ startQ' = IF n > Len(resumeQ)
                       THEN SubSeq(startQ, n - Len(resumeQ) + 1, Len(startQ))
                       ELSE startQ

\* removeWaiter()
RemoveWaiter(q, w) == RemoveFirst(q, w)

\* Mutant: a slot granted just before the cancellation is forgotten.
AbandonKeepsSlot(w) ==
    /\ acq[w] \in {"granted", "queued"}
    /\ acq' = [acq EXCEPT ![w] = "none"]
    /\ resumeQ' = RemoveWaiter(resumeQ, w)
    /\ startQ' = RemoveWaiter(startQ, w)
    /\ UNCHANGED running

\* The ctx.Done arm of acquire()'s select.  A slot granted in the meantime is
\* passed on; otherwise the waiter leaves its queue.
AbandonAcquire(w) ==
    \/ /\ acq[w] = "granted"
       /\ ReleaseLocked([acq EXCEPT ![w] = "none"])
    \/ /\ acq[w] = "queued"
       /\ acq' = [acq EXCEPT ![w] = "none"]
       /\ resumeQ' = RemoveWaiter(resumeQ, w)
       /\ startQ' = RemoveWaiter(startQ, w)
       /\ UNCHANGED running

-----------------------------------------------------------------------------
(* Submission and the per-chat queue.                                      *)

\* submit(), accepted: the row is created queued, then the run becomes the
\* chat's active one or joins the chat's queue.  The caller looked the agent up
\* before; that it was deleted since is not noticed.
Submit(r, c) ==
    /\ up
    /\ pc[r] = "none"
    /\ status' = [status EXCEPT ![r] = "queued"]
    /\ chatOf' = [chatOf EXCEPT ![r] = c]
    /\ ctx' = [ctx EXCEPT ![r] = IF stopping THEN "shutdown" ELSE "live"]
    /\ \/ /\ chatActive[c] # Null
          /\ chatQueue' = [chatQueue EXCEPT ![c] = Append(@, r)]
          /\ pc' = [pc EXCEPT ![r] = "chatQueue"]
          /\ UNCHANGED chatActive
       \/ /\ chatActive[c] = Null
          /\ chatActive' = [chatActive EXCEPT ![c] = r]
          /\ pc' = [pc EXCEPT ![r] = "submitted"]
          /\ UNCHANGED chatQueue
    /\ UNCHANGED <<process, outcome, turns, call, slots, waits>>

\* submit(), refused by the lifetime budget: a done row and no run.
SubmitRefused(r, c) ==
    /\ up
    /\ pc[r] = "none"
    /\ status' = [status EXCEPT ![r] = "done"]
    /\ chatOf' = [chatOf EXCEPT ![r] = c]
    /\ pc' = [pc EXCEPT ![r] = "over"]
    /\ UNCHANGED <<process, ctx, outcome, turns, call, slots, waits, chatQs>>

EndsWith(r, o) ==
    /\ pc' = [pc EXCEPT ![r] = "finish"]
    /\ outcome' = [outcome EXCEPT ![r] = o]

\* causeOutcome()
CauseOutcome(r) ==
    CASE ctx[r] = "wall"     -> "done"
      [] ctx[r] = "shutdown" -> "interrupted"
      [] OTHER               -> "cancelled"

\* materialize() with the submitter's own context.
MaterializeSubmitted(r) ==
    /\ pc[r] = "submitted"
    /\ \/ /\ pc' = [pc EXCEPT ![r] = "acquire"]
          /\ UNCHANGED outcome
       \/ /\ "store" \in Faults
          /\ EndsWith(r, "error")
    /\ UNCHANGED <<process, status, chatOf, ctx, turns, call, slots, waits, chatQs>>

\* materialize() of a promoted run, in execute(), with the run's context: on a
\* cancelled context every store operation fails.
MaterializePromoted(r) ==
    /\ pc[r] = "promoted"
    /\ \/ /\ ctx[r] = "live"
          /\ pc' = [pc EXCEPT ![r] = "acquire"]
          /\ UNCHANGED outcome
       \/ /\ ctx[r] # "live" \/ "store" \in Faults
          /\ EndsWith(r, "error")
    /\ UNCHANGED <<process, status, chatOf, ctx, turns, call, slots, waits, chatQs>>

-----------------------------------------------------------------------------
(* execute(): the run's own goroutine.                                     *)

AcquireStart(r) ==
    /\ pc[r] = "acquire"
    /\ acq[<<r, Main>>] = "none"
    /\ TakeSlot(<<r, Main>>) \/ JoinStartQ(<<r, Main>>)
    /\ UNCHANGED <<process, status, chatOf, pc, ctx, outcome, turns, call,
                   waits, chatQs>>

\* acquire() returned nil: the slot is the run's and the row says running.
Begin(r) ==
    /\ pc[r] = "acquire"
    /\ acq[<<r, Main>>] \in {"held", "granted"}
    /\ acq' = [acq EXCEPT ![<<r, Main>>] = "none"]
    /\ holdsSlot' = [holdsSlot EXCEPT ![r] = TRUE]
    /\ status' = [status EXCEPT ![r] = "running"]
    /\ pc' = [pc EXCEPT ![r] = "loop"]
    /\ UNCHANGED <<process, chatOf, ctx, outcome, turns, call, running,
                   resumeQ, startQ, acquiring, waiters, chatQs>>

AbandonStart(r) ==
    /\ pc[r] = "acquire"
    /\ ctx[r] # "live"
    /\ AbandonAcquire(<<r, Main>>)
    /\ EndsWith(r, CauseOutcome(r))
    /\ UNCHANGED <<process, status, chatOf, ctx, turns, call, waits, chatQs>>

\* /compact and /optimize_skills are answered by the hub itself, once, before
\* the loop; their store reads use the run's context.
CommandTurn(r) ==
    /\ pc[r] = "loop"
    /\ turns[r] = 0
    /\ \/ EndsWith(r, "done")
       \/ ctx[r] # "live" /\ EndsWith(r, CauseOutcome(r))
       \/ (ctx[r] # "live" \/ "store" \in Faults) /\ EndsWith(r, "error")
    /\ UNCHANGED <<process, status, chatOf, ctx, turns, call, slots, waits, chatQs>>

\* The top of the loop looks at the context ...
LoopTop(r) ==
    /\ pc[r] = "loop"
    /\ \/ /\ ctx[r] = "live"
          /\ pc' = [pc EXCEPT ![r] = "lookup"]
          /\ UNCHANGED outcome
       \/ /\ ctx[r] # "live"
          /\ EndsWith(r, CauseOutcome(r))
    /\ UNCHANGED <<process, status, chatOf, ctx, turns, call, slots, waits, chatQs>>

\* ... then reads the agent with it: a context cancelled in between is an
\* error; a deleted agent cancels; an exhausted budget ends the run.
Lookup(r) ==
    /\ pc[r] = "lookup"
    /\ \/ /\ ctx[r] # "live" \/ "store" \in Faults
          /\ EndsWith(r, "error")
       \/ /\ ctx[r] = "live"
          /\ \/ chatOf[r] \in deleted /\ EndsWith(r, "cancelled")
             \/ chatOf[r] \notin deleted /\ EndsWith(r, "done")
             \/ /\ chatOf[r] \notin deleted /\ turns[r] < MaxTurns
                /\ pc' = [pc EXCEPT ![r] = "turn"]
                /\ UNCHANGED outcome
    /\ UNCHANGED <<process, status, chatOf, ctx, turns, call, slots, waits, chatQs>>

\* turn(): the model round-trip ends cancelled, failed, done or with calls.
Turn(r) ==
    /\ pc[r] = "turn"
    /\ turns' = [turns EXCEPT ![r] = @ + 1]
    /\ \/ /\ ctx[r] # "live"
          /\ EndsWith(r, CauseOutcome(r))
          /\ UNCHANGED call
       \/ /\ Faults # {}
          /\ EndsWith(r, "error")
          /\ UNCHANGED call
       \/ /\ ctx[r] = "live"
          /\ EndsWith(r, "done")
          /\ UNCHANGED call
       \/ /\ ctx[r] = "live"
          /\ \E K \in SUBSET Calls \ {{}} :
                call' = [rk \in Runs \X Calls |->
                           IF rk[1] # r THEN call[rk]
                             ELSE IF rk[2] \in K THEN "ready" ELSE "off"]
          /\ pc' = [pc EXCEPT ![r] = "tools"]
          /\ UNCHANGED outcome
    /\ UNCHANGED <<process, status, chatOf, ctx, slots, waits, chatQs>>

\* execTools() returns when every call has its result; budgetHit ends the run.
ToolsDone(r) ==
    /\ pc[r] = "tools"
    /\ \A k \in Calls : call[<<r, k>>] \in {"off", "done"}
    /\ call' = [rk \in Runs \X Calls |-> IF rk[1] = r THEN "off" ELSE call[rk]]
    /\ \/ /\ pc' = [pc EXCEPT ![r] = "loop"]
          /\ UNCHANGED outcome
       \/ EndsWith(r, "done")
    /\ UNCHANGED <<process, status, chatOf, ctx, turns, slots, waits, chatQs>>

-----------------------------------------------------------------------------
(* One tool call of the turn.                                              *)

SetCall(r, k, s) == call' = [call EXCEPT ![<<r, k>>] = s]

\* The call gets a place in the parallel-call semaphore.  It is answered
\* without being made when the run is cancelled or out of call budget.
CallStart(r, k) ==
    /\ call[<<r, k>>] = "ready"
    /\ Cardinality({j \in Calls : call[<<r, j>>] \notin {"off", "ready", "done"}}) < Parallel
    /\ \/ ctx[r] = "live" /\ SetCall(r, k, "gate")
       \/ SetCall(r, k, "done")
    /\ UNCHANGED <<process, status, chatOf, pc, ctx, outcome, turns, slots,
                   waits, chatQs>>

\* gate() passes without asking, or the call is refused: no wait.
CallStep(r, k) ==
    /\ \/ /\ call[<<r, k>>] = "gate"
          /\ SetCall(r, k, "run") \/ SetCall(r, k, "done")
       \/ /\ call[<<r, k>>] = "run"
          /\ SetCall(r, k, "done")
    /\ UNCHANGED <<process, status, chatOf, pc, ctx, outcome, turns, slots,
                   waits, chatQs>>

\* enterWait(): the first wait of a run gives its slot away.
EnterWait(r, k) ==
    /\ \/ call[<<r, k>>] = "gate" /\ SetCall(r, k, "gateWait")
       \/ call[<<r, k>>] = "run" /\ SetCall(r, k, "runWait")
    /\ waiters' = [waiters EXCEPT ![r] = @ + 1]
    /\ holdsSlot' = [holdsSlot EXCEPT ![r] = FALSE]
    /\ IF holdsSlot[r] THEN ReleaseLocked(acq) ELSE UNCHANGED slots
    /\ status' = [status EXCEPT ![r] = "waiting"]
    /\ UNCHANGED <<process, chatOf, pc, ctx, outcome, turns, acquiring, chatQs>>

\* What a call does once its wait is over: gate() lets it run or denies it.
AfterWait(r, k) ==
    \/ call[<<r, k>>] \in {"gateWait", "gateLeft"} /\ SetCall(r, k, "run")
    \/ call[<<r, k>>] \in {"gateWait", "gateLeft", "runWait", "runLeft"}
       /\ SetCall(r, k, "done")

\* rs.finished
Finished(r) == pc[r] \in {"released", "over"}

\* leaveWait(), the first half's test: this call must take a slot back.
NeedsSlot(r) ==
    /\ waiters[r] = 1
    /\ ~holdsSlot[r]
    /\ ~acquiring[r]
    /\ ~Finished(r)

\* A wait ends (answer, timeout or cancellation) and it is not this call's
\* business to take a slot back.  syncRun writes the status.
LeaveWait(r, k) ==
    /\ call[<<r, k>>] \in {"gateWait", "runWait"}
    /\ ~NeedsSlot(r)
    /\ AfterWait(r, k)
    /\ waiters' = [waiters EXCEPT ![r] = @ - 1]
    /\ status' = [status EXCEPT ![r] = IF waiters[r] > 1 THEN "waiting" ELSE "running"]
    /\ UNCHANGED <<process, chatOf, pc, ctx, outcome, turns, slots, holdsSlot,
                   acquiring, chatQs>>

\* The last wait ends: this call re-acquires a slot for the run.
LeaveWaitLast(r, k) ==
    /\ \/ call[<<r, k>>] = "gateWait" /\ SetCall(r, k, "gateLeft")
       \/ call[<<r, k>>] = "runWait" /\ SetCall(r, k, "runLeft")
    /\ NeedsSlot(r)
    /\ waiters' = [waiters EXCEPT ![r] = @ - 1]
    /\ acquiring' = [acquiring EXCEPT ![r] = TRUE]
    /\ UNCHANGED <<process, status, chatOf, pc, ctx, outcome, turns, slots,
                   holdsSlot, chatQs>>

AcquireResume(r, k) ==
    /\ call[<<r, k>>] \in {"gateLeft", "runLeft"}
    /\ acq[<<r, k>>] = "none"
    /\ TakeSlot(<<r, k>>) \/ JoinResumeQ(<<r, k>>)
    /\ UNCHANGED <<process, status, chatOf, pc, ctx, outcome, turns, call,
                   waits, chatQs>>

\* leaveWait(), second half, acquire() returned nil.  If another call of the
\* run has begun to wait in the meantime the slot is given back.
Resume(r, k) ==
    /\ call[<<r, k>>] \in {"gateLeft", "runLeft"}
    /\ acq[<<r, k>>] \in {"held", "granted"}
    /\ acquiring' = [acquiring EXCEPT ![r] = FALSE]
    /\ \/ /\ waiters[r] > 0 \/ Finished(r)
          /\ ReleaseLocked([acq EXCEPT ![<<r, k>>] = "none"])
          /\ UNCHANGED holdsSlot
       \/ /\ waiters[r] = 0 /\ ~Finished(r)
          /\ holdsSlot' = [holdsSlot EXCEPT ![r] = TRUE]
          /\ acq' = [acq EXCEPT ![<<r, k>>] = "none"]
          /\ UNCHANGED <<running, resumeQ, startQ>>
    /\ status' = [status EXCEPT ![r] = IF waiters[r] > 0 THEN "waiting" ELSE "running"]
    /\ AfterWait(r, k)
    /\ UNCHANGED <<process, chatOf, pc, ctx, outcome, turns, waiters, chatQs>>

\* leaveWait(), second half, acquire() returned the cancellation cause.
AbandonResume(r, k) ==
    /\ call[<<r, k>>] \in {"gateLeft", "runLeft"}
    /\ ctx[r] # "live"
    /\ AbandonAcquire(<<r, k>>)
    /\ acquiring' = [acquiring EXCEPT ![r] = FALSE]
    /\ status' = [status EXCEPT ![r] = IF waiters[r] > 0 THEN "waiting" ELSE "running"]
    /\ AfterWait(r, k)
    /\ UNCHANGED <<process, chatOf, pc, ctx, outcome, turns, holdsSlot,
                   waiters, chatQs>>

-----------------------------------------------------------------------------
(* The end of a run.                                                       *)

\* finish(), first step: the context is cancelled and the row is final.
Finish(r) ==
    /\ pc[r] = "finish"
    /\ pc' = [pc EXCEPT ![r] = "recorded"]
    /\ status' = [status EXCEPT ![r] = outcome[r]]
    /\ ctx' = [ctx EXCEPT ![r] = IF @ = "live" THEN "cancelled" ELSE @]
    /\ UNCHANGED <<process, chatOf, outcome, turns, call, slots, waits, chatQs>>

\* finish(), under Manager.mu: forget the run and release its slot.
FinishRelease(r) ==
    /\ pc[r] = "recorded"
    /\ pc' = [pc EXCEPT ![r] = "released"]
    /\ holdsSlot' = [holdsSlot EXCEPT ![r] = FALSE]
    /\ IF holdsSlot[r] THEN ReleaseLocked(acq) ELSE UNCHANGED slots
    /\ UNCHANGED <<process, status, chatOf, ctx, outcome, turns, call,
                   acquiring, waiters, chatQs>>

\* Mutant: the promoted run is started but not made the active one.
PromoteInactive(r) ==
    LET c == chatOf[r] IN
    /\ pc[r] = "released"
    /\ chatActive' = [chatActive EXCEPT ![c] = Null]
    /\ chatQueue' = [chatQueue EXCEPT ![c] = IF @ = <<>> THEN @ ELSE Tail(@)]
    /\ pc' = [x \in Runs |-> CASE x = r -> "over"
                              [] chatQueue[c] # <<>> /\ x = Head(chatQueue[c]) -> "promoted"
                              [] OTHER -> pc[x]]
    /\ UNCHANGED <<process, status, chatOf, ctx, outcome, turns, call, slots, waits>>

\* finish(), last step: the head of the chat's queue becomes active.
Promote(r) ==
    LET c == chatOf[r] IN
    /\ pc[r] = "released"
    /\ \/ /\ chatQueue[c] = <<>>
          /\ chatActive' = [chatActive EXCEPT ![c] = Null]
          /\ pc' = [pc EXCEPT ![r] = "over"]
          /\ UNCHANGED chatQueue
       \/ /\ chatQueue[c] # <<>>
          /\ chatActive' = [chatActive EXCEPT ![c] = Head(chatQueue[c])]
          /\ chatQueue' = [chatQueue EXCEPT ![c] = Tail(@)]
          /\ pc' = [pc EXCEPT ![r] = "over", ![Head(chatQueue[c])] = "promoted"]
    /\ UNCHANGED <<process, status, chatOf, ctx, outcome, turns, call, slots, waits>>

\* Mutant: a cancelled run stays in its chat's queue.
CancelStaysQueued(r) ==
    /\ up
    /\ pc[r] \notin {"none", "released", "dequeued", "over"}
    /\ ctx' = [ctx EXCEPT ![r] = IF @ = "live" THEN "cancelled" ELSE @]
    /\ pc' = [pc EXCEPT ![r] = IF @ = "chatQueue" THEN "dequeued" ELSE @]
    /\ UNCHANGED <<process, status, chatOf, outcome, turns, call, slots, waits, chatQs>>

\* cancelRunState() on a run in memory: CancelRun, chat.stop, or cancelAgents in
\* DeleteAgent.  A run still in a chat's queue leaves it.
Cancel(r) ==
    /\ up
    /\ pc[r] \notin {"none", "released", "dequeued", "over"}
    /\ ctx' = [ctx EXCEPT ![r] = IF @ = "live" THEN "cancelled" ELSE @]
    /\ \/ /\ pc[r] = "chatQueue"
          /\ chatQueue' = [chatQueue EXCEPT ![chatOf[r]] =
                             RemoveFirst(@, r)]
          /\ pc' = [pc EXCEPT ![r] = "dequeued"]
       \/ /\ pc[r] # "chatQueue"
          /\ ctx[r] = "live"
          /\ UNCHANGED <<pc, chatQueue>>
    /\ UNCHANGED <<process, status, chatOf, outcome, turns, call, slots, waits,
                   chatActive>>

\* SoftDeleteAgent, the last part of DeleteAgent, marks the rows of the agent
\* itself.  The Cancel steps before it leave the goroutines to end by
\* themselves; runs submitted since then are not cancelled at all.
SoftDelete(c) ==
    /\ up
    /\ c \notin deleted
    /\ deleted' = deleted \cup {c}
    /\ status' = [r \in Runs |-> IF chatOf[r] = c /\ status[r] \in Unfinished
                                   THEN "cancelled" ELSE status[r]]
    /\ UNCHANGED <<up, stopping, crashes, chatOf, pc, ctx, outcome, turns, call,
                   slots, waits, chatQs>>

\* finishQueued()
FinishQueued(r) ==
    /\ pc[r] = "dequeued"
    /\ pc' = [pc EXCEPT ![r] = "over"]
    /\ status' = [status EXCEPT ![r] = "cancelled"]
    /\ UNCHANGED <<process, chatOf, ctx, outcome, turns, call, slots, waits, chatQs>>

\* The max_wall_seconds timer of a started run.
WallTimer(r) ==
    /\ pc[r] \in {"loop", "lookup", "turn", "tools", "finish"}
    /\ ctx[r] = "live"
    /\ ctx' = [ctx EXCEPT ![r] = "wall"]
    /\ UNCHANGED <<process, status, chatOf, pc, outcome, turns, call, slots,
                   waits, chatQs>>

-----------------------------------------------------------------------------

CallNext(r, k) ==
    \/ CallStart(r, k)
    \/ CallStep(r, k)
    \/ EnterWait(r, k)
    \/ LeaveWait(r, k)
    \/ LeaveWaitLast(r, k)
    \/ AcquireResume(r, k)
    \/ Resume(r, k)
    \/ AbandonResume(r, k)

\* The steps a run's goroutines take by themselves.
RunNext(r) ==
    \/ MaterializeSubmitted(r)
    \/ MaterializePromoted(r)
    \/ AcquireStart(r)
    \/ Begin(r)
    \/ AbandonStart(r)
    \/ CommandTurn(r)
    \/ LoopTop(r)
    \/ Lookup(r)
    \/ Turn(r)
    \/ ToolsDone(r)
    \/ Finish(r)
    \/ FinishRelease(r)
    \/ Promote(r)
    \/ FinishQueued(r)

Next ==
    \/ Start
    \/ Crash
    \/ Shutdown
    \/ \E c \in Chats : SoftDelete(c)
    \/ \E r \in Runs :
          \/ \E c \in Chats : Submit(r, c) \/ SubmitRefused(r, c)
          \/ Cancel(r)
          \/ WallTimer(r)
          \/ RunNext(r)
          \/ \E k \in Calls : CallNext(r, k)

Spec == Init /\ [][Next]_vars

\* Goroutines are scheduled and Start runs when the process comes up.  A wait
\* ends because gate() and toolAsk() arm a timer; a turn and a call end
\* because provider and dispatcher calls have deadlines.
Fairness ==
    /\ WF_vars(Start)
    /\ \A r \in Runs :
          /\ WF_vars(RunNext(r))
          /\ \A k \in Calls : WF_vars(CallNext(r, k))

FairSpec == Spec /\ Fairness

-----------------------------------------------------------------------------
(* Properties.                                                             *)

\* Everything that owns a slot: a run that holds one, or an acquire() whose
\* slot has been counted and not yet handed to the run.
SlotOwners ==
    {w \in Runs \X (Threads \cup {Null}) :
        IF w[2] = Null THEN holdsSlot[w[1]] ELSE acq[w] \in {"granted", "held"}}

\* No slot is lost or invented, whatever grants, cancellations and parallel
\* waits interleave: Manager.running is the number of owners, never exceeds
\* AGENT_MAX_CONCURRENT_RUNS, and a model turn is only executed by an owner
\* (R7), although other goroutines of the run give its slot away and take it
\* back.
SlotAccounting ==
    /\ running = Cardinality(SlotOwners)
    /\ running <= MaxRun
    /\ \A r \in Runs : pc[r] \in {"lookup", "turn"} => holdsSlot[r]

\* The scheduler is work-conserving: nobody queues while a slot is free.
NoIdleSlot == running < MaxRun => resumeQ = <<>> /\ startQ = <<>>

Executing == {"submitted", "promoted", "acquire", "loop", "lookup", "turn",
              "tools", "finish", "recorded", "released"}

\* R4: only the chat's active run executes, and a run is never left in the
\* queue of a chat that has no active run to promote it.
OneRunPerChat ==
    /\ \A r \in Runs : pc[r] \in Executing => chatActive[chatOf[r]] = r
    /\ \A c \in Chats : chatQueue[c] # <<>> => chatActive[c] # Null

\* A3: while the hub is up, every row that is not final belongs to a run the
\* process still knows: nothing stays queued, running or waiting for ever
\* after a crash.
NoOrphanRow ==
    up => \A r \in Runs : status[r] \in Unfinished => pc[r] \notin {"none", "over"}

\* A final status is never overwritten, by a late syncRun, a cancel, or the
\* sweep of the next process.  Rows that SoftDeleteAgent made final are the
\* exception: UpdateRun has no guard, and their goroutines still write.
FinalStatusIsFinal ==
    [][\A r \in Runs : status[r] \in Terminal /\ chatOf[r] \notin deleted
                         => status'[r] = status[r]]_vars

\* Every submitted run reaches a final status: no cancelled, waiting, queued
\* or promoted run is forgotten.
EveryRunEnds == \A r \in Runs : (status[r] = "queued") ~> (status[r] \in Terminal)
=============================================================================
