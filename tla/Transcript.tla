----------------------------- MODULE Transcript -----------------------------
(***************************************************************************)
(* The messages of one chat: the tree and its active leaf in               *)
(* hub/internal/store/sqlite_chats.go, and who writes to it.  A run reads   *)
(* the active path and appends below a leaf of its own (run.go, manager.go, *)
(* compact.go).  People post, branch and switch branches at any time        *)
(* (service_impl.go, api/orchestrator.go).  Mail that wakes nobody and both *)
(* sides of a bridge chat append directly (switchboard.go, bridge.go).      *)
(*                                                                         *)
(* Messages are numbered in the order of messages.seq; 0 is none.          *)
(***************************************************************************)
EXTENDS Integers, Sequences, FiniteSets, SequencesExt

CONSTANTS
    Calls,        \* IDs of the tool calls of a message; every turn uses them again
    Writers,      \* those who append without a run
    MaxMsgs,      \* bound on messages
    MaxRuns,      \* bound on submissions
    MaxOthers,    \* bound on switches of the branch, appends without a run and crashes
    KeepMin,      \* compactKeepMin
    Nil

ASSUME TranscriptAssumption ==
    /\ MaxMsgs \in Nat /\ MaxRuns \in Nat /\ MaxOthers \in Nat /\ KeepMin \in Nat
    /\ IsFiniteSet(Calls) /\ Nil \notin Calls

VARIABLES
    msgs,      \* the messages table
    leaf,      \* chats.active_leaf_id
    last,      \* messages.last_active_child_id
    mark,      \* chats.summarize_upto_msg: what the summary stands for
    active,    \* the run of Manager.chatActive
    queue,     \* Manager.chatQueue: submissions
    checked,   \* a Branch that found the chat idle
    mail,      \* the leaf a writer read
    was,       \* history: the last active leaf below a message
    count      \* how much of each bound is used up

vars == <<msgs, leaf, last, mark, active, queue, checked, mail, was, count>>

Ids == 1..MaxMsgs
Known == DOMAIN msgs

Msg(parent, role, calls, answers, run) ==
    [parent |-> parent, role |-> role, calls |-> calls, answers |-> answers, run |-> run]

\* setLeaf, and the message to append (and where, if that was chosen).
Sub(point, has, explicit, parent) ==
    [point |-> point, has |-> has, explicit |-> explicit, parent |-> parent]

\* A run that has the chat; upto is the end of the summary as its turn read it.
Active(id, sub) ==
    [id |-> id, sub |-> sub, pc |-> "point", leaf |-> 0, left |-> {}, path |-> <<>>,
     upto |-> 0, compacted |-> FALSE]

Init ==
    /\ msgs = <<>> /\ leaf = 0 /\ mark = 0
    /\ last = [m \in Ids |-> 0] /\ was = [m \in Ids |-> 0]
    /\ active = Nil /\ queue = <<>> /\ checked = Nil
    /\ mail = [w \in Writers |-> Nil]
    /\ count = [runs |-> 0, others |-> 0]

-----------------------------------------------------------------------------
(* The store.                                                              *)

\* pathSQL: from the root down to x.
PathTo(ms, x) ==
    LET path[n \in 0..Len(ms)] == IF n = 0 THEN <<>> ELSE Append(path[ms[n].parent], n)
    IN path[x]

On(ms, x) == ToSet(PathTo(ms, x))

\* Mutant: only the parent remembers.
UpdateParent(ms, x) == [m \in Ids |-> IF ms[x].parent = m THEN x ELSE last[m]]

\* pathUpdateSQL: every ancestor remembers the way to x.
PathUpdate(ms, x) ==
    LET path == PathTo(ms, x)
        above == {i \in 1..(Len(path) - 1) : TRUE}
    IN [m \in Ids |-> IF \E i \in above : path[i] = m
                        THEN path[(CHOOSE i \in above : path[i] = m) + 1] ELSE last[m]]

Seen(ms, x) == [m \in Ids |-> IF m \in On(ms, x) THEN x ELSE was[m]]

SetLeafTx(x) ==
    /\ leaf' = x
    /\ last' = PathUpdate(msgs, x)
    /\ was' = Seen(msgs, x)

\* appendMessageTx
AppendTx(rec) ==
    /\ Len(msgs) < MaxMsgs
    /\ msgs' = Append(msgs, rec)
    /\ leaf' = Len(msgs')
    /\ last' = PathUpdate(msgs', Len(msgs'))
    /\ was' = Seen(msgs', Len(msgs'))

Children(n) == {m \in Known : msgs[m].parent = n}
Child(n) == IF last[n] # 0 THEN last[n]
            ELSE CHOOSE m \in Children(n) : \A k \in Children(n) : k <= m

\* deepestSQL: down the remembered branch, or the newest.
Deepest(x) ==
    LET down[i \in 0..Len(msgs)] ==
            LET n == Len(msgs) - i IN
            IF n = 0 \/ Children(n) = {} THEN n ELSE down[Len(msgs) - Child(n)]
    IN down[Len(msgs) - x]

-----------------------------------------------------------------------------
(* What the model is shown.                                                *)

Tool(s, i) == s[i].role = "tool"

\* The results in the tool messages directly after message i of s.
After(s, i) == {j \in (i + 1)..Len(s) : \A k \in (i + 1)..j : Tool(s, k)}

Result(c, real) == [role |-> "tool", answers |-> c, real |-> real]
Entry(m) == [role |-> m.role, calls |-> m.calls]

\* The numbers in T, in order.
Ascending(T) ==
    CHOOSE p \in [1..Cardinality(T) -> T] : \A m, n \in DOMAIN p : m < n => p[m] < p[n]

\* Mutant: a call without a result is sent as it is.
RepairNothing(s) ==
    FlattenSeq([i \in DOMAIN s |->
        IF ~Tool(s, i) THEN <<Entry(s[i])>>
        ELSE IF \E j \in 1..(i - 1) : i \in After(s, j) /\ s[i].answers \in s[j].calls
               THEN <<Result(s[i].answers, TRUE)>> ELSE <<>>])

\* Mutant: only a result directly after its call is kept.
RepairAdjacent(s) ==
    FlattenSeq([i \in DOMAIN s |->
        IF Tool(s, i) THEN <<>>
        ELSE <<Entry(s[i])>> \o
             SetToSeq({Result(c, i < Len(s) /\ Tool(s, i + 1) /\ s[i + 1].answers = c) : c \in s[i].calls})])

\* repairToolPairs: a call is answered directly after it, by the first result
\* recorded for it there or by an error; other results are dropped.
Repair(s) ==
    FlattenSeq([i \in DOMAIN s |->
        IF Tool(s, i) THEN <<>>
        ELSE LET kept == {j \in After(s, i) : /\ s[j].answers \in s[i].calls
                                              /\ \A k \in (i + 1)..(j - 1) : s[k].answers # s[j].answers}
                 left == s[i].calls \ {s[j].answers : j \in kept}
             IN <<Entry(s[i])>>
                \o [n \in DOMAIN Ascending(kept) |->
                      Result(s[Ascending(kept)[n]].answers, TRUE)]
                \o SetToSeq({Result(c, FALSE) : c \in left})])

\* applyChatSummary: what the summary stands for is left out, if it is on this
\* branch (the summary itself is one more user message in front).
Summarised(path, upto) ==
    LET at == {i \in 1..(Len(path) - 1) : path[i] = upto}
        from == IF at = {} THEN 1 ELSE 1 + CHOOSE i \in at : TRUE
    IN SubSeq(path, from, Len(path))

\* toLLMMessages
Prompt(path, upto) == Repair([i \in DOMAIN Summarised(path, upto) |-> msgs[Summarised(path, upto)[i]]])

-----------------------------------------------------------------------------
(* Submissions.                                                            *)

\* submit, for a chat that is idle or busy.
Submit(sub) ==
    /\ count.runs < MaxRuns
    /\ count' = [count EXCEPT !.runs = @ + 1]
    /\ IF active = Nil
         THEN /\ active' = Active(count.runs + 1, sub)
              /\ UNCHANGED queue
         ELSE /\ queue' = Append(queue, [id |-> count.runs + 1, sub |-> sub])
              /\ UNCHANGED active

\* Post, under the active leaf or a message of the chat.
Post(p) ==
    /\ Submit(Sub(0, TRUE, p # 0, p))
    /\ UNCHANGED <<msgs, leaf, last, mark, checked, mail, was>>

\* Branch looks whether a run is active; what it does then comes later.
CheckBranch(from, edit) ==
    /\ active = Nil /\ checked = Nil
    /\ \/ msgs[from].role = "user" /\ edit
          /\ checked' = [append |-> FALSE, sub |-> Sub(0, TRUE, TRUE, msgs[from].parent)]
       \/ msgs[from].role = "assistant" /\ ~edit /\ msgs[from].parent # 0
          /\ checked' = [append |-> FALSE, sub |-> Sub(msgs[from].parent, FALSE, FALSE, 0)]
       \/ msgs[from].role = "user" /\ ~edit
          /\ checked' = [append |-> FALSE, sub |-> Sub(from, FALSE, FALSE, 0)]
       \/ msgs[from].role = "assistant" /\ edit
          /\ checked' = [append |-> TRUE, sub |-> Sub(0, TRUE, TRUE, msgs[from].parent)]
    /\ UNCHANGED <<msgs, leaf, last, mark, active, queue, mail, was, count>>

Branch ==
    /\ checked # Nil /\ checked' = Nil
    /\ IF checked.append
         THEN /\ AppendTx(Msg(checked.sub.parent, "assistant", {}, Nil, 0))
              /\ UNCHANGED <<active, queue, count>>
         ELSE Submit(checked.sub) /\ UNCHANGED <<msgs, leaf, last, was>>
    /\ UNCHANGED <<mark, mail>>

-----------------------------------------------------------------------------
(* The run.                                                                *)

At(pc) == active # Nil /\ active.pc = pc

\* The run returned from execute; nothing of its state is used again.
Ended == [Active(active.id, Nil) EXCEPT !.pc = "done"]

\* appendPending re-points the chat ...
Point ==
    /\ At("point")
    /\ active' = [active EXCEPT !.pc = "read"]
    /\ IF active.sub.point = 0 THEN UNCHANGED <<leaf, last, was>> ELSE SetLeafTx(active.sub.point)
    /\ UNCHANGED <<msgs, mark, queue, checked, mail, count>>

\* ... reads the leaf ...
ReadLeaf ==
    /\ At("read")
    /\ active' = IF active.sub.has
                   THEN [active EXCEPT !.pc = "append", !.sub.parent = IF active.sub.explicit THEN @ ELSE leaf]
                   ELSE [active EXCEPT !.pc = "first", !.leaf = leaf, !.sub = Nil]
    /\ UNCHANGED <<msgs, leaf, last, mark, queue, checked, mail, was, count>>

\* ... and appends the message the run is for.
AppendTrigger ==
    /\ At("append")
    /\ AppendTx(Msg(active.sub.parent, "user", {}, Nil, active.id))
    /\ active' = [active EXCEPT !.pc = "first", !.leaf = Len(msgs'), !.sub = Nil]
    /\ UNCHANGED <<mark, queue, checked, mail, count>>

\* The store fails, or the run is cancelled, before there is anything to do.
MaterializeFails ==
    /\ At("point") \/ At("read") \/ At("append")
    /\ active' = Ended
    /\ UNCHANGED <<msgs, leaf, last, mark, queue, checked, mail, was, count>>

\* compactNow: all but the end of the path is summarised.
CompactNow ==
    LET path == PathTo(msgs, leaf) IN
    \E keep \in KeepMin..(Len(path) - 2) : mark' = path[Len(path) - keep]

\* A /compact or /optimize_skills message is answered by the hub itself ...
Command ==
    /\ At("first")
    /\ active' = [active EXCEPT !.pc = "reply"]
    /\ CompactNow \/ UNCHANGED mark
    /\ UNCHANGED <<msgs, leaf, last, queue, checked, mail, was, count>>

\* ... with a message below its own leaf ...
Reply ==
    /\ At("reply")
    /\ AppendTx(Msg(active.leaf, "assistant", {}, Nil, 0))
    /\ active' = [active EXCEPT !.pc = "repoint", !.leaf = Len(msgs')]
    /\ UNCHANGED <<mark, queue, checked, mail, count>>

\* ... that becomes the chat's leaf once more.
Repoint ==
    /\ At("repoint")
    /\ SetLeafTx(active.leaf)
    /\ active' = Ended
    /\ UNCHANGED <<msgs, mark, queue, checked, mail, count>>

\* turn reads the chat, with its summary ...
ReadChat ==
    /\ At("first") \/ At("turn")
    /\ active' = [active EXCEPT !.pc = "load", !.upto = mark]
    /\ UNCHANGED <<msgs, leaf, last, mark, queue, checked, mail, was, count>>

\* ... the conversation, from the chat's active leaf ...
Load ==
    /\ At("load")
    /\ active' = [active EXCEPT !.pc = "ready", !.path = PathTo(msgs, leaf)]
    /\ UNCHANGED <<msgs, leaf, last, mark, queue, checked, mail, was, count>>

\* ... compresses it once per run if it is long, and then loads it again ...
Compact ==
    /\ At("ready") /\ ~active.compacted
    /\ CompactNow
    /\ active' = [active EXCEPT !.pc = "load", !.compacted = TRUE]
    /\ UNCHANGED <<msgs, leaf, last, queue, checked, mail, was, count>>

\* ... and appends the answer below the run's own leaf.
Answer(calls) ==
    /\ At("ready")
    /\ AppendTx(Msg(active.leaf, "assistant", calls, Nil, active.id))
    /\ active' = IF calls = {} THEN Ended
                   ELSE [active EXCEPT !.pc = "tools", !.leaf = Len(msgs'), !.left = calls,
                                       !.path = <<>>, !.upto = 0]
    /\ UNCHANGED <<mark, queue, checked, mail, count>>

\* The run ends before its turn, or with one that failed or said nothing.
NoAnswer ==
    /\ At("first") \/ At("turn") \/ At("load") \/ At("ready") \/ At("reply")
    /\ active' = Ended
    /\ UNCHANGED <<msgs, leaf, last, mark, queue, checked, mail, was, count>>

\* Call c of the turn is over, and with the last one the turn.
CallOver(c, cancelled, l) ==
    IF active.left = {c} /\ cancelled THEN Ended
      ELSE [active EXCEPT !.left = @ \ {c}, !.leaf = l, !.pc = IF active.left = {c} THEN "turn" ELSE @]

\* Mutant: the result goes below the chat's active leaf.
ResultAtLeaf(c, cancelled) ==
    /\ At("tools") /\ c \in active.left
    /\ AppendTx(Msg(leaf, "tool", {}, c, active.id))
    /\ active' = CallOver(c, cancelled, Len(msgs'))
    /\ UNCHANGED <<mark, queue, checked, mail, count>>

\* persistToolResult, under leafMu, in the order the calls end.
ToolResult(c, cancelled) ==
    /\ At("tools") /\ c \in active.left
    /\ AppendTx(Msg(active.leaf, "tool", {}, c, active.id))
    /\ active' = CallOver(c, cancelled, Len(msgs'))
    /\ UNCHANGED <<mark, queue, checked, mail, count>>

\* The store refuses the result, which is then only logged.
ResultLost(c, cancelled) ==
    /\ At("tools") /\ c \in active.left
    /\ active' = CallOver(c, cancelled, active.leaf)
    /\ UNCHANGED <<msgs, leaf, last, mark, queue, checked, mail, was, count>>

\* finish promotes the next submission.
Finish ==
    /\ At("done")
    /\ IF queue = <<>>
         THEN active' = Nil /\ UNCHANGED queue
         ELSE /\ active' = Active(Head(queue).id, Head(queue).sub)
              /\ queue' = Tail(queue)
    /\ UNCHANGED <<msgs, leaf, last, mark, checked, mail, was, count>>

\* finishQueued: a submission is cancelled before its turn.
CancelQueued(i) ==
    /\ queue' = RemoveAt(queue, i)
    /\ UNCHANGED <<msgs, leaf, last, mark, active, checked, mail, was, count>>

-----------------------------------------------------------------------------
(* Others.                                                                 *)

\* PATCH /api/chats/{id} with selectMessageId or activeLeafId.
Select(m, deep) ==
    /\ count.others < MaxOthers
    /\ count' = [count EXCEPT !.others = @ + 1]
    /\ SetLeafTx(IF deep THEN Deepest(m) ELSE m)
    /\ UNCHANGED <<msgs, mark, active, queue, checked, mail>>

\* Mail for an agent that does not wake, a message refused by the lifetime
\* budget, and either side of a bridge chat: the leaf is read ...
MailRead(w) ==
    /\ mail[w] = Nil /\ count.others < MaxOthers
    /\ count' = [count EXCEPT !.others = @ + 1]
    /\ mail' = [mail EXCEPT ![w] = leaf]
    /\ UNCHANGED <<msgs, leaf, last, mark, active, queue, checked, was>>

\* ... and the message appended below it.
MailAppend(w) ==
    /\ mail[w] # Nil
    /\ AppendTx(Msg(mail[w], "user", {}, Nil, 0))
    /\ mail' = [mail EXCEPT ![w] = Nil]
    /\ UNCHANGED <<mark, active, queue, checked, count>>

\* The hub dies and starts again: runs are interrupted, the transcript stays.
Crash ==
    /\ count.others < MaxOthers
    /\ count' = [count EXCEPT !.others = @ + 1]
    /\ active' = Nil /\ queue' = <<>> /\ checked' = Nil
    /\ mail' = [w \in Writers |-> Nil]
    /\ UNCHANGED <<msgs, leaf, last, mark, was>>

-----------------------------------------------------------------------------

Next ==
    \/ \E p \in {0} \cup Known : Post(p)
    \/ \E from \in Known, edit \in BOOLEAN : CheckBranch(from, edit)
    \/ Branch
    \/ Point \/ ReadLeaf \/ AppendTrigger \/ MaterializeFails
    \/ Command \/ Reply \/ Repoint
    \/ ReadChat \/ Load \/ Compact \/ NoAnswer \/ Finish
    \/ \E i \in DOMAIN queue : CancelQueued(i)
    \/ \E calls \in SUBSET Calls : Answer(calls)
    \/ \E c \in Calls, cancelled \in BOOLEAN : ToolResult(c, cancelled) \/ ResultLost(c, cancelled)
    \/ \E m \in Known, deep \in BOOLEAN : Select(m, deep)
    \/ \E w \in Writers : MailRead(w) \/ MailAppend(w)
    \/ Crash

Spec == Init /\ [][Next]_vars

-----------------------------------------------------------------------------
(* Properties.                                                             *)

TypeOK ==
    /\ \A m \in Known : /\ msgs[m].parent \in 0..(m - 1)
                        /\ msgs[m].role \in {"user", "assistant", "tool"}
                        /\ msgs[m].calls \subseteq Calls /\ msgs[m].answers \in Calls \cup {Nil}
    /\ leaf \in {0} \cup Known /\ mark \in {0} \cup Known
    /\ \A m \in Ids : last[m] # 0 => last[m] \in Known /\ msgs[last[m]].parent = m
    /\ active # Nil => active.leaf \in {0} \cup Known /\ active.left \subseteq Calls

\* A6: selecting a message leads back to where the conversation last was below
\* it (or further down), whatever runs and people did to other branches.
BranchRemembered == \A m \in Known : was[m] # 0 => was[m] \in On(msgs, Deepest(m))

\* R6: "the DAG stays a chain": what a run appends is one chain below its
\* trigger, also when the leaf of the chat moves under it.
RunIsChain ==
    \A x, y \in Known : x < y /\ msgs[x].run = msgs[y].run /\ msgs[x].run # 0 => x \in On(msgs, y)

\* A sequence a provider accepts: each call is answered once, right after it.
Paired(s) ==
    /\ \A i \in DOMAIN s : ~Tool(s, i) =>
          LET block == (i + 1)..(i + Cardinality(s[i].calls)) IN
          /\ block \subseteq DOMAIN s
          /\ \A j \in block : Tool(s, j)
          /\ {s[j].answers : j \in block} = s[i].calls
    /\ \A j \in DOMAIN s : Tool(s, j) =>
          \E i \in 1..(j - 1) : ~Tool(s, i) /\ j <= i + Cardinality(s[i].calls)

\* Whatever was lost, cut off by a summary or put in between, every branch can
\* be sent to the model: repairToolPairs pairs all calls with results.
PromptIsPaired == \A x \in Known : Paired(Prompt(PathTo(msgs, x), mark))

\* repairToolPairs replaces no result that was recorded: the results of the
\* run's last calls are what the model is shown, unless the summary has them or
\* the chat was pointed elsewhere.
ResultsAreShown ==
    (At("ready") /\ active.path # <<>> /\ Last(active.path) = active.leaf) =>
        LET p == Prompt(active.path, active.upto)
            InPath(x) == \E i \in DOMAIN active.path : active.path[i] = x
        IN \A x, r \in Known :
             /\ InPath(x) /\ InPath(r) /\ x < r /\ active.upto < x
             /\ msgs[r].run = active.id /\ msgs[x].run = active.id /\ msgs[r].answers \in msgs[x].calls
             /\ \A y \in Known : msgs[y].calls # {} => y <= x
             => \E i \in DOMAIN p : Tool(p, i) /\ p[i].answers = msgs[r].answers /\ p[i].real

\* "compress before the call": a turn that had the conversation compressed
\* sends the summary in place of what it stands for.  Violated: the README says how.
CompactionCounts ==
    At("ready") /\ active.compacted =>
        mark \notin ToSet(Summarised(active.path, active.upto))
=============================================================================
