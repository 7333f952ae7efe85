------------------------------ MODULE ChatMail ------------------------------
(***************************************************************************)
(* Chats that work for one another: a run spawns a child chat and gives it *)
(* a task, sends to the chats it can reach and reports to its parent; the  *)
(* answer to a task comes back as a message when the child's run ends.     *)
(* People post (with an idempotency key), make child chats, cancel runs,   *)
(* connect chats, switch auto-wake and delete chats and agents meanwhile.  *)
(* Every transaction is a step; what a run or a request read before it is  *)
(* in its local state.  Slots, budgets and turns are RunScheduler's, the   *)
(* message tree is Transcript's, grants are AgentTree's.                   *)
(***************************************************************************)
EXTENDS Naturals, Sequences, FiniteSets

CONSTANTS Humans,     \* requests in flight
          Keys,       \* idempotency keys
          MaxRecs,    \* bound: execution records ever created
          MaxChats,   \* bound: chats ever created
          MaxMsgs,    \* bound: messages, and the runs they start
          MaxReqs,    \* bound: requests of people
          MaxActs,    \* bound: requests that are no post come among the first MaxActs
          MaxWindows, \* bound: windows of a key that run out
          MaxStops    \* bound: crashes of the hub

\* A run without a key has the claim <<0, 0>>.
ASSUME MailAssumption == 0 \notin Keys /\ MaxWindows \in Nat /\ MaxChats \in Nat \ {0}

VARIABLES recs,       \* agents: id -> [up, wake, dead]
          chats,      \* chats: id -> [rec, up]
          edges,      \* allowed edges, as sets of two records
          msgs,       \* messages: [id, chat, kind, to] (to: the task answered)
          inbox,      \* mailbox items, by message
          runs,       \* id -> the run the message id started
          line,       \* chatActive and chatQueue: the runs of a chat in order
          keys,       \* idempotency_keys: key -> [run, win]; run 0: no row
          age,        \* key -> how many windows have run out on it
          won,        \* claim -> the run it was won for (history)
          said,       \* claim -> the runs its posts were answered with (history)
          req,        \* what each person's request is about to do
          lastId, lastRec, lastChat, reqs, stops
claims == <<keys, age, won, said>>
mvars == <<recs, chats, edges, msgs, inbox, runs, line, claims, req,
           lastId, lastRec, lastChat, reqs, stops>>
tables == <<recs, chats, edges, msgs, inbox>>

Zero == 0
Free == [at |-> "free"]
NoOp == [at |-> "none"]
NoRoute == [rec |-> Zero, chat |-> Zero]
\* A key and the window it is claimed in.
KeyWindows  == Keys \X (0..MaxWindows)
NoClaim == <<Zero, Zero>>
Set(f, k, v) == [x \in DOMAIN f \cup {k} |-> IF x = k THEN v ELSE f[x]]
Cut(f, S)    == [x \in DOMAIN f \ S |-> f[x]]

\* One chat of a person; its record is a root and wakes on mail.
MInit ==
  /\ recs = <<[up |-> Zero, wake |-> TRUE, dead |-> FALSE]>>
  /\ chats = <<[rec |-> 1, up |-> Zero]>>
  /\ edges = {} /\ msgs = {} /\ inbox = {} /\ runs = <<>>
  /\ line = [c \in 1..MaxChats |-> <<>>]
  /\ keys = [k \in Keys |-> [run |-> Zero, win |-> 0]] /\ age = [k \in Keys |-> 0]
  /\ won = [t \in KeyWindows |-> Zero] /\ said = [t \in KeyWindows |-> {}]
  /\ req = [p \in Humans |-> Free]
  /\ lastId = 0 /\ lastRec = 1 /\ lastChat = 1 /\ reqs = 0 /\ stops = 0

-----------------------------------------------------------------------------
(* The tables. *)

Live(a) == a \in DOMAIN recs /\ ~recs[a].dead
ChatsOf(a) == {c \in DOMAIN chats : chats[c].rec = a}

\* ancestors and descendants, by the parent links of records or of chats
Below(up, S) ==
  LET deep == Cardinality(DOMAIN up)
      reach[n \in 0..deep] ==
        IF n = 0 THEN S
        ELSE LET R == reach[n - 1] IN R \cup {x \in DOMAIN up : up[x].up \in R}
  IN  reach[deep]

\* primaryChat: some chat of the record, else a fresh one; the record may be
\* gone by then.  The candidates, each with the table it leaves.
PrimaryChat(a) ==
  IF ChatsOf(a) # {} THEN {[id |-> c, table |-> chats, last |-> lastChat] : c \in ChatsOf(a)}
  ELSE IF a \in DOMAIN recs /\ lastChat < MaxChats
    THEN {[id |-> lastChat + 1, last |-> lastChat + 1,
           table |-> Set(chats, lastChat + 1, [rec |-> a, up |-> Zero])]}
    ELSE {}

\* callerChat: the chat of the run while it exists.
CallerChat(r) ==
  IF runs[r].chat \in DOMAIN chats
    THEN {[id |-> runs[r].chat, table |-> chats, last |-> lastChat]}
    ELSE PrimaryChat(runs[r].rec)

\* reachable: parent, children and the records an allowed edge leads to.
Reachable(a) ==
  {b \in DOMAIN recs \ {a} : /\ Live(b)
                             /\ recs[a].up = b \/ recs[b].up = a \/ {a, b} \in edges}

-----------------------------------------------------------------------------
(* Delivery. *)

NewRun(c, a, kind, to, route, key) ==
  [chat |-> c, rec |-> a, kind |-> kind, to |-> to, route |-> route, key |-> key,
   st |-> "waiting", stopped |-> FALSE, lost |-> FALSE, op |-> NoOp]

Msg(id, r) == [id |-> id, chat |-> r.chat, kind |-> r.kind, to |-> r.to]

\* submit with the run `r`: refused by the lifetime budget (the message is
\* kept, the run is recorded as done and its route forgotten), put in the
\* chat's line, or refused by the foreign keys.  `base` is the other runs.
Submit(base, id, r) ==
  IF r.chat \in DOMAIN chats /\ r.rec \in DOMAIN recs
    THEN \/ /\ msgs' = msgs \cup {Msg(id, r)} /\ UNCHANGED line
            /\ runs' = Set(base, id, [r EXCEPT !.st = "done", !.stopped = TRUE])
         \/ /\ runs' = Set(base, id, r) /\ UNCHANGED msgs
            /\ line' = [line EXCEPT ![r.chat] = Append(@, id)]
    ELSE runs' = base /\ UNCHANGED <<line, msgs>>

\* deliverChatMessage: into the recipient's chat and its line, or, when the
\* record does not wake, into its chat and its mailbox; the second insert may
\* fail and leave the first.  The record is as it was when it was looked up.
Deliver(base, r, wake) ==
  LET id == lastId + 1 IN
  /\ lastId < MaxMsgs /\ lastId' = id
  /\ IF wake THEN Submit(base, id, r) /\ UNCHANGED inbox
     ELSE /\ runs' = base /\ UNCHANGED line
          /\ IF r.chat \in DOMAIN chats
               THEN msgs' = msgs \cup {Msg(id, r)} /\ inbox' \in {inbox, inbox \cup {id}}
               ELSE UNCHANGED <<msgs, inbox>>

-----------------------------------------------------------------------------
(* The life of a run, as far as mail goes. *)

InLine(r) == \E i \in 1..Len(line[runs[r].chat]) : line[runs[r].chat][i] = r
Heads(r)  == line[runs[r].chat] # <<>> /\ Head(line[runs[r].chat]) = r
At(r, st) == [runs EXCEPT ![r].st = st]
Does(r, op) == [runs EXCEPT ![r].op = op]

\* materialize: the message is appended when its run has the chat; a chat that
\* is gone, or a cancelled run, fails the run instead.
Materialize(r) ==
  /\ runs[r].st = "waiting" /\ Heads(r)
  /\ IF runs[r].chat \in DOMAIN chats /\ ~runs[r].stopped
       THEN msgs' = msgs \cup {Msg(r, runs[r])} /\ runs' = At(r, "active")
       ELSE UNCHANGED msgs /\ runs' = [runs EXCEPT ![r].st = "active", ![r].stopped = TRUE]
  /\ UNCHANGED <<recs, chats, edges, inbox, line, claims, req, lastId, lastRec, lastChat, reqs, stops>>

\* finish, up to the point where the run is forgotten.
Finish(r) ==
  /\ runs[r].st = "active" /\ runs[r].op = NoOp
  /\ runs' = At(r, "ending")
  /\ UNCHANGED <<tables, line, claims, req, lastId, lastRec, lastChat, reqs, stops>>

\* Whether the answer of r still has somewhere to go.
Routable(r) ==
  /\ runs[r].rec \in DOMAIN recs /\ Live(runs[r].route.rec)
  /\ runs[r].route.chat \in DOMAIN chats /\ runs[r].chat \in DOMAIN chats

Reply(r, back) ==
  LET to == runs[r].route
      sent == At(r, "answered")
  IN
  /\ runs[r].st = "ending" /\ to # NoRoute
  /\ IF Routable(r)
       THEN \/ Deliver(sent, NewRun(to.chat, to.rec, "reply", r, back, NoClaim), recs[to.rec].wake)
            \/ runs' = [sent EXCEPT ![r].lost = TRUE] /\ UNCHANGED <<msgs, inbox, line, lastId>>
       ELSE runs' = sent /\ UNCHANGED <<msgs, inbox, line, lastId>>
  /\ UNCHANGED <<recs, chats, edges, claims, req, lastRec, lastChat, reqs, stops>>

\* Mutant: only a chat that is idle is told the answer.
ReplyIfIdle(r) ==
  /\ runs[r].route # NoRoute
  /\ \/ line[runs[r].route.chat] = <<>> /\ Reply(r, NoRoute)
     \/ /\ runs[r].st = "ending" /\ line[runs[r].route.chat] # <<>>
        /\ runs' = At(r, "answered")
        /\ UNCHANGED <<tables, line, claims, req, lastId, lastRec, lastChat, reqs, stops>>

\* Mutant: the answer to an answer is routed back as well.
PingPong(r) == Reply(r, [rec |-> runs[r].rec, chat |-> runs[r].chat])

\* deliverReply: the answer goes to the chat the task came from, if both
\* records and both chats are still there; it has no route of its own.  A store
\* that fails meanwhile is logged, and the answer is lost.
DeliverReply(r) == Reply(r, NoRoute)

\* finish, its end: the next run in line has the chat.
Promote(r) ==
  /\ runs[r].st = "answered" \/ (runs[r].st = "ending" /\ runs[r].route = NoRoute)
  /\ runs' = At(r, "done")
  /\ line' = [line EXCEPT ![runs[r].chat] = Tail(@)]
  /\ UNCHANGED <<tables, claims, req, lastId, lastRec, lastChat, reqs, stops>>

\* cancelRunState of the runs in S that are not forgotten yet: one behind
\* another in line is dropped on the spot, and answers nobody.
Behind(r) == runs[r].st = "waiting" /\ ~Heads(r)
Dropping(q, D) ==
  LET left == {i \in 1..Len(q) : q[i] \notin D}
      at(n) == CHOOSE i \in left : Cardinality({j \in left : j <= i}) = n
  IN  [n \in 1..Cardinality(left) |-> q[at(n)]]
StopRuns(S) ==
  /\ runs' = [r \in DOMAIN runs |->
       IF r \notin S \/ runs[r].st \notin {"waiting", "active"} THEN runs[r]
       ELSE [runs[r] EXCEPT !.stopped = TRUE, !.st = IF Behind(r) THEN "done" ELSE @]]
  /\ line' = [c \in DOMAIN line |-> Dropping(line[c], {r \in S \cap DOMAIN runs : Behind(r)})]

-----------------------------------------------------------------------------
(* The tools a run calls, one at a time here. *)

Working(r) == runs[r].st = "active" /\ ~runs[r].stopped
OpDone(r) == Does(r, NoOp)
Calm == UNCHANGED <<edges, claims, req, reqs, stops>>
NoMail == UNCHANGED <<msgs, inbox, line, lastId>>

\* createAgent's insert below `up`: the parent must be live, and the limit on
\* children or the context of the caller may refuse it.
CanAddRecord(up) == lastRec < MaxRecs /\ (up # Zero => Live(up))
AddRecord(up) ==
  /\ recs' = Set(recs, lastRec + 1, [up |-> up, wake |-> TRUE, dead |-> FALSE])
  /\ lastRec' = lastRec + 1

\* ... and of its chat, in a transaction of its own; the parent chat is not a
\* foreign key.
CanAddChat(a) == lastChat < MaxChats /\ a \in DOMAIN recs
AddChat(a, up) ==
  /\ chats' = Set(chats, lastChat + 1, [rec |-> a, up |-> up])
  /\ lastChat' = lastChat + 1

\* toolSpawn: the calling chat is looked up ...
ToolSpawn(r) ==
  /\ Working(r) /\ runs[r].op = NoOp /\ Calm /\ NoMail
  /\ \E c \in CallerChat(r) :
       /\ chats' = c.table /\ lastChat' = c.last
       /\ runs' = Does(r, [at |-> "record", from |-> c.id])
  /\ UNCHANGED <<recs, lastRec>>

\* ... the record is made ...
SpawnRecord(r) ==
  LET op == runs[r].op IN
  /\ op.at = "record" /\ Calm /\ NoMail /\ UNCHANGED <<chats, lastChat>>
  /\ IF runs[r].stopped \/ ~CanAddRecord(runs[r].rec)
       THEN runs' = OpDone(r) /\ UNCHANGED <<recs, lastRec>>
       ELSE /\ AddRecord(runs[r].rec)
            /\ runs' = Does(r, [at |-> "chat", from |-> op.from, rec |-> lastRec + 1])

\* ... then its chat ...
SpawnChat(r) ==
  LET op == runs[r].op IN
  /\ op.at = "chat" /\ Calm /\ NoMail /\ UNCHANGED <<recs, lastRec>>
  /\ IF runs[r].stopped \/ ~CanAddChat(op.rec)
       THEN runs' = OpDone(r) /\ UNCHANGED <<chats, lastChat>>
       ELSE /\ AddChat(op.rec, op.from)
            /\ runs' = Does(r, [at |-> "task", from |-> op.from, rec |-> op.rec,
                                     chat |-> lastChat + 1])

\* ... and the task, if there is one, is delivered with a route back.
SpawnTask(r) ==
  LET op == runs[r].op IN
  /\ op.at = "task" /\ Calm /\ UNCHANGED <<recs, chats, lastRec, lastChat>>
  /\ \/ runs' = OpDone(r) /\ NoMail
     \/ /\ ~runs[r].stopped
        /\ Deliver(OpDone(r), NewRun(op.chat, op.rec, "spawn", Zero,
                     [rec |-> runs[r].rec, chat |-> op.from], NoClaim), TRUE)

\* toolSend and toolReport: whom, ...
ToolSend(r) ==
  /\ Working(r) /\ runs[r].op = NoOp /\ Calm /\ NoMail
  /\ runs[r].rec \in DOMAIN recs
  /\ \E b \in Reachable(runs[r].rec) : \E at \in {"send", "report"} :
       /\ at = "report" => recs[runs[r].rec].up = b
       /\ runs' = Does(r, [at |-> at, to |-> b, wake |-> recs[b].wake])
  /\ UNCHANGED <<recs, chats, lastRec, lastChat>>

\* a report goes to the chat the caller was spawned from, if it is the parent's
Spawner(r, b) == {c \in DOMAIN chats : /\ runs[r].chat \in DOMAIN chats
                                       /\ chats[runs[r].chat].up = c /\ chats[c].rec = b}

\* ... in which of its chats ...
SendChat(r) ==
  LET op == runs[r].op IN
  /\ op.at \in {"send", "report"} /\ Calm /\ NoMail /\ UNCHANGED <<recs, lastRec>>
  /\ LET own == IF op.at = "report" THEN Spawner(r, op.to) ELSE {}
         to == IF own # {} THEN {[id |-> c, table |-> chats, last |-> lastChat] : c \in own}
               ELSE PrimaryChat(op.to)
     IN  IF to = {} \/ runs[r].stopped
           THEN runs' = OpDone(r) /\ UNCHANGED <<chats, lastChat>>
           ELSE \E c \in to : /\ chats' = c.table /\ lastChat' = c.last
                              /\ runs' = Does(r, [at |-> "mail", to |-> op.to,
                                                       wake |-> op.wake, chat |-> c.id])

\* ... and delivered there, without a route.
SendMail(r) ==
  LET op == runs[r].op IN
  /\ op.at = "mail" /\ Calm /\ UNCHANGED <<recs, lastRec, chats, lastChat>>
  /\ \/ /\ lastId = MaxMsgs \/ runs[r].stopped \/ CallerChat(r) = {}
        /\ runs' = OpDone(r) /\ NoMail
     \/ /\ ~runs[r].stopped /\ CallerChat(r) # {}
        /\ Deliver(OpDone(r), NewRun(op.chat, op.to, "message", Zero, NoRoute, NoClaim), op.wake)

\* toolList gives a reachable record without a chat a chat.
ToolList(r) ==
  /\ Working(r) /\ runs[r].op = NoOp /\ Calm /\ NoMail
  /\ runs[r].rec \in DOMAIN recs
  /\ \E b \in Reachable(runs[r].rec) : /\ ChatsOf(b) = {} /\ CanAddChat(b) /\ AddChat(b, Zero)
  /\ UNCHANGED <<recs, lastRec, runs>>

\* toolStop: the runs of a descendant and of everything below it.
ToolStop(r) ==
  /\ Working(r) /\ runs[r].op = NoOp /\ Calm
  /\ \E b \in Below(recs, {runs[r].rec}) \ {runs[r].rec} :
       StopRuns({x \in DOMAIN runs : runs[x].rec \in Below(recs, {b})})
  /\ UNCHANGED <<recs, chats, msgs, inbox, lastId, lastRec, lastChat>>

-----------------------------------------------------------------------------
(* Requests of people. *)

Start(p, rec) == /\ req[p] = Free /\ reqs < MaxReqs /\ reqs' = reqs + 1
                 /\ req' = [req EXCEPT ![p] = rec]
Acts == reqs < MaxActs
Go(p, rec) == req' = [req EXCEPT ![p] = rec] /\ UNCHANGED reqs
Fixed == UNCHANGED <<recs, chats, lastRec, lastChat, edges, stops>>

\* Post: the chat and its record are live when it begins ...
Post(p, c, k) ==
  /\ c \in DOMAIN chats /\ Live(chats[c].rec)
  /\ Start(p, [at |-> "claim", chat |-> c, rec |-> chats[c].rec, key |-> k])
  /\ Fixed /\ NoMail /\ UNCHANGED <<runs, claims>>

Fresh(k) == keys[k].run # Zero /\ keys[k].win = age[k]
Claimed(q) == [at |-> "submit", chat |-> q.chat, rec |-> q.rec, key |-> <<q.key, age[q.key]>>,
               id |-> lastId + 1]

\* The request p takes the key, in the window `win` as the row tells it.
TakeKey(p, win) ==
  LET q == req[p] IN
  /\ lastId < MaxMsgs /\ lastId' = lastId + 1
  /\ keys' = [keys EXCEPT ![q.key] = [run |-> lastId + 1, win |-> win]]
  /\ won' = [won EXCEPT ![<<q.key, age[q.key]>>] = lastId + 1]
  /\ Go(p, Claimed(q)) /\ UNCHANGED <<age, said>>

\* ... ClaimIdempotencyKey, one transaction: the first claim in a window names
\* the run, a repeat is answered with it.
ClaimIn(p, win) ==
  LET q == req[p] IN
  /\ q.at = "claim" /\ Fixed /\ UNCHANGED <<runs, msgs, inbox, line>>
  /\ IF Fresh(q.key)
       THEN /\ Go(p, Free) /\ UNCHANGED <<keys, age, won, lastId>>
            /\ said' = [said EXCEPT ![<<q.key, age[q.key]>>] = @ \cup {keys[q.key].run}]
       ELSE TakeKey(p, win)

\* Mutant: a claim that takes over a stale row leaves its date.
ClaimKeepsDate(p) == req[p].at = "claim" /\ ClaimIn(p, keys[req[p].key].win)

Claim(p) == req[p].at = "claim" /\ ClaimIn(p, age[req[p].key])

\* ... and the post is validated and submitted, or fails with the key taken.
PostSubmit(p) ==
  LET q == req[p] IN
  /\ q.at = "submit" /\ Go(p, Free) /\ Fixed /\ UNCHANGED <<keys, age, won, lastId, inbox>>
  /\ \/ UNCHANGED <<runs, msgs, line, said>>
     \/ /\ Submit(runs, q.id, NewRun(q.chat, q.rec, "human", Zero, NoRoute, q.key))
        /\ said' = IF q.id \in DOMAIN runs' THEN [said EXCEPT ![q.key] = @ \cup {q.id}] ELSE said

\* IdempotencyWindow passes since the key was claimed ...
Expire(k) ==
  /\ Fresh(k) /\ age[k] < MaxWindows
  /\ age' = [age EXCEPT ![k] = @ + 1]
  /\ Fixed /\ NoMail /\ UNCHANGED <<runs, keys, won, said, req, reqs>>

\* ... and the janitor's PurgeRuns deletes the rows that are that old.
PurgeRuns ==
  /\ \E k \in Keys : keys[k].run # Zero /\ ~Fresh(k)
  /\ keys' = [k \in Keys |-> IF Fresh(k) THEN keys[k] ELSE [keys[k] EXCEPT !.run = Zero]]
  /\ Fixed /\ NoMail /\ UNCHANGED <<runs, age, won, said, req, reqs>>

\* CreateChat of a person, below a chat: the record, then the chat.
CreateChat(p, c) ==
  /\ c \in DOMAIN chats /\ Live(chats[c].rec) /\ Acts
  /\ Start(p, [at |-> "record", from |-> c, rec |-> chats[c].rec])
  /\ Fixed /\ NoMail /\ UNCHANGED <<runs, claims>>

CreateRecord(p) ==
  LET q == req[p] IN
  /\ q.at = "record" /\ NoMail /\ UNCHANGED <<chats, lastChat, edges, stops, runs, claims>>
  /\ IF CanAddRecord(q.rec)
       THEN AddRecord(q.rec) /\ Go(p, [q EXCEPT !.at = "chat", !.rec = lastRec + 1])
       ELSE Go(p, Free) /\ UNCHANGED <<recs, lastRec>>

CreateItsChat(p) ==
  LET q == req[p] IN
  /\ q.at = "chat" /\ Go(p, Free)
  /\ NoMail /\ UNCHANGED <<recs, lastRec, edges, stops, runs, claims>>
  /\ IF CanAddChat(q.rec) THEN AddChat(q.rec, q.from) ELSE UNCHANGED <<chats, lastChat>>

\* CancelRun, SetEdge and the auto_wake of UpdateAgent take effect at once.
Spend == Acts /\ reqs' = reqs + 1 /\ UNCHANGED req
CancelRun(r) == /\ Spend /\ runs[r].st \in {"waiting", "active"} /\ StopRuns({r})
                /\ Fixed /\ UNCHANGED <<msgs, inbox, lastId, claims>>

SetEdge(a, b) == /\ Spend /\ a # b /\ Live(a) /\ Live(b)
                 /\ edges' = IF {a, b} \in edges THEN edges \ {{a, b}} ELSE edges \cup {{a, b}}
                 /\ NoMail /\ UNCHANGED <<recs, chats, lastRec, lastChat, stops, runs, claims>>

SetWake(a) == /\ Spend /\ Live(a)
              /\ recs' = [recs EXCEPT ![a].wake = ~@]
              /\ NoMail /\ UNCHANGED <<chats, edges, lastRec, lastChat, stops, runs, claims>>

\* DeleteChat and DeleteAgent stop the runs they find below ...
DeleteChat(p, c) ==
  /\ c \in DOMAIN chats /\ Acts
  /\ Start(p, [at |-> "cascade", chat |-> c])
  /\ StopRuns({r \in DOMAIN runs : runs[r].chat \in Below(chats, {c})})
  /\ Fixed /\ UNCHANGED <<msgs, inbox, lastId, claims>>

DeleteAgent(p, a) ==
  /\ Live(a) /\ Acts
  /\ \E hard \in BOOLEAN : Start(p, [at |-> IF hard THEN "hard" ELSE "soft", rec |-> a])
  /\ StopRuns({r \in DOMAIN runs : runs[r].rec \in Below(recs, {a})})
  /\ Fixed /\ UNCHANGED <<msgs, inbox, lastId, claims>>

\* ... wait for them, at most five seconds, and delete what is there by then.
\* What goes with the chats C and the records R:
Remove(C, R) ==
  LET D == C \cup {c \in DOMAIN chats : chats[c].rec \in R}
      kept == Cut(chats, D)
  IN
  /\ recs' = Cut(recs, R)
  /\ chats' = [c \in DOMAIN kept |-> [kept[c] EXCEPT !.up = IF @ \in D THEN Zero ELSE @]]
  /\ msgs' = {m \in msgs : m.chat \notin D}
  /\ inbox' = {i \in inbox : \A m \in msgs : m.id = i => m.chat \notin D}
  /\ edges' = {e \in edges : e \cap R = {}}

\* The records of the deleted chats that no other chat uses and that have no
\* live child outside this set.
Doomed(C) ==
  LET bare == {a \in DOMAIN recs : ChatsOf(a) # {} /\ ChatsOf(a) \subseteq C}
      kids(a) == {b \in DOMAIN recs : Live(b) /\ recs[b].up = a}
  IN  UNION {D \in SUBSET bare : \A a \in D : kids(a) \subseteq D}

DeleteChatCascade(p) ==
  LET C == Below(chats, {req[p].chat}) IN
  /\ req[p].at = "cascade" /\ Go(p, Free)
  /\ IF req[p].chat \in DOMAIN chats THEN Remove(C, Below(recs, Doomed(C)))
     ELSE UNCHANGED tables
  /\ UNCHANGED <<runs, line, lastId, lastRec, lastChat, claims, stops>>

DeleteRecords(p) ==
  LET R == Below(recs, {req[p].rec}) IN
  /\ req[p].at \in {"soft", "hard"} /\ Go(p, Free)
  /\ IF req[p].rec \notin DOMAIN recs THEN UNCHANGED tables
     ELSE IF req[p].at = "hard" THEN Remove({}, R)
     ELSE /\ recs' = [a \in DOMAIN recs |-> IF a \in R THEN [recs[a] EXCEPT !.dead = TRUE] ELSE recs[a]]
          /\ UNCHANGED <<chats, msgs, inbox, edges>>
  /\ UNCHANGED <<runs, line, lastId, lastRec, lastChat, claims, stops>>

\* The process dies: runs, lines, routes and requests are gone, the tables stay.
Crash ==
  /\ stops < MaxStops /\ stops' = stops + 1
  /\ runs' = [r \in DOMAIN runs |-> IF runs[r].st = "done" THEN runs[r]
                ELSE [runs[r] EXCEPT !.st = "done", !.stopped = TRUE, !.op = NoOp]]
  /\ line' = [c \in DOMAIN line |-> <<>>]
  /\ req' = [p \in Humans |-> Free]
  /\ UNCHANGED <<tables, claims, lastId, lastRec, lastChat, reqs>>

-----------------------------------------------------------------------------
\* What goes on by itself once a run or a request has begun.
RunGoesOn(r) ==
  \/ Materialize(r) \/ Finish(r) \/ DeliverReply(r) \/ Promote(r)
  \/ SpawnRecord(r) \/ SpawnChat(r) \/ SpawnTask(r) \/ SendChat(r) \/ SendMail(r)

RequestGoesOn(p) ==
  Claim(p) \/ PostSubmit(p) \/ CreateRecord(p) \/ CreateItsChat(p)
    \/ DeleteChatCascade(p) \/ DeleteRecords(p)

MNext ==
  \/ \E r \in DOMAIN runs :
       \/ RunGoesOn(r)
       \/ ToolSpawn(r) \/ ToolSend(r) \/ ToolList(r) \/ ToolStop(r)
       \/ CancelRun(r)
  \/ \E p \in Humans :
       \/ RequestGoesOn(p)
       \/ \E c \in DOMAIN chats : \/ \E k \in Keys : Post(p, c, k)
                                  \/ CreateChat(p, c) \/ DeleteChat(p, c)
       \/ \E a \in DOMAIN recs : DeleteAgent(p, a)
  \/ \E a, b \in DOMAIN recs : SetEdge(a, b)
  \/ \E a \in DOMAIN recs : SetWake(a)
  \/ \E k \in Keys : Expire(k)
  \/ PurgeRuns
  \/ Crash

MSpec == MInit /\ [][MNext]_mvars

-----------------------------------------------------------------------------
\* A task is answered at most once, with an answer of the chat that got it,
\* and an answer is never answered: a run woken by one has no route
\* (deliverReply, B8).
RepliesOnce ==
  /\ \A m, n \in msgs : m.kind = "reply" /\ n.kind = "reply" /\ m.to = n.to => m = n
  /\ \A m \in msgs : m.kind = "reply" => runs[m.to].kind = "spawn"
  /\ \A r \in DOMAIN runs : runs[r].kind = "reply" => runs[r].route = NoRoute

\* However often and however concurrently posts with one key are repeated, those
\* that claim it within one window of the key start one run, and every answer
\* they get names that run; what takes the key over once the window has run out
\* starts a window of its own (Post, ClaimIdempotencyKey, R5).
OneRunPerKey ==
  \A t \in KeyWindows : Cardinality({r \in DOMAIN runs : runs[r].key = t} \cup said[t]) <= 1

\* A chat that delegated a task gets its answer: when the task's run is over the
\* answer is in the spawning chat, or waits in that chat's line to be appended.
\* Excepted is a task that was itself cancelled, refused or lost to a crash; one
\* of whose two chats or records is gone; an answer whose delivery the store
\* failed (lost); and an answer whose own run was cancelled, refused or lost to
\* a crash while it waited (submit, finish, deliverReply, finishQueued).
TaskAnswered ==
  \A r \in DOMAIN runs : runs[r].kind = "spawn" /\ runs[r].st = "done" =>
    \/ runs[r].stopped \/ runs[r].lost
    \/ \E m \in msgs : m.kind = "reply" /\ m.to = r
    \/ \E x \in DOMAIN runs : /\ runs[x].kind = "reply" /\ runs[x].to = r
                              /\ runs[x].stopped \/ (runs[x].st = "waiting" /\ InLine(x))
    \/ ~Live(runs[r].route.rec) \/ runs[r].route.chat \notin DOMAIN chats
    \/ runs[r].rec \notin DOMAIN recs \/ runs[r].chat \notin DOMAIN chats

\* When nothing is in flight every live record has a chat ("A chat is created
\* whole", "is 1:1 with its chat").  Violated: the README says how.
RecordHasChat ==
  (\A p \in Humans : req[p] = Free) /\ (\A r \in DOMAIN runs : runs[r].st = "done") =>
    \A a \in DOMAIN recs : Live(a) => ChatsOf(a) # {}
=============================================================================
