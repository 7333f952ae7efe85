---------------------------- MODULE RecordProofs ----------------------------
(***************************************************************************)
(* Proofs about what requests write to the store and beside it.            *)
(*                                                                         *)
(* Chats that work for one another: a task is answered at most once and    *)
(* only for a reason not at all, and a key starts one run in a window, for *)
(* any number of people, keys, records, chats, messages and crashes.       *)
(* Every message that is in a chat, or that a run has brought or will      *)
(* bring there, is counted by its id; a step adds at most one, with a new  *)
(* id, and takes messages away only with their chat.  A run that waits is  *)
(* in the line of its chat, and leaves it only with its message in place   *)
(* or stopped.                                                             *)
(*                                                                         *)
(* The skill library: a reconcile that nobody disturbs leaves the index    *)
(* equal to the files, for any names, texts, requests, edits and restarts. *)
(*                                                                         *)
(* The profiles and their prompt files: the same, with files that are      *)
(* replaced in two steps and slugs that two names can share.               *)
(***************************************************************************)
EXTENDS ChatMail, SkillLibrary, ProfileLibrary, FiniteSetTheorems, WellFoundedInduction, TLAPS

Kinds == {"human", "spawn", "reply", "message"}
Over == {"answered", "done"}
Stages == {"waiting", "active", "ending"} \cup Over

\* What a run and a request remember, among the records and chats there were.
OpsOf(R, C) ==
  {NoOp} \cup [at : {"record"}, from : C] \cup [at : {"chat"}, from : C, rec : R]
    \cup [at : {"task"}, from : C, rec : R, chat : C]
    \cup [at : {"send", "report"}, to : R, wake : BOOLEAN]
    \cup [at : {"mail"}, to : R, wake : BOOLEAN, chat : C]
RoutesOf(R, C) == {NoRoute} \cup [rec : R, chat : C]
RunsOf(R, C) ==
  [chat : C, rec : R, kind : Kinds, to : Nat, route : RoutesOf(R, C), key : KeyWindows \cup {NoClaim},
   st : Stages, stopped : BOOLEAN, lost : BOOLEAN, op : OpsOf(R, C)]
ReqsOf(R, C) ==
  {Free} \cup [at : {"claim"}, chat : C, rec : R, key : Keys]
    \cup [at : {"submit"}, chat : C, rec : R, key : KeyWindows, id : Nat]
    \cup [at : {"record", "chat"}, from : C, rec : R]
    \cup [at : {"cascade"}, chat : C] \cup [at : {"soft", "hard"}, rec : R]

RecTypes == /\ lastRec \in Nat /\ DOMAIN recs \subseteq 1..lastRec
            /\ \A a \in DOMAIN recs : recs[a] \in [up : Nat, wake : BOOLEAN, dead : BOOLEAN]
ChatTypes == /\ lastChat \in Nat /\ DOMAIN chats \subseteq 1..lastChat
             /\ \A c \in DOMAIN chats : chats[c] \in [rec : 1..lastRec, up : Nat]
RunTypes == \A r \in DOMAIN runs : runs[r] \in RunsOf(1..lastRec, 1..lastChat)
ReqTypes == /\ req \in [Humans -> ReqsOf(1..lastRec, 1..lastChat)]
            /\ won \in [KeyWindows -> Nat] /\ lastId \in Nat
            /\ age \in [Keys -> 0..MaxWindows]
            /\ keys \in [Keys -> [run : Nat, win : 0..MaxWindows]]
MailTypes == RecTypes /\ ChatTypes /\ RunTypes /\ ReqTypes

\* The messages there are, and those that runs have brought or will bring.
Mail == msgs \cup {Msg(r, runs[r]) : r \in DOMAIN runs}
Answered(t) == t \in DOMAIN runs /\ runs[t].kind = "spawn" /\ runs[t].st \in Over

MailIds ==
  /\ \A m \in Mail : m.id \in 1..lastId
  /\ \A m, n \in Mail : m.id = n.id => m = n
Answers ==
  /\ \A m \in Mail : m.kind = "reply" => Answered(m.to) /\ m.chat = runs[m.to].route.chat
  /\ \A m, n \in Mail : m.kind = "reply" /\ n.kind = "reply" /\ m.to = n.to => m = n
Routes == \A r \in DOMAIN runs : runs[r].kind = "spawn" <=> runs[r].route # NoRoute

\* A claim names the run that was or will be made for it, and the row of a key
\* that of its last window while that has not run out.
Posting(p) == req[p].at = "submit"
PostIds ==
  /\ \A p \in Humans : Posting(p) => /\ req[p].id \in 1..lastId /\ won[req[p].key] = req[p].id
                                     /\ \A m \in Mail : m.id # req[p].id
  /\ \A p, q \in Humans : Posting(p) /\ Posting(q) /\ req[p].id = req[q].id => p = q
KeyedRuns ==
  /\ \A r \in DOMAIN runs : runs[r].key # NoClaim => won[runs[r].key] = r
  /\ \A t \in KeyWindows : said[t] \subseteq {won[t]} \ {Zero}
KeyRows ==
  \A k \in Keys : /\ won[<<k, age[k]>>] = IF Fresh(k) THEN keys[k].run ELSE Zero
                  /\ \A w \in 0..MaxWindows : w > age[k] => won[<<k, w>>] = Zero

\* Why the answer to a task is there, or is missing.
Settled(r) ==
  \/ runs[r].stopped \/ runs[r].lost
  \/ \E m \in msgs : m.kind = "reply" /\ m.to = r
  \/ \E x \in DOMAIN runs : /\ runs[x].kind = "reply" /\ runs[x].to = r
                            /\ runs[x].stopped \/ runs[x].st = "waiting"
  \/ ~Live(runs[r].route.rec) \/ runs[r].route.chat \notin DOMAIN chats
  \/ runs[r].rec \notin DOMAIN recs \/ runs[r].chat \notin DOMAIN chats
TasksSettled == \A r \in DOMAIN runs : runs[r].kind = "spawn" /\ runs[r].st \in Over => Settled(r)

MailInv == MailTypes /\ MailIds /\ Answers /\ Routes /\ PostIds /\ KeyedRuns /\ KeyRows /\ TasksSettled

-----------------------------------------------------------------------------
(* What a step leaves alone.                                               *)

\* Records and chats come with new ids; what is gone stays gone.
TablesKept ==
  /\ lastRec <= lastRec' /\ lastChat <= lastChat'
  /\ \A a \in 1..lastRec : /\ a \notin DOMAIN recs => a \notin DOMAIN recs'
                           /\ ~Live(a) => ~Live(a)'
  /\ \A c \in 1..lastChat : c \notin DOMAIN chats => c \notin DOMAIN chats'
TablesGoOn == RecTypes' /\ ChatTypes' /\ TablesKept

\* A run keeps what it was made with, and what it was told.
SameRun(r) ==
  /\ r \in DOMAIN runs'
  /\ runs'[r].chat = runs[r].chat /\ runs'[r].rec = runs[r].rec /\ runs'[r].kind = runs[r].kind
  /\ runs'[r].to = runs[r].to /\ runs'[r].route = runs[r].route /\ runs'[r].key = runs[r].key
RunGoesOnAs(r) ==
  /\ SameRun(r) /\ runs'[r] \in RunsOf(1..lastRec', 1..lastChat')
  /\ (runs[r].stopped => runs'[r].stopped) /\ (runs[r].lost => runs'[r].lost)
  /\ runs[r].st \in Over => runs'[r].st \in Over
  /\ runs[r].st = "waiting" =>
       runs'[r].st = "waiting" \/ runs'[r].stopped \/ Msg(r, runs[r]) \in msgs'
RunsGoOn == \A r \in DOMAIN runs : RunGoesOnAs(r)

\* A task that is over by now has its answer, or there is a reason.
TasksEnd ==
  \A r \in DOMAIN runs : runs[r].kind = "spawn" /\ runs[r].st \notin Over /\ runs'[r].st \in Over
                           => Settled(r)'
MailKept == \A m \in msgs : m \in msgs' \/ m.chat \notin DOMAIN chats'

\* No post is claimed, and no claimed one changes.
PostsKept == /\ UNCHANGED claims
             /\ \A p \in Humans : Posting(p)' => req'[p] = req[p]

LEMMA MoreIds ==
    ASSUME NEW m \in Nat, NEW n \in Nat, m <= n
    PROVE  1..m \subseteq 1..n
OBVIOUS

LEMMA MoreOps ==
    ASSUME NEW R, NEW S, R \subseteq S, NEW C, NEW D, C \subseteq D
    PROVE  OpsOf(R, C) \subseteq OpsOf(S, D)
BY DEF OpsOf

LEMMA MoreRuns ==
    ASSUME NEW R, NEW S, R \subseteq S, NEW C, NEW D, C \subseteq D
    PROVE  RunsOf(R, C) \subseteq RunsOf(S, D)
<1>1. OpsOf(R, C) \subseteq OpsOf(S, D) /\ RoutesOf(R, C) \subseteq RoutesOf(S, D)
  BY MoreOps DEF RoutesOf
<1> QED BY <1>1 DEF RunsOf

LEMMA MoreReqs ==
    ASSUME NEW R, NEW S, R \subseteq S, NEW C, NEW D, C \subseteq D
    PROVE  ReqsOf(R, C) \subseteq ReqsOf(S, D)
BY DEF ReqsOf

\* The ids of a step's tables include those before it.
LEMMA IdsGrow ==
    ASSUME MailTypes, TablesGoOn
    PROVE  1..lastRec \subseteq 1..lastRec' /\ 1..lastChat \subseteq 1..lastChat'
BY MoreIds DEF MailTypes, RecTypes, ChatTypes, TablesGoOn, TablesKept

LEMMA SettledStays ==
    ASSUME MailInv, TablesGoOn, RunsGoOn, MailKept,
           NEW r \in DOMAIN runs, runs[r].kind = "spawn", runs[r].st \in Over, Settled(r)
    PROVE  Settled(r)'
<1>1. SameRun(r) /\ (runs[r].stopped => runs'[r].stopped) /\ (runs[r].lost => runs'[r].lost)
  BY DEF RunsGoOn, RunGoesOnAs
<1>2. /\ runs[r] \in RunsOf(1..lastRec, 1..lastChat) /\ runs[r].route # NoRoute
  BY DEF MailInv, MailTypes, RunTypes, Routes
<1>3. /\ runs[r].chat \in 1..lastChat /\ runs[r].rec \in 1..lastRec
      /\ runs[r].route.chat \in 1..lastChat /\ runs[r].route.rec \in 1..lastRec
  BY <1>2 DEF RunsOf, RoutesOf
<1>4. CASE runs[r].stopped \/ runs[r].lost
  BY <1>1, <1>4 DEF Settled
<1>5. CASE \E m \in msgs : m.kind = "reply" /\ m.to = r
  <2>1. PICK m \in msgs : m.kind = "reply" /\ m.to = r
    BY <1>5
  <2>2. m.chat = runs[r].route.chat
    BY <2>1 DEF MailInv, Answers, Mail
  <2>3. m \in msgs' \/ m.chat \notin DOMAIN chats'
    BY DEF MailKept
  <2> QED BY <1>1, <2>1, <2>2, <2>3 DEF Settled, SameRun
<1>6. CASE \E x \in DOMAIN runs : /\ runs[x].kind = "reply" /\ runs[x].to = r
                                  /\ runs[x].stopped \/ runs[x].st = "waiting"
  <2>1. PICK x \in DOMAIN runs : /\ runs[x].kind = "reply" /\ runs[x].to = r
                                 /\ runs[x].stopped \/ runs[x].st = "waiting"
    BY <1>6
  <2>2. /\ x \in DOMAIN runs' /\ runs'[x].kind = "reply" /\ runs'[x].to = r
        /\ runs'[x].stopped \/ runs'[x].st = "waiting" \/ Msg(x, runs[x]) \in msgs'
    BY <2>1 DEF RunsGoOn, RunGoesOnAs, SameRun
  <2>3. Msg(x, runs[x]).kind = "reply" /\ Msg(x, runs[x]).to = r
    BY <2>1 DEF Msg
  <2> QED BY <2>2, <2>3 DEF Settled
<1>7. CASE ~Live(runs[r].route.rec)
  BY <1>1, <1>3, <1>7 DEF Settled, SameRun, TablesGoOn, TablesKept
<1>8. CASE \/ runs[r].route.chat \notin DOMAIN chats
           \/ runs[r].rec \notin DOMAIN recs \/ runs[r].chat \notin DOMAIN chats
  BY <1>1, <1>3, <1>8 DEF Settled, SameRun, TablesGoOn, TablesKept
<1> QED BY <1>4, <1>5, <1>6, <1>7, <1>8 DEF Settled

\* A step after which there are no more messages than before.
LEMMA CalmStep ==
    ASSUME MailInv, MailTypes', TablesGoOn, RunsGoOn, TasksEnd, MailKept, PostsKept,
           DOMAIN runs' = DOMAIN runs, Mail' \subseteq Mail, lastId' = lastId
    PROVE  MailInv'
<1>1. MailIds'
  BY DEF MailInv, MailIds
<1>2. ASSUME NEW t, Answered(t) PROVE Answered(t)' /\ runs'[t].route = runs[t].route
  BY <1>2 DEF Answered, RunsGoOn, RunGoesOnAs, SameRun
<1>3. Answers'
  BY <1>2 DEF MailInv, Answers, Answered
<1>4. Routes'
  BY DEF MailInv, Routes, RunsGoOn, RunGoesOnAs, SameRun
<1>5. PostIds'
  BY DEF MailInv, PostIds, PostsKept, Posting, claims
<1>6. KeyedRuns'
  BY DEF MailInv, KeyedRuns, PostsKept, RunsGoOn, RunGoesOnAs, SameRun, claims
<1>7. TasksSettled'
  <2> SUFFICES ASSUME NEW r \in DOMAIN runs, runs'[r].kind = "spawn", runs'[r].st \in Over
               PROVE  Settled(r)'
    BY DEF TasksSettled
  <2>1. runs[r].kind = "spawn"
    BY DEF RunsGoOn, RunGoesOnAs, SameRun
  <2>2. CASE runs[r].st \in Over
    BY <2>1, <2>2, SettledStays DEF MailInv, TasksSettled
  <2>3. CASE runs[r].st \notin Over
    BY <2>1, <2>3 DEF TasksEnd
  <2> QED BY <2>2, <2>3
<1>8. KeyRows'
  BY DEF MailInv, KeyRows, Fresh, PostsKept, claims
<1> QED BY <1>1, <1>3, <1>4, <1>5, <1>6, <1>7, <1>8 DEF MailInv

\* A step that brings one message, with a new id: the ids and the answers.
LEMMA Arrival ==
    ASSUME MailInv, MailTypes', TablesGoOn, RunsGoOn, TasksEnd, MailKept,
           NEW id \in 1..lastId', lastId <= lastId', \A m \in Mail : m.id # id,
           NEW n, Mail' \subseteq Mail \cup {Msg(id, n)},
           \A r \in DOMAIN runs' : r \notin DOMAIN runs =>
             /\ r = id /\ runs'[r].kind = n.kind /\ runs'[r].route = n.route
             /\ runs'[r].st \in Over => runs'[r].stopped,
           n.kind = "spawn" <=> n.route # NoRoute,
           n.kind = "reply" =>
             /\ n.to \in DOMAIN runs /\ runs[n.to].kind = "spawn" /\ runs[n.to].st \notin Over
             /\ runs'[n.to].st \in Over /\ n.chat = runs[n.to].route.chat
    PROVE  MailIds' /\ Answers' /\ Routes' /\ TasksSettled'
<1>1. /\ Msg(id, n).id = id /\ Msg(id, n).kind = n.kind /\ Msg(id, n).to = n.to
      /\ Msg(id, n).chat = n.chat
  BY DEF Msg
<1>2. lastId \in Nat /\ lastId' \in Nat /\ 1..lastId \subseteq 1..lastId'
  BY MoreIds DEF MailInv, MailTypes, ReqTypes
<1>3. MailIds'
  BY <1>1, <1>2 DEF MailInv, MailIds
<1>4. ASSUME NEW t, Answered(t) PROVE Answered(t)' /\ runs'[t].route = runs[t].route
  BY <1>4 DEF Answered, RunsGoOn, RunGoesOnAs, SameRun
<1>5. n.kind = "reply" => Answered(n.to)' /\ n.chat = runs'[n.to].route.chat /\ ~Answered(n.to)
  BY DEF Answered, RunsGoOn, RunGoesOnAs, SameRun
<1>6. \A m \in Mail' : m.kind = "reply" => Answered(m.to)' /\ m.chat = runs'[m.to].route.chat
  BY <1>1, <1>4, <1>5 DEF MailInv, Answers
<1>7. ASSUME NEW m \in Mail', NEW o \in Mail', m.kind = "reply", o.kind = "reply", m.to = o.to
      PROVE  m = o
  <2>1. ASSUME NEW x \in Mail, x.kind = "reply" PROVE Answered(x.to)
    BY <2>1 DEF MailInv, Answers
  <2>2. CASE m \in Mail /\ o \in Mail
    BY <1>7, <2>2 DEF MailInv, Answers
  <2>3. CASE m = Msg(id, n) /\ o \in Mail
    BY <1>1, <1>5, <1>7, <2>1, <2>3
  <2>4. CASE o = Msg(id, n) /\ m \in Mail
    BY <1>1, <1>5, <1>7, <2>1, <2>4
  <2> QED BY <2>2, <2>3, <2>4
<1>8. Answers'
  BY <1>6, <1>7 DEF Answers
<1>9. Routes'
  BY DEF MailInv, Routes, RunsGoOn, RunGoesOnAs, SameRun
<1>10. TasksSettled'
  <2> SUFFICES ASSUME NEW r \in DOMAIN runs', runs'[r].kind = "spawn", runs'[r].st \in Over
               PROVE  Settled(r)'
    BY DEF TasksSettled
  <2>1. CASE r \notin DOMAIN runs
    BY <2>1 DEF Settled
  <2>2. CASE r \in DOMAIN runs /\ runs[r].st \in Over
    <3>1. runs[r].kind = "spawn"
      BY <2>2 DEF RunsGoOn, RunGoesOnAs, SameRun
    <3> QED BY <2>2, <3>1, SettledStays DEF MailInv, TasksSettled
  <2>3. CASE r \in DOMAIN runs /\ runs[r].st \notin Over
    <3>1. runs[r].kind = "spawn"
      BY <2>3 DEF RunsGoOn, RunGoesOnAs, SameRun
    <3> QED BY <2>3, <3>1 DEF TasksEnd
  <2> QED BY <2>1, <2>2, <2>3
<1> QED BY <1>3, <1>8, <1>9, <1>10

\* ... and the keys, when it is no post.
LEMMA Delivery ==
    ASSUME MailInv, MailTypes', RunsGoOn, PostsKept, lastId' = lastId + 1,
           NEW n, Mail' \subseteq Mail \cup {Msg(lastId + 1, n)},
           \A r \in DOMAIN runs' : r \notin DOMAIN runs => runs'[r].key = NoClaim
    PROVE  PostIds' /\ KeyedRuns' /\ KeyRows'
<1>1. Msg(lastId + 1, n).id = lastId + 1
  BY DEF Msg
<1>2. lastId \in Nat /\ \A i \in 1..lastId : i # lastId + 1 /\ i \in 1..lastId'
  BY DEF MailInv, MailTypes, ReqTypes
<1>3. PostIds'
  <2>1. ASSUME NEW p \in Humans, Posting(p)'
        PROVE  Posting(p) /\ req'[p] = req[p] /\ req[p].id \in 1..lastId
               /\ won[req[p].key] = req[p].id /\ \A m \in Mail : m.id # req[p].id
    BY <2>1 DEF MailInv, PostIds, PostsKept, Posting
  <2> QED BY <1>1, <1>2, <2>1 DEF MailInv, PostIds, PostsKept, claims
<1>4. KeyedRuns'
  BY DEF MailInv, KeyedRuns, PostsKept, RunsGoOn, RunGoesOnAs, SameRun, claims
<1>5. KeyRows'
  BY DEF MailInv, KeyRows, Fresh, PostsKept, claims
<1> QED BY <1>3, <1>4, <1>5

-----------------------------------------------------------------------------
(* How runs go on.                                                         *)

\* Runs that stay what they are, in tables that may grow.
LEMMA RunsStay ==
    ASSUME MailTypes, TablesGoOn, NEW r \in DOMAIN runs, r \in DOMAIN runs', runs'[r] = runs[r]
    PROVE  RunGoesOnAs(r)
<1>1. runs[r] \in RunsOf(1..lastRec', 1..lastChat')
  BY IdsGrow, MoreRuns DEF MailTypes, RunTypes
<1> QED BY <1>1 DEF RunGoesOnAs, SameRun

LEMMA RunAt ==
    ASSUME MailTypes, TablesGoOn, NEW r \in DOMAIN runs, NEW st \in Stages, runs' = At(r, st),
           runs[r].st \in Over => st \in Over,
           runs[r].st # "waiting" \/ Msg(r, runs[r]) \in msgs'
    PROVE  /\ DOMAIN runs' = DOMAIN runs /\ RunsGoOn /\ runs'[r].st = st
           /\ \A x \in DOMAIN runs : x # r => runs'[x] = runs[x]
<1>1. runs[r] \in RunsOf(1..lastRec', 1..lastChat')
  BY IdsGrow, MoreRuns DEF MailTypes, RunTypes
<1>2. /\ DOMAIN runs' = DOMAIN runs /\ runs'[r] = [runs[r] EXCEPT !.st = st]
      /\ \A x \in DOMAIN runs : x # r => runs'[x] = runs[x]
  BY DEF At
<1>3. /\ runs'[r] \in RunsOf(1..lastRec', 1..lastChat') /\ runs'[r].st = st
      /\ runs'[r].stopped = runs[r].stopped /\ runs'[r].lost = runs[r].lost
      /\ runs'[r].chat = runs[r].chat /\ runs'[r].rec = runs[r].rec /\ runs'[r].kind = runs[r].kind
      /\ runs'[r].to = runs[r].to /\ runs'[r].route = runs[r].route /\ runs'[r].key = runs[r].key
  BY <1>1, <1>2 DEF RunsOf
<1>4. RunGoesOnAs(r)
  BY <1>2, <1>3 DEF RunGoesOnAs, SameRun
<1> QED BY <1>2, <1>3, <1>4, RunsStay DEF RunsGoOn

LEMMA RunDoes ==
    ASSUME MailTypes, TablesGoOn, NEW r \in DOMAIN runs,
           NEW op \in OpsOf(1..lastRec', 1..lastChat'), runs' = Does(r, op)
    PROVE  /\ DOMAIN runs' = DOMAIN runs /\ RunsGoOn
           /\ \A x \in DOMAIN runs : runs'[x].st = runs[x].st
<1>1. runs[r] \in RunsOf(1..lastRec', 1..lastChat')
  BY IdsGrow, MoreRuns DEF MailTypes, RunTypes
<1>2. /\ DOMAIN runs' = DOMAIN runs /\ runs'[r] = [runs[r] EXCEPT !.op = op]
      /\ \A x \in DOMAIN runs : x # r => runs'[x] = runs[x]
  BY DEF Does
<1>3. /\ runs'[r] \in RunsOf(1..lastRec', 1..lastChat') /\ runs'[r].st = runs[r].st
      /\ runs'[r].stopped = runs[r].stopped /\ runs'[r].lost = runs[r].lost
      /\ runs'[r].chat = runs[r].chat /\ runs'[r].rec = runs[r].rec /\ runs'[r].kind = runs[r].kind
      /\ runs'[r].to = runs[r].to /\ runs'[r].route = runs[r].route /\ runs'[r].key = runs[r].key
  BY <1>1, <1>2 DEF RunsOf
<1>4. RunGoesOnAs(r)
  BY <1>2, <1>3 DEF RunGoesOnAs, SameRun
<1>5. \A x \in DOMAIN runs : runs'[x].st = runs[x].st
  BY <1>2, <1>3
<1> QED BY <1>2, <1>4, <1>5, RunsStay DEF RunsGoOn

\* Runs that are stopped: a task among them has its reason.
LEMMA RunsStop ==
    ASSUME MailTypes, TablesGoOn, NEW S, StopRuns(S)
    PROVE  DOMAIN runs' = DOMAIN runs /\ RunsGoOn /\ TasksEnd
<1>1. /\ DOMAIN runs' = DOMAIN runs
      /\ \A r \in DOMAIN runs : runs'[r] =
           IF r \notin S \/ runs[r].st \notin {"waiting", "active"} THEN runs[r]
           ELSE [runs[r] EXCEPT !.stopped = TRUE, !.st = IF Behind(r) THEN "done" ELSE @]
  BY DEF StopRuns
<1>2. ASSUME NEW r \in DOMAIN runs, r \in S, runs[r].st \in {"waiting", "active"}
      PROVE  RunGoesOnAs(r) /\ runs'[r].stopped
  <2>1. runs[r] \in RunsOf(1..lastRec', 1..lastChat')
    BY IdsGrow, MoreRuns DEF MailTypes, RunTypes
  <2>2. runs'[r] = [runs[r] EXCEPT !.stopped = TRUE, !.st = IF Behind(r) THEN "done" ELSE @]
    BY <1>1, <1>2
  <2>3. /\ runs'[r] \in RunsOf(1..lastRec', 1..lastChat') /\ runs'[r].stopped
        /\ runs'[r].lost = runs[r].lost
        /\ runs'[r].chat = runs[r].chat /\ runs'[r].rec = runs[r].rec /\ runs'[r].kind = runs[r].kind
        /\ runs'[r].to = runs[r].to /\ runs'[r].route = runs[r].route /\ runs'[r].key = runs[r].key
    BY <2>1, <2>2 DEF RunsOf, Stages, Over
  <2> QED BY <1>1, <1>2, <2>3 DEF RunGoesOnAs, SameRun, Over
<1>3. ASSUME NEW r \in DOMAIN runs, ~(r \in S /\ runs[r].st \in {"waiting", "active"})
      PROVE  RunGoesOnAs(r) /\ runs'[r] = runs[r]
  BY <1>1, <1>3, RunsStay
<1>4. RunsGoOn
  BY <1>2, <1>3 DEF RunsGoOn
<1>5. TasksEnd
  BY <1>1, <1>2, <1>3 DEF TasksEnd, Settled
<1> QED BY <1>1, <1>4, <1>5

-----------------------------------------------------------------------------
(* How the tables go on.                                                   *)

LEMMA TablesStay ==
    ASSUME MailTypes, UNCHANGED <<recs, chats, lastRec, lastChat>>
    PROVE  TablesGoOn /\ (UNCHANGED msgs => MailKept)
BY DEF MailTypes, RecTypes, ChatTypes, TablesGoOn, TablesKept, Live, MailKept

LEMMA RecordAdded ==
    ASSUME MailTypes, NEW up \in Nat, AddRecord(up), UNCHANGED <<chats, lastChat>>
    PROVE  TablesGoOn /\ lastRec + 1 \in 1..lastRec'
<1>1. lastRec \in Nat /\ lastRec' = lastRec + 1 /\ DOMAIN recs \subseteq 1..lastRec
  BY DEF AddRecord, MailTypes, RecTypes
<1>2. /\ DOMAIN recs' = DOMAIN recs \cup {lastRec + 1}
      /\ \A a \in DOMAIN recs : a # lastRec + 1 => recs'[a] = recs[a]
      /\ recs'[lastRec + 1] = [up |-> up, wake |-> TRUE, dead |-> FALSE]
  BY DEF AddRecord, Set
<1>3. 1..lastRec \subseteq 1..lastRec' /\ lastRec + 1 \in 1..lastRec' /\ lastRec + 1 \notin 1..lastRec
  BY <1>1
<1>4. RecTypes'
  <2>1. lastRec' \in Nat /\ DOMAIN recs' \subseteq 1..lastRec'
    BY <1>1, <1>2, <1>3
  <2>2. [up |-> up, wake |-> TRUE, dead |-> FALSE] \in [up : Nat, wake : BOOLEAN, dead : BOOLEAN]
    OBVIOUS
  <2>3. \A a \in DOMAIN recs : recs[a] \in [up : Nat, wake : BOOLEAN, dead : BOOLEAN]
    BY DEF MailTypes, RecTypes
  <2>4. \A a \in DOMAIN recs' : recs'[a] \in [up : Nat, wake : BOOLEAN, dead : BOOLEAN]
    BY <1>2, <2>2, <2>3, Zenon
  <2> QED BY <2>1, <2>4 DEF RecTypes
<1>5. ChatTypes'
  BY <1>3 DEF MailTypes, ChatTypes
<1>6. TablesKept
  BY <1>1, <1>2, <1>3 DEF TablesKept, Live, MailTypes, ChatTypes
<1> QED BY <1>3, <1>4, <1>5, <1>6 DEF TablesGoOn

\* A new chat, of addChat or of primaryChat.
LEMMA ChatAdded ==
    ASSUME MailTypes, NEW a \in DOMAIN recs, NEW up \in Nat, UNCHANGED <<recs, lastRec>>,
           chats' = Set(chats, lastChat + 1, [rec |-> a, up |-> up]), lastChat' = lastChat + 1
    PROVE  TablesGoOn /\ lastChat + 1 \in 1..lastChat'
<1>1. lastChat \in Nat /\ DOMAIN chats \subseteq 1..lastChat
  BY DEF MailTypes, ChatTypes
<1>2. /\ DOMAIN chats' = DOMAIN chats \cup {lastChat + 1}
      /\ \A c \in DOMAIN chats : c # lastChat + 1 => chats'[c] = chats[c]
      /\ chats'[lastChat + 1] = [rec |-> a, up |-> up]
  BY DEF Set
<1>3. 1..lastChat \subseteq 1..lastChat' /\ lastChat + 1 \in 1..lastChat' /\ lastChat + 1 \notin 1..lastChat
  BY <1>1
<1>4. ChatTypes'
  BY <1>1, <1>2, <1>3 DEF MailTypes, ChatTypes, RecTypes
<1>5. RecTypes'
  BY DEF MailTypes, RecTypes
<1>6. TablesKept
  BY <1>1, <1>2, <1>3 DEF TablesKept, Live, MailTypes, RecTypes
<1> QED BY <1>3, <1>4, <1>5, <1>6 DEF TablesGoOn

LEMMA ChatPrimary ==
    ASSUME MailTypes, NEW a, NEW c \in PrimaryChat(a), chats' = c.table, lastChat' = c.last,
           UNCHANGED <<recs, lastRec>>
    PROVE  TablesGoOn /\ c.id \in 1..lastChat'
<1>1. CASE ChatsOf(a) # {}
  <2>1. PICK i \in ChatsOf(a) : c = [id |-> i, table |-> chats, last |-> lastChat]
    BY <1>1 DEF PrimaryChat
  <2>2. i \in 1..lastChat
    BY DEF ChatsOf, MailTypes, ChatTypes
  <2>3. UNCHANGED <<chats, lastChat>> /\ c.id = i
    BY <2>1
  <2> QED BY <2>2, <2>3, TablesStay
<1>2. CASE ChatsOf(a) = {} /\ a \in DOMAIN recs
  <2>1. c = [id |-> lastChat + 1, last |-> lastChat + 1,
             table |-> Set(chats, lastChat + 1, [rec |-> a, up |-> Zero])]
    BY <1>2 DEF PrimaryChat
  <2>2. /\ c.id = lastChat + 1 /\ lastChat' = lastChat + 1
        /\ chats' = Set(chats, lastChat + 1, [rec |-> a, up |-> Zero])
    BY <2>1
  <2>3. Zero \in Nat
    BY DEF Zero
  <2> QED BY <1>2, <2>2, <2>3, ChatAdded
<1> QED BY <1>1, <1>2 DEF PrimaryChat

LEMMA ChatOfCaller ==
    ASSUME MailTypes, NEW r \in DOMAIN runs, NEW c \in CallerChat(r), chats' = c.table,
           lastChat' = c.last, UNCHANGED <<recs, lastRec>>
    PROVE  TablesGoOn /\ c.id \in 1..lastChat'
<1>1. CASE runs[r].chat \in DOMAIN chats
  <2>1. c = [id |-> runs[r].chat, table |-> chats, last |-> lastChat]
    BY <1>1 DEF CallerChat
  <2>2. UNCHANGED <<chats, lastChat>> /\ c.id = runs[r].chat
    BY <2>1
  <2>3. runs[r].chat \in 1..lastChat
    BY <1>1 DEF MailTypes, ChatTypes
  <2> QED BY <2>2, <2>3, TablesStay
<1>2. CASE runs[r].chat \notin DOMAIN chats
  <2>1. c \in PrimaryChat(runs[r].rec)
    BY <1>2 DEF CallerChat
  <2> QED BY <2>1, ChatPrimary
<1> QED BY <1>1, <1>2

\* A cascade takes the messages of the chats it takes.
LEMMA Removed ==
    ASSUME MailTypes, NEW C, NEW R, Remove(C, R), UNCHANGED <<lastRec, lastChat>>
    PROVE  TablesGoOn /\ MailKept /\ msgs' \subseteq msgs
<1> DEFINE D == C \cup {c \in DOMAIN chats : chats[c].rec \in R}
           kept == Cut(chats, D)
<1>1. /\ recs' = Cut(recs, R) /\ msgs' = {m \in msgs : m.chat \notin D}
      /\ chats' = [c \in DOMAIN kept |-> [kept[c] EXCEPT !.up = IF @ \in D THEN Zero ELSE @]]
  BY DEF Remove
<1>2. DOMAIN kept = DOMAIN chats \ D /\ \A c \in DOMAIN kept : kept[c] = chats[c]
  BY DEF Cut
<1> HIDE DEF D, kept
<1>3. DOMAIN chats' = DOMAIN chats \ D
  BY <1>1, <1>2
<1>4. DOMAIN recs' \subseteq DOMAIN recs /\ \A a \in DOMAIN recs' : recs'[a] = recs[a]
  BY <1>1 DEF Cut
<1>5. RecTypes'
  BY <1>4 DEF MailTypes, RecTypes
<1>6. ChatTypes'
  <2> SUFFICES ASSUME NEW c \in DOMAIN chats' PROVE chats'[c] \in [rec : 1..lastRec, up : Nat]
    BY <1>3 DEF MailTypes, ChatTypes
  <2>1. c \in DOMAIN kept /\ chats[c] \in [rec : 1..lastRec, up : Nat]
    BY <1>2, <1>3 DEF MailTypes, ChatTypes
  <2>2. chats'[c] = [chats[c] EXCEPT !.up = IF @ \in D THEN Zero ELSE @]
    BY <1>1, <1>2, <2>1
  <2> QED BY <2>1, <2>2 DEF Zero
<1>7. TablesKept
  BY <1>3, <1>4 DEF TablesKept, Live, MailTypes, RecTypes, ChatTypes
<1>8. MailKept /\ msgs' \subseteq msgs
  BY <1>1, <1>3 DEF MailKept
<1> QED BY <1>5, <1>6, <1>7, <1>8 DEF TablesGoOn

\* Records whose flags change, but never from dead to alive.
LEMMA RecordsChange ==
    ASSUME MailTypes, UNCHANGED <<chats, lastRec, lastChat>>, DOMAIN recs' = DOMAIN recs,
           \A a \in DOMAIN recs : /\ recs'[a] \in [up : Nat, wake : BOOLEAN, dead : BOOLEAN]
                                  /\ recs[a].dead => recs'[a].dead
    PROVE  TablesGoOn
BY DEF MailTypes, RecTypes, ChatTypes, TablesGoOn, TablesKept, Live

-----------------------------------------------------------------------------
(* Steps without a new message.                                            *)

LEMMA MailStays ==
    ASSUME RunsGoOn, DOMAIN runs' = DOMAIN runs, msgs' \subseteq Mail
    PROVE  Mail' \subseteq Mail
<1>1. \A r \in DOMAIN runs : Msg(r, runs'[r]) = Msg(r, runs[r])
  BY DEF RunsGoOn, RunGoesOnAs, SameRun, Msg
<1> QED BY <1>1 DEF Mail

\* Nobody's request changes.
LEMMA RunStep ==
    ASSUME MailInv, TablesGoOn, RunsGoOn, TasksEnd, MailKept, DOMAIN runs' = DOMAIN runs,
           msgs' \subseteq Mail, UNCHANGED <<req, claims, lastId>>
    PROVE  MailInv'
<1>1. ReqTypes'
  <2>1. ReqsOf(1..lastRec, 1..lastChat) \subseteq ReqsOf(1..lastRec', 1..lastChat')
    BY IdsGrow, MoreReqs DEF MailInv
  <2> QED BY <2>1 DEF MailInv, MailTypes, ReqTypes, claims
<1>2. RunTypes'
  BY DEF RunTypes, RunsGoOn, RunGoesOnAs
<1>3. PostsKept
  BY DEF PostsKept
<1> QED BY <1>1, <1>2, <1>3, MailStays, CalmStep DEF MailTypes, TablesGoOn

\* One person's request goes on, and is no post that is claimed.
LEMMA RequestStep ==
    ASSUME MailInv, TablesGoOn, RunsGoOn, TasksEnd, MailKept, DOMAIN runs' = DOMAIN runs,
           msgs' \subseteq Mail, UNCHANGED <<claims, lastId>>,
           NEW p \in Humans, NEW q \in ReqsOf(1..lastRec', 1..lastChat'), q.at # "submit",
           req' = [req EXCEPT ![p] = q]
    PROVE  MailInv'
<1>1. req \in [Humans -> ReqsOf(1..lastRec', 1..lastChat')]
  <2>1. ReqsOf(1..lastRec, 1..lastChat) \subseteq ReqsOf(1..lastRec', 1..lastChat')
    BY IdsGrow, MoreReqs DEF MailInv
  <2> QED BY <2>1 DEF MailInv, MailTypes, ReqTypes
<1>2. ReqTypes'
  BY <1>1 DEF MailInv, MailTypes, ReqTypes, claims
<1>3. RunTypes'
  BY DEF RunTypes, RunsGoOn, RunGoesOnAs
<1>4. PostsKept
  BY <1>1 DEF PostsKept, Posting
<1> QED BY <1>2, <1>3, <1>4, MailStays, CalmStep DEF MailTypes, TablesGoOn

\* Neither the runs nor the messages change.
LEMMA RunsIdle ==
    ASSUME MailInv, TablesGoOn, UNCHANGED <<runs, msgs>>
    PROVE  RunsGoOn /\ TasksEnd /\ MailKept /\ DOMAIN runs' = DOMAIN runs /\ msgs' \subseteq Mail
BY RunsStay DEF RunsGoOn, TasksEnd, MailKept, Mail, MailInv

-----------------------------------------------------------------------------
(* Steps that may bring a message.                                         *)

\* The runs `base`, where some have gone on.
BaseOf(base) ==
  /\ DOMAIN base = DOMAIN runs
  /\ \A r \in DOMAIN runs :
       /\ base[r] \in RunsOf(1..lastRec, 1..lastChat)
       /\ base[r].chat = runs[r].chat /\ base[r].rec = runs[r].rec /\ base[r].kind = runs[r].kind
       /\ base[r].to = runs[r].to /\ base[r].route = runs[r].route /\ base[r].key = runs[r].key
       /\ (runs[r].stopped => base[r].stopped) /\ (runs[r].lost => base[r].lost)
       /\ runs[r].st \in Over => base[r].st \in Over
       /\ runs[r].st = "waiting" => base[r].st = "waiting"

\* A run that is submitted is put in line, or is over at once and stopped.
LEMMA Submitted ==
    ASSUME NEW R, NEW C, NEW base, NEW id, id \notin DOMAIN base, NEW n \in RunsOf(R, C),
           n.st = "waiting", Submit(base, id, n)
    PROVE  /\ msgs' = msgs \/ msgs' = msgs \cup {Msg(id, n)}
           /\ \A r \in DOMAIN base : r \in DOMAIN runs' /\ runs'[r] = base[r]
           /\ \A r \in DOMAIN runs' : r \notin DOMAIN base =>
                /\ r = id /\ runs'[r] \in RunsOf(R, C) /\ Msg(r, runs'[r]) = Msg(id, n)
                /\ runs'[r].kind = n.kind /\ runs'[r].to = n.to
                /\ runs'[r].route = n.route /\ runs'[r].key = n.key
                /\ runs'[r].st \in Over => runs'[r].stopped
                /\ runs'[r].st = "waiting" \/ runs'[r].stopped
           /\ n.chat \in DOMAIN chats /\ n.rec \in DOMAIN recs => id \in DOMAIN runs'
<1>1. CASE n.chat \in DOMAIN chats /\ n.rec \in DOMAIN recs
  <2>1. /\ msgs' = msgs \/ msgs' = msgs \cup {Msg(id, n)}
        /\ \E x \in {n, [n EXCEPT !.st = "done", !.stopped = TRUE]} : runs' = Set(base, id, x)
    BY <1>1 DEF Submit
  <2>2. PICK x \in {n, [n EXCEPT !.st = "done", !.stopped = TRUE]} : runs' = Set(base, id, x)
    BY <2>1
  <2>3. /\ DOMAIN runs' = DOMAIN base \cup {id} /\ runs'[id] = x
        /\ \A r \in DOMAIN base : runs'[r] = base[r]
    BY <2>2 DEF Set
  <2>4. /\ x \in RunsOf(R, C) /\ Msg(id, x) = Msg(id, n) /\ x.kind = n.kind /\ x.to = n.to
        /\ x.route = n.route /\ x.key = n.key /\ (x.st \in Over => x.stopped)
        /\ x.st = "waiting" \/ x.stopped
    <3>1. CASE x = n
      BY <3>1 DEF Over
    <3>2. CASE x = [n EXCEPT !.st = "done", !.stopped = TRUE]
      BY <3>2 DEF RunsOf, Stages, Over, Msg
    <3> QED BY <3>1, <3>2
  <2> QED BY <1>1, <2>1, <2>3, <2>4
<1>2. CASE ~(n.chat \in DOMAIN chats /\ n.rec \in DOMAIN recs)
  <2>1. runs' = base /\ msgs' = msgs
    BY <1>2 DEF Submit
  <2> QED BY <1>2, <2>1
<1> QED BY <1>1, <1>2

\* ... and so is one that is delivered, or it becomes a message and no run.
LEMMA Delivered ==
    ASSUME NEW R, NEW C, NEW base, lastId + 1 \notin DOMAIN base, NEW n \in RunsOf(R, C),
           n.st = "waiting", NEW wake \in BOOLEAN, Deliver(base, n, wake)
    PROVE  /\ lastId' = lastId + 1
           /\ msgs' = msgs \/ msgs' = msgs \cup {Msg(lastId + 1, n)}
           /\ \A r \in DOMAIN base : r \in DOMAIN runs' /\ runs'[r] = base[r]
           /\ \A r \in DOMAIN runs' : r \notin DOMAIN base =>
                /\ r = lastId + 1 /\ runs'[r] \in RunsOf(R, C)
                /\ Msg(r, runs'[r]) = Msg(lastId + 1, n)
                /\ runs'[r].kind = n.kind /\ runs'[r].to = n.to
                /\ runs'[r].route = n.route /\ runs'[r].key = n.key
                /\ runs'[r].st \in Over => runs'[r].stopped
                /\ runs'[r].st = "waiting" \/ runs'[r].stopped
           /\ n.chat \in DOMAIN chats /\ n.rec \in DOMAIN recs =>
                lastId + 1 \in DOMAIN runs' \/ Msg(lastId + 1, n) \in msgs'
<1>1. lastId' = lastId + 1
  BY DEF Deliver
<1>2. CASE wake
  <2>1. Submit(base, lastId + 1, n)
    BY <1>2 DEF Deliver
  <2> QED BY <1>1, <2>1, Submitted
<1>3. CASE ~wake
  <2>1. /\ runs' = base /\ (msgs' = msgs \/ msgs' = msgs \cup {Msg(lastId + 1, n)})
        /\ n.chat \in DOMAIN chats => Msg(lastId + 1, n) \in msgs'
    BY <1>3 DEF Deliver
  <2> QED BY <1>1, <2>1
<1> QED BY <1>2, <1>3

\* A delivery of a message that is no post.
LEMMA DeliverStep ==
    ASSUME MailInv, UNCHANGED <<recs, chats, lastRec, lastChat, req, claims>>,
           NEW base, BaseOf(base), NEW n \in RunsOf(1..lastRec, 1..lastChat),
           n.st = "waiting", n.key = NoClaim, n.kind = "spawn" <=> n.route # NoRoute,
           n.kind = "reply" =>
             /\ n.to \in DOMAIN runs /\ runs[n.to].kind = "spawn" /\ runs[n.to].st \notin Over
             /\ base[n.to].st \in Over /\ n.chat = runs[n.to].route.chat,
           \A r \in DOMAIN runs :
             runs[r].kind = "spawn" /\ runs[r].st \notin Over /\ base[r].st \in Over =>
               n.kind = "reply" /\ n.to = r /\ n.chat \in DOMAIN chats /\ n.rec \in DOMAIN recs,
           NEW wake \in BOOLEAN, Deliver(base, n, wake)
    PROVE  MailInv'
<1>1. /\ lastId \in Nat /\ lastId + 1 \in Nat /\ lastId <= lastId + 1 /\ lastId + 1 \in 1..(lastId + 1)
      /\ \A m \in Mail : m.id # lastId + 1
      /\ lastId + 1 \notin DOMAIN runs
  <2>1. lastId \in Nat /\ \A m \in Mail : m.id \in 1..lastId
    BY DEF MailInv, MailTypes, ReqTypes, MailIds
  <2>2. \A r \in DOMAIN runs : Msg(r, runs[r]) \in Mail /\ Msg(r, runs[r]).id = r
    BY DEF Mail, Msg
  <2> QED BY <2>1, <2>2
<1>2. lastId + 1 \notin DOMAIN base
  BY <1>1 DEF BaseOf
<1>3. /\ lastId' = lastId + 1
      /\ msgs' = msgs \/ msgs' = msgs \cup {Msg(lastId + 1, n)}
      /\ \A r \in DOMAIN runs : r \in DOMAIN runs' /\ runs'[r] = base[r]
      /\ \A r \in DOMAIN runs' : r \notin DOMAIN runs =>
           /\ r = lastId + 1 /\ runs'[r] \in RunsOf(1..lastRec, 1..lastChat)
           /\ Msg(r, runs'[r]) = Msg(lastId + 1, n)
           /\ runs'[r].kind = n.kind /\ runs'[r].to = n.to
           /\ runs'[r].route = n.route /\ runs'[r].key = n.key
           /\ runs'[r].st \in Over => runs'[r].stopped
           /\ runs'[r].st = "waiting" \/ runs'[r].stopped
      /\ n.chat \in DOMAIN chats /\ n.rec \in DOMAIN recs =>
           lastId + 1 \in DOMAIN runs' \/ Msg(lastId + 1, n) \in msgs'
  BY <1>2, Delivered DEF BaseOf
<1>4. TablesGoOn /\ MailKept
  BY <1>3, TablesStay DEF MailInv, MailKept
<1>5. RunsGoOn
  <2> SUFFICES ASSUME NEW r \in DOMAIN runs PROVE RunGoesOnAs(r)
    BY DEF RunsGoOn
  <2>1. r \in DOMAIN runs' /\ runs'[r] = base[r]
    BY <1>3
  <2> QED BY <2>1 DEF BaseOf, RunGoesOnAs, SameRun
<1>6. RunTypes'
  <2> SUFFICES ASSUME NEW r \in DOMAIN runs' PROVE runs'[r] \in RunsOf(1..lastRec, 1..lastChat)
    BY DEF RunTypes
  <2>1. CASE r \in DOMAIN runs
    BY <1>3, <2>1 DEF BaseOf
  <2>2. CASE r \notin DOMAIN runs
    BY <1>3, <2>2
  <2> QED BY <2>1, <2>2
<1>7. MailTypes'
  BY <1>1, <1>3, <1>4, <1>6 DEF TablesGoOn, MailInv, MailTypes, ReqTypes, claims
<1>8. Mail' \subseteq Mail \cup {Msg(lastId + 1, n)}
  <2>1. \A r \in DOMAIN runs : Msg(r, runs'[r]) = Msg(r, runs[r])
    BY <1>5 DEF RunsGoOn, RunGoesOnAs, SameRun, Msg
  <2>2. \A r \in DOMAIN runs' : r \notin DOMAIN runs => Msg(r, runs'[r]) = Msg(lastId + 1, n)
    BY <1>3
  <2> QED BY <1>3, <2>1, <2>2 DEF Mail
<1>9. TasksEnd
  <2> SUFFICES ASSUME NEW r \in DOMAIN runs, runs[r].kind = "spawn", runs[r].st \notin Over,
                      runs'[r].st \in Over
               PROVE  Settled(r)'
    BY DEF TasksEnd
  <2>1. n.kind = "reply" /\ n.to = r /\ n.chat \in DOMAIN chats /\ n.rec \in DOMAIN recs
    BY <1>3
  <2>2. CASE lastId + 1 \in DOMAIN runs'
    BY <1>1, <1>3, <2>1, <2>2 DEF Settled
  <2>3. CASE Msg(lastId + 1, n) \in msgs'
    <3>1. Msg(lastId + 1, n).kind = "reply" /\ Msg(lastId + 1, n).to = r
      BY <2>1 DEF Msg
    <3> QED BY <2>3, <3>1 DEF Settled
  <2> QED BY <1>3, <2>1, <2>2, <2>3
<1>10. n.kind = "reply" => runs'[n.to].st \in Over
  BY <1>3
<1>11. MailIds' /\ Answers' /\ Routes' /\ TasksSettled'
  BY <1>1, <1>3, <1>4, <1>5, <1>7, <1>8, <1>9, <1>10, Arrival
<1>12. PostsKept
  BY DEF PostsKept
<1>13. PostIds' /\ KeyedRuns' /\ KeyRows'
  BY <1>3, <1>5, <1>7, <1>8, <1>12, Delivery
<1> QED BY <1>7, <1>11, <1>13 DEF MailInv

-----------------------------------------------------------------------------
(* The life of a run.                                                      *)

LEMMA InitMail == MInit => MailInv
<1> SUFFICES ASSUME MInit PROVE MailInv
  OBVIOUS
<1>1. /\ recs = <<[up |-> Zero, wake |-> TRUE, dead |-> FALSE]>> /\ chats = <<[rec |-> 1, up |-> Zero]>>
      /\ msgs = {} /\ runs = <<>> /\ lastId = 0 /\ lastRec = 1 /\ lastChat = 1
      /\ keys = [k \in Keys |-> [run |-> Zero, win |-> 0]] /\ age = [k \in Keys |-> 0]
      /\ won = [t \in KeyWindows |-> Zero] /\ said = [t \in KeyWindows |-> {}] /\ req = [p \in Humans |-> Free]
  BY DEF MInit
<1>2. DOMAIN recs = {1} /\ DOMAIN chats = {1} /\ DOMAIN runs = {} /\ 1..1 = {1}
  BY <1>1
<1>3. RecTypes
  <2>1. recs[1] = [up |-> 0, wake |-> TRUE, dead |-> FALSE]
    BY <1>1 DEF Zero
  <2>2. [up |-> 0, wake |-> TRUE, dead |-> FALSE] \in [up : Nat, wake : BOOLEAN, dead : BOOLEAN]
    OBVIOUS
  <2> QED BY <1>1, <1>2, <2>1, <2>2 DEF RecTypes
<1>4. ChatTypes
  BY <1>1, <1>2 DEF ChatTypes, Zero
<1>5. RunTypes
  BY <1>2 DEF RunTypes
<1>6. ReqTypes
  <2>1. 0 \in 0..MaxWindows
    BY MailAssumption
  <2> QED BY <1>1, <2>1 DEF ReqTypes, ReqsOf, Zero
<1>7. Mail = {}
  BY <1>1, <1>2 DEF Mail
<1>8. MailIds /\ Answers /\ Routes /\ TasksSettled
  BY <1>2, <1>7 DEF MailIds, Answers, Routes, TasksSettled
<1>9. PostIds /\ KeyedRuns
  BY <1>1, <1>2 DEF PostIds, KeyedRuns, Posting, Free
<1>10. KeyRows
  BY <1>1, MailAssumption DEF KeyRows, Fresh, KeyWindows
<1> QED BY <1>3, <1>4, <1>5, <1>6, <1>8, <1>9, <1>10 DEF MailInv, MailTypes

LEMMA MaterializeStep ==
    ASSUME MailInv, NEW r \in DOMAIN runs, Materialize(r)
    PROVE  MailInv'
<1>1. TablesGoOn /\ UNCHANGED <<req, claims, lastId>> /\ runs[r].st = "waiting"
  BY TablesStay DEF Materialize, MailInv
<1>2. "waiting" \notin Over /\ "active" \notin Over /\ "active" \in Stages
  BY DEF Over, Stages
<1>3. CASE runs[r].chat \in DOMAIN chats /\ ~runs[r].stopped
  <2>1. msgs' = msgs \cup {Msg(r, runs[r])} /\ runs' = At(r, "active")
    BY <1>3 DEF Materialize
  <2>0. Msg(r, runs[r]) \in msgs'
    BY <2>1
  <2>2. /\ DOMAIN runs' = DOMAIN runs /\ RunsGoOn /\ runs'[r].st = "active"
        /\ \A x \in DOMAIN runs : x # r => runs'[x] = runs[x]
    BY <1>1, <1>2, <2>0, <2>1, RunAt DEF MailInv
  <2>3. TasksEnd /\ MailKept /\ msgs' \subseteq Mail
    BY <1>2, <2>1, <2>2 DEF TasksEnd, MailKept, Mail
  <2> QED BY <1>1, <2>2, <2>3, RunStep
<1>4. CASE ~(runs[r].chat \in DOMAIN chats /\ ~runs[r].stopped)
  <2>1. UNCHANGED msgs /\ runs' = [runs EXCEPT ![r].st = "active", ![r].stopped = TRUE]
    BY <1>4 DEF Materialize
  <2>2. runs[r] \in RunsOf(1..lastRec', 1..lastChat')
    BY <1>1, IdsGrow, MoreRuns DEF MailInv, MailTypes, RunTypes
  <2>3. /\ DOMAIN runs' = DOMAIN runs
        /\ runs'[r] = [runs[r] EXCEPT !.st = "active", !.stopped = TRUE]
        /\ \A x \in DOMAIN runs : x # r => runs'[x] = runs[x]
    BY <2>1
  <2>4. /\ runs'[r] \in RunsOf(1..lastRec', 1..lastChat') /\ runs'[r].st = "active" /\ runs'[r].stopped
        /\ runs'[r].lost = runs[r].lost
        /\ runs'[r].chat = runs[r].chat /\ runs'[r].rec = runs[r].rec /\ runs'[r].kind = runs[r].kind
        /\ runs'[r].to = runs[r].to /\ runs'[r].route = runs[r].route /\ runs'[r].key = runs[r].key
    BY <1>2, <2>2, <2>3 DEF RunsOf
  <2>5. RunGoesOnAs(r)
    BY <1>1, <1>2, <2>3, <2>4 DEF RunGoesOnAs, SameRun
  <2>6. RunsGoOn
    BY <1>1, <2>3, <2>5, RunsStay DEF RunsGoOn, MailInv
  <2>7. TasksEnd /\ MailKept /\ msgs' \subseteq Mail
    BY <1>2, <2>1, <2>3, <2>4 DEF TasksEnd, MailKept, Mail
  <2> QED BY <1>1, <2>3, <2>6, <2>7, RunStep
<1> QED BY <1>3, <1>4

LEMMA FinishStep ==
    ASSUME MailInv, NEW r \in DOMAIN runs, Finish(r)
    PROVE  MailInv'
<1>1. /\ TablesGoOn /\ MailKept /\ UNCHANGED <<req, claims, lastId, msgs>>
      /\ runs[r].st = "active" /\ runs' = At(r, "ending")
  BY TablesStay DEF Finish, MailInv, tables
<1>2. "active" \notin Over /\ "ending" \notin Over /\ "ending" \in Stages
  BY DEF Over, Stages
<1>3. /\ DOMAIN runs' = DOMAIN runs /\ RunsGoOn /\ runs'[r].st = "ending"
      /\ \A x \in DOMAIN runs : x # r => runs'[x] = runs[x]
  BY <1>1, <1>2, RunAt DEF MailInv
<1>4. TasksEnd /\ msgs' \subseteq Mail
  BY <1>1, <1>2, <1>3 DEF TasksEnd, Mail
<1> QED BY <1>1, <1>3, <1>4, RunStep

LEMMA PromoteStep ==
    ASSUME MailInv, NEW r \in DOMAIN runs, Promote(r)
    PROVE  MailInv'
<1>1. /\ TablesGoOn /\ MailKept /\ UNCHANGED <<req, claims, lastId, msgs>>
      /\ runs[r].st = "answered" \/ (runs[r].st = "ending" /\ runs[r].route = NoRoute)
      /\ runs' = At(r, "done")
  BY TablesStay DEF Promote, MailInv, tables
<1>2. "answered" \in Over /\ "done" \in Over /\ "done" \in Stages
  BY DEF Over, Stages
<1>3. /\ DOMAIN runs' = DOMAIN runs /\ RunsGoOn /\ runs'[r].st = "done"
      /\ \A x \in DOMAIN runs : x # r => runs'[x] = runs[x]
  BY <1>1, <1>2, RunAt DEF MailInv
<1>4. runs[r].kind = "spawn" => runs[r].st \in Over
  BY <1>1, <1>2 DEF MailInv, Routes
<1>5. TasksEnd /\ msgs' \subseteq Mail
  BY <1>1, <1>3, <1>4 DEF TasksEnd, Mail
<1> QED BY <1>1, <1>3, <1>5, RunStep

\* A step of a tool: the run goes on to something else.
LEMMA ToolStep ==
    ASSUME MailInv, NEW r \in DOMAIN runs, TablesGoOn, UNCHANGED msgs,
           UNCHANGED <<req, claims, lastId>>,
           NEW op \in OpsOf(1..lastRec', 1..lastChat'), runs' = Does(r, op)
    PROVE  MailInv'
<1>1. /\ DOMAIN runs' = DOMAIN runs /\ RunsGoOn
      /\ \A x \in DOMAIN runs : runs'[x].st = runs[x].st
  BY RunDoes DEF MailInv
<1>2. TasksEnd /\ MailKept /\ msgs' \subseteq Mail
  BY <1>1 DEF TasksEnd, MailKept, Mail
<1> QED BY <1>1, <1>2, RunStep

\* A message of a tool, and the tool is done.
LEMMA ToolMail ==
    ASSUME MailInv, NEW r \in DOMAIN runs, UNCHANGED <<recs, chats, lastRec, lastChat, req, claims>>,
           NEW n \in RunsOf(1..lastRec, 1..lastChat), n.st = "waiting", n.key = NoClaim,
           n.kind # "reply", n.kind = "spawn" <=> n.route # NoRoute,
           NEW wake \in BOOLEAN, Deliver(OpDone(r), n, wake)
    PROVE  MailInv'
<1>1. PICK base : base = OpDone(r)
  OBVIOUS
<1>2. /\ DOMAIN base = DOMAIN runs /\ base[r] = [runs[r] EXCEPT !.op = NoOp]
      /\ \A x \in DOMAIN runs : x # r => base[x] = runs[x]
  BY <1>1 DEF OpDone, Does
<1>3. \A x \in DOMAIN runs : runs[x] \in RunsOf(1..lastRec, 1..lastChat)
  BY DEF MailInv, MailTypes, RunTypes
<1>4. /\ base[r] \in RunsOf(1..lastRec, 1..lastChat) /\ base[r].st = runs[r].st
      /\ base[r].stopped = runs[r].stopped /\ base[r].lost = runs[r].lost
      /\ base[r].chat = runs[r].chat /\ base[r].rec = runs[r].rec /\ base[r].kind = runs[r].kind
      /\ base[r].to = runs[r].to /\ base[r].route = runs[r].route /\ base[r].key = runs[r].key
  <2>1. NoOp \in OpsOf(1..lastRec, 1..lastChat)
    BY DEF OpsOf
  <2> QED BY <1>2, <1>3, <2>1 DEF RunsOf
<1>5. BaseOf(base)
  <2> SUFFICES ASSUME NEW x \in DOMAIN runs
               PROVE  /\ base[x] \in RunsOf(1..lastRec, 1..lastChat)
                      /\ base[x].chat = runs[x].chat /\ base[x].rec = runs[x].rec
                      /\ base[x].kind = runs[x].kind /\ base[x].to = runs[x].to
                      /\ base[x].route = runs[x].route /\ base[x].key = runs[x].key
                      /\ (runs[x].stopped => base[x].stopped) /\ (runs[x].lost => base[x].lost)
                      /\ runs[x].st \in Over => base[x].st \in Over
                      /\ runs[x].st = "waiting" => base[x].st = "waiting"
    BY <1>2 DEF BaseOf
  <2> QED BY <1>2, <1>3, <1>4
<1>6. \A x \in DOMAIN runs : base[x].st = runs[x].st
  BY <1>2, <1>4
<1> QED BY <1>1, <1>5, <1>6, DeliverStep

LEMMA RunFacts ==
    ASSUME MailInv, NEW r \in DOMAIN runs
    PROVE  /\ r \in Nat /\ runs[r] \in RunsOf(1..lastRec, 1..lastChat)
           /\ runs[r].rec \in 1..lastRec /\ runs[r].chat \in 1..lastChat
           /\ runs[r].route # NoRoute => /\ runs[r].route.rec \in 1..lastRec
                                         /\ runs[r].route.chat \in 1..lastChat
<1>1. runs[r] \in RunsOf(1..lastRec, 1..lastChat)
  BY DEF MailInv, MailTypes, RunTypes
<1>2. Msg(r, runs[r]) \in Mail /\ Msg(r, runs[r]).id = r
  BY DEF Mail, Msg
<1>3. r \in 1..lastId /\ lastId \in Nat
  BY <1>2 DEF MailInv, MailIds, MailTypes, ReqTypes
<1>4. r \in Nat
  BY <1>3
<1> QED BY <1>1, <1>4 DEF RunsOf, RoutesOf

LEMMA OpFacts ==
    ASSUME MailInv, NEW r \in DOMAIN runs
    PROVE  /\ runs[r].op.at \in {"record", "chat", "task"} => runs[r].op.from \in 1..lastChat
           /\ runs[r].op.at \in {"chat", "task"} => runs[r].op.rec \in 1..lastRec
           /\ runs[r].op.at \in {"task", "mail"} => runs[r].op.chat \in 1..lastChat
           /\ runs[r].op.at \in {"send", "report", "mail"} =>
                runs[r].op.to \in 1..lastRec /\ runs[r].op.wake \in BOOLEAN
<1>1. runs[r].op \in OpsOf(1..lastRec, 1..lastChat)
  BY RunFacts DEF RunsOf
<1> QED BY <1>1 DEF OpsOf, NoOp

LEMMA ReplyStep ==
    ASSUME MailInv, NEW r \in DOMAIN runs, DeliverReply(r)
    PROVE  MailInv'
<1> DEFINE to == runs[r].route
           n == NewRun(to.chat, to.rec, "reply", r, NoRoute, NoClaim)
<1>1. /\ runs[r].st = "ending" /\ to # NoRoute
      /\ UNCHANGED <<recs, chats, lastRec, lastChat, edges, req, claims>>
  BY DEF DeliverReply, Reply
<1>2. /\ "ending" \notin Over /\ "answered" \in Over /\ "answered" \in Stages /\ "reply" \in Kinds
      /\ Zero \in Nat
  BY DEF Over, Stages, Kinds, Zero
<1>3. runs[r].kind = "spawn" /\ to.rec \in 1..lastRec /\ to.chat \in 1..lastChat /\ r \in Nat
  BY <1>1, RunFacts DEF MailInv, Routes
<1>4. CASE Routable(r) /\ Deliver(At(r, "answered"), n, recs[to.rec].wake)
  <2>1. Deliver(At(r, "answered"), n, recs[to.rec].wake)
    BY <1>4
  <2>2. /\ to.rec \in DOMAIN recs /\ to.chat \in DOMAIN chats
        /\ recs[to.rec].wake \in BOOLEAN
    BY <1>4 DEF Routable, Live, MailInv, MailTypes, RecTypes
  <2>3. PICK base : base = At(r, "answered")
    OBVIOUS
  <2>4. /\ DOMAIN base = DOMAIN runs /\ base[r] = [runs[r] EXCEPT !.st = "answered"]
        /\ \A x \in DOMAIN runs : x # r => base[x] = runs[x]
    BY <2>3 DEF At
  <2>5. \A x \in DOMAIN runs : runs[x] \in RunsOf(1..lastRec, 1..lastChat)
    BY RunFacts
  <2>6. /\ base[r] \in RunsOf(1..lastRec, 1..lastChat) /\ base[r].st = "answered"
        /\ base[r].stopped = runs[r].stopped /\ base[r].lost = runs[r].lost
        /\ base[r].chat = runs[r].chat /\ base[r].rec = runs[r].rec /\ base[r].kind = runs[r].kind
        /\ base[r].to = runs[r].to /\ base[r].route = runs[r].route /\ base[r].key = runs[r].key
    BY <1>2, <2>4, <2>5 DEF RunsOf
  <2>7. BaseOf(base)
    <3> SUFFICES ASSUME NEW x \in DOMAIN runs
                 PROVE  /\ base[x] \in RunsOf(1..lastRec, 1..lastChat)
                        /\ base[x].chat = runs[x].chat /\ base[x].rec = runs[x].rec
                        /\ base[x].kind = runs[x].kind /\ base[x].to = runs[x].to
                        /\ base[x].route = runs[x].route /\ base[x].key = runs[x].key
                        /\ (runs[x].stopped => base[x].stopped) /\ (runs[x].lost => base[x].lost)
                        /\ runs[x].st \in Over => base[x].st \in Over
                        /\ runs[x].st = "waiting" => base[x].st = "waiting"
      BY <2>4 DEF BaseOf
    <3>1. runs[r].st # "waiting"
      BY <1>1
    <3> QED BY <1>2, <2>4, <2>5, <2>6, <3>1
  <2>8. PICK m : m = n
    OBVIOUS
  <2>9. /\ m \in RunsOf(1..lastRec, 1..lastChat) /\ m.st = "waiting" /\ m.key = NoClaim /\ m.kind = "reply"
        /\ m.to = r /\ m.route = NoRoute /\ m.chat = to.chat /\ m.rec = to.rec
    <3>1. NoRoute \in RoutesOf(1..lastRec, 1..lastChat) /\ NoClaim \in KeyWindows \cup {NoClaim}
      BY DEF RoutesOf
    <3> QED BY <1>2, <1>3, <2>8, <3>1 DEF NewRun, RunsOf, Stages, OpsOf
  <2>10. \A x \in DOMAIN runs :
           runs[x].kind = "spawn" /\ runs[x].st \notin Over /\ base[x].st \in Over =>
             m.kind = "reply" /\ m.to = x /\ m.chat \in DOMAIN chats /\ m.rec \in DOMAIN recs
    BY <2>2, <2>4, <2>9
  <2>11. /\ m.to \in DOMAIN runs /\ runs[m.to].kind = "spawn" /\ runs[m.to].st \notin Over
         /\ base[m.to].st \in Over /\ m.chat = runs[m.to].route.chat
    BY <1>1, <1>2, <1>3, <2>6, <2>9
  <2>12. Deliver(base, m, recs[to.rec].wake)
    BY <2>1, <2>3, <2>8
  <2> HIDE DEF n, to
  <2>13. m.kind = "spawn" <=> m.route # NoRoute
    BY <2>9
  <2> QED BY <1>1, <2>2, <2>7, <2>9, <2>10, <2>11, <2>12, <2>13, DeliverStep
<1>5. CASE ~Routable(r)
  <2>1. runs' = At(r, "answered") /\ UNCHANGED <<msgs, inbox, line, lastId>>
    BY <1>5 DEF DeliverReply, Reply
  <2>2. TablesGoOn /\ MailKept
    BY <1>1, <2>1, TablesStay DEF MailInv
  <2>3. /\ DOMAIN runs' = DOMAIN runs /\ RunsGoOn /\ runs'[r].st = "answered"
        /\ \A x \in DOMAIN runs : x # r => runs'[x] = runs[x]
    BY <1>1, <1>2, <2>1, <2>2, RunAt DEF MailInv
  <2>4. SameRun(r)
    BY <2>3 DEF RunsGoOn, RunGoesOnAs
  <2>5. Settled(r)'
    BY <1>1, <1>5, <2>4 DEF Settled, Routable, SameRun, Live
  <2>6. TasksEnd
    BY <2>3, <2>5 DEF TasksEnd
  <2>7. msgs' \subseteq Mail
    BY <2>1 DEF Mail
  <2> QED BY <1>1, <2>1, <2>2, <2>3, <2>6, <2>7, RunStep
<1>6. CASE runs' = [At(r, "answered") EXCEPT ![r].lost = TRUE] /\ UNCHANGED <<msgs, inbox, line, lastId>>
  <2>1. TablesGoOn /\ MailKept
    BY <1>1, <1>6, TablesStay DEF MailInv
  <2>2. runs[r] \in RunsOf(1..lastRec', 1..lastChat')
    BY <2>1, IdsGrow, MoreRuns DEF MailInv, MailTypes, RunTypes
  <2>3. /\ DOMAIN runs' = DOMAIN runs
        /\ runs'[r] = [[runs[r] EXCEPT !.st = "answered"] EXCEPT !.lost = TRUE]
        /\ \A x \in DOMAIN runs : x # r => runs'[x] = runs[x]
    BY <1>6 DEF At
  <2>4. /\ runs'[r] \in RunsOf(1..lastRec', 1..lastChat') /\ runs'[r].st = "answered" /\ runs'[r].lost
        /\ runs'[r].stopped = runs[r].stopped
        /\ runs'[r].chat = runs[r].chat /\ runs'[r].rec = runs[r].rec /\ runs'[r].kind = runs[r].kind
        /\ runs'[r].to = runs[r].to /\ runs'[r].route = runs[r].route /\ runs'[r].key = runs[r].key
    BY <1>2, <2>2, <2>3 DEF RunsOf
  <2>5. RunGoesOnAs(r)
    BY <1>1, <1>2, <2>3, <2>4 DEF RunGoesOnAs, SameRun
  <2>6. RunsGoOn
    BY <2>1, <2>3, <2>5, RunsStay DEF RunsGoOn, MailInv
  <2>7. TasksEnd /\ msgs' \subseteq Mail
    BY <1>6, <2>3, <2>4 DEF TasksEnd, Settled, Mail
  <2> QED BY <1>1, <1>6, <2>1, <2>3, <2>6, <2>7, RunStep
<1> QED BY <1>4, <1>5, <1>6 DEF DeliverReply, Reply

-----------------------------------------------------------------------------
(* The tools of a run.                                                     *)

LEMMA SpawnStep ==
    ASSUME MailInv, NEW r \in DOMAIN runs, ToolSpawn(r) \/ SpawnRecord(r) \/ SpawnChat(r) \/ SpawnTask(r)
    PROVE  MailInv'
<1> DEFINE op == runs[r].op
<1>1. UNCHANGED <<req, claims>>
  BY DEF ToolSpawn, SpawnRecord, SpawnChat, SpawnTask, Calm
<1>2. /\ op.at \in {"record", "chat", "task"} => op.from \in 1..lastChat
      /\ op.at \in {"chat", "task"} => op.rec \in 1..lastRec
      /\ op.at = "task" => op.chat \in 1..lastChat
  BY OpFacts
<1>3. runs[r].rec \in 1..lastRec /\ runs[r].chat \in 1..lastChat /\ r \in Nat /\ lastRec \in Nat /\ lastChat \in Nat
  BY RunFacts DEF MailInv, MailTypes, RecTypes, ChatTypes
<1>4. NoOp \in OpsOf(1..lastRec', 1..lastChat')
  BY DEF OpsOf
<1>5. CASE ToolSpawn(r)
  <2>1. PICK c \in CallerChat(r) :
          /\ chats' = c.table /\ lastChat' = c.last /\ runs' = Does(r, [at |-> "record", from |-> c.id])
    BY <1>5 DEF ToolSpawn
  <2>2. UNCHANGED <<recs, lastRec, msgs, lastId>>
    BY <1>5 DEF ToolSpawn, NoMail
  <2>3. TablesGoOn /\ c.id \in 1..lastChat'
    BY <2>1, <2>2, ChatOfCaller DEF MailInv
  <2>4. [at |-> "record", from |-> c.id] \in OpsOf(1..lastRec', 1..lastChat')
    BY <2>3 DEF OpsOf
  <2> QED BY <1>1, <2>1, <2>2, <2>3, <2>4, ToolStep
<1>6. CASE SpawnRecord(r)
  <2>1. op.at = "record" /\ UNCHANGED <<chats, lastChat, msgs, lastId>>
    BY <1>6 DEF SpawnRecord, NoMail
  <2>2. CASE runs' = OpDone(r) /\ UNCHANGED <<recs, lastRec>>
    <3>1. TablesGoOn
      BY <2>1, <2>2, TablesStay DEF MailInv
    <3> QED BY <1>1, <1>4, <2>1, <2>2, <3>1, ToolStep DEF OpDone
  <2>3. CASE /\ AddRecord(runs[r].rec)
             /\ runs' = Does(r, [at |-> "chat", from |-> op.from, rec |-> lastRec + 1])
    <3>1. TablesGoOn /\ lastRec + 1 \in 1..lastRec'
      BY <1>3, <2>1, <2>3, RecordAdded DEF MailInv
    <3>2. [at |-> "chat", from |-> op.from, rec |-> lastRec + 1] \in OpsOf(1..lastRec', 1..lastChat')
      BY <1>2, <2>1, <3>1 DEF OpsOf
    <3> QED BY <1>1, <2>1, <2>3, <3>1, <3>2, ToolStep
  <2> QED BY <1>6, <2>2, <2>3 DEF SpawnRecord
<1>7. CASE SpawnChat(r)
  <2>1. op.at = "chat" /\ UNCHANGED <<recs, lastRec, msgs, lastId>>
    BY <1>7 DEF SpawnChat, NoMail
  <2>2. CASE runs' = OpDone(r) /\ UNCHANGED <<chats, lastChat>>
    <3>1. TablesGoOn
      BY <2>1, <2>2, TablesStay DEF MailInv
    <3> QED BY <1>1, <1>4, <2>1, <2>2, <3>1, ToolStep DEF OpDone
  <2>3. CASE /\ CanAddChat(op.rec) /\ AddChat(op.rec, op.from)
             /\ runs' = Does(r, [at |-> "task", from |-> op.from, rec |-> op.rec, chat |-> lastChat + 1])
    <3>1. op.rec \in DOMAIN recs /\ op.from \in Nat
      BY <1>2, <1>3, <2>1, <2>3 DEF CanAddChat
    <3>2. TablesGoOn /\ lastChat + 1 \in 1..lastChat'
      BY <2>1, <2>3, <3>1, ChatAdded DEF MailInv, AddChat
    <3>3. op.from \in 1..lastChat' /\ op.rec \in 1..lastRec'
      BY <1>2, <2>1, <3>2, IdsGrow DEF MailInv
    <3>4. [at |-> "task", from |-> op.from, rec |-> op.rec, chat |-> lastChat + 1]
            \in OpsOf(1..lastRec', 1..lastChat')
      BY <3>2, <3>3 DEF OpsOf
    <3> QED BY <1>1, <2>1, <2>3, <3>2, <3>4, ToolStep
  <2> QED BY <1>7, <2>2, <2>3 DEF SpawnChat
<1>8. CASE SpawnTask(r)
  <2>1. op.at = "task" /\ UNCHANGED <<recs, chats, lastRec, lastChat>>
    BY <1>8 DEF SpawnTask
  <2>2. CASE runs' = OpDone(r) /\ NoMail
    <3>1. TablesGoOn
      BY <2>1, TablesStay DEF MailInv
    <3> QED BY <1>1, <1>4, <2>2, <3>1, ToolStep DEF OpDone, NoMail
  <2>3. CASE Deliver(OpDone(r), NewRun(op.chat, op.rec, "spawn", Zero,
                       [rec |-> runs[r].rec, chat |-> op.from], NoClaim), TRUE)
    <3>1. PICK n : n = NewRun(op.chat, op.rec, "spawn", Zero,
                              [rec |-> runs[r].rec, chat |-> op.from], NoClaim)
      OBVIOUS
    <3>2. [rec |-> runs[r].rec, chat |-> op.from] \in RoutesOf(1..lastRec, 1..lastChat)
      BY <1>2, <1>3, <2>1 DEF RoutesOf
    <3>3. [rec |-> runs[r].rec, chat |-> op.from] # NoRoute
      BY <1>3 DEF NoRoute, Zero
    <3>4. "spawn" \in Kinds /\ Zero \in Nat /\ NoClaim \in KeyWindows \cup {NoClaim}
      BY DEF Kinds, Zero
    <3>5. /\ n \in RunsOf(1..lastRec, 1..lastChat) /\ n.st = "waiting" /\ n.key = NoClaim
          /\ n.kind = "spawn" /\ n.route # NoRoute
      BY <1>2, <2>1, <3>1, <3>2, <3>3, <3>4 DEF NewRun, RunsOf, Stages, OpsOf
    <3>6. n.kind # "reply" /\ (n.kind = "spawn" <=> n.route # NoRoute) /\ Deliver(OpDone(r), n, TRUE)
      BY <2>3, <3>1, <3>5
    <3> QED BY <1>1, <2>1, <3>5, <3>6, ToolMail
  <2> QED BY <1>8, <2>2, <2>3 DEF SpawnTask
<1> QED BY <1>5, <1>6, <1>7, <1>8

LEMMA SendStep ==
    ASSUME MailInv, NEW r \in DOMAIN runs, ToolSend(r) \/ SendChat(r) \/ SendMail(r)
    PROVE  MailInv'
<1> DEFINE op == runs[r].op
<1>1. UNCHANGED <<req, claims, recs, lastRec>>
  BY DEF ToolSend, SendChat, SendMail, Calm
<1>2. /\ op.at \in {"send", "report", "mail"} => op.to \in 1..lastRec /\ op.wake \in BOOLEAN
      /\ op.at = "mail" => op.chat \in 1..lastChat
  BY OpFacts
<1>3. NoOp \in OpsOf(1..lastRec', 1..lastChat')
  BY DEF OpsOf
<1>4. CASE ToolSend(r)
  <2>1. UNCHANGED <<chats, lastChat, msgs, lastId>>
    BY <1>4 DEF ToolSend, NoMail
  <2>2. TablesGoOn
    BY <1>1, <2>1, TablesStay DEF MailInv
  <2>3. PICK b \in Reachable(runs[r].rec), at \in {"send", "report"} :
          runs' = Does(r, [at |-> at, to |-> b, wake |-> recs[b].wake])
    BY <1>4 DEF ToolSend
  <2>4. b \in 1..lastRec /\ recs[b].wake \in BOOLEAN
    BY DEF Reachable, MailInv, MailTypes, RecTypes
  <2>5. [at |-> at, to |-> b, wake |-> recs[b].wake] \in OpsOf(1..lastRec', 1..lastChat')
    BY <1>1, <2>4 DEF OpsOf
  <2> QED BY <1>1, <2>1, <2>2, <2>3, <2>5, ToolStep
<1>5. CASE SendChat(r)
  <2>1. op.at \in {"send", "report"} /\ UNCHANGED <<msgs, lastId>>
    BY <1>5 DEF SendChat, NoMail
  <2>2. CASE runs' = OpDone(r) /\ UNCHANGED <<chats, lastChat>>
    <3>1. TablesGoOn
      BY <1>1, <2>2, TablesStay DEF MailInv
    <3> QED BY <1>1, <1>3, <2>1, <2>2, <3>1, ToolStep DEF OpDone
  <2>3. ASSUME NEW c, chats' = c.table, lastChat' = c.last,
               runs' = Does(r, [at |-> "mail", to |-> op.to, wake |-> op.wake, chat |-> c.id]),
               TablesGoOn, c.id \in 1..lastChat'
        PROVE  MailInv'
    <3>1. [at |-> "mail", to |-> op.to, wake |-> op.wake, chat |-> c.id]
            \in OpsOf(1..lastRec', 1..lastChat')
      BY <1>1, <1>2, <2>1, <2>3 DEF OpsOf
    <3> QED BY <1>1, <2>1, <2>3, <3>1, ToolStep
  <2>4. ASSUME NEW c \in PrimaryChat(op.to), chats' = c.table, lastChat' = c.last,
               runs' = Does(r, [at |-> "mail", to |-> op.to, wake |-> op.wake, chat |-> c.id])
        PROVE  MailInv'
    <3>1. TablesGoOn /\ c.id \in 1..lastChat'
      BY <1>1, <2>4, ChatPrimary DEF MailInv
    <3> QED BY <2>3, <2>4, <3>1
  <2>5. ASSUME NEW i \in Spawner(r, op.to), NEW c, c = [id |-> i, table |-> chats, last |-> lastChat],
               chats' = c.table, lastChat' = c.last,
               runs' = Does(r, [at |-> "mail", to |-> op.to, wake |-> op.wake, chat |-> c.id])
        PROVE  MailInv'
    <3>1. UNCHANGED <<chats, lastChat>> /\ c.id = i
      BY <2>5
    <3>2. i \in 1..lastChat
      BY DEF Spawner, MailInv, MailTypes, ChatTypes
    <3>3. TablesGoOn /\ c.id \in 1..lastChat'
      BY <1>1, <3>1, <3>2, TablesStay DEF MailInv
    <3> QED BY <2>3, <2>5, <3>3
  <2>6. \/ runs' = OpDone(r) /\ UNCHANGED <<chats, lastChat>>
        \/ \E c \in PrimaryChat(op.to) \cup
                    {[id |-> i, table |-> chats, last |-> lastChat] : i \in Spawner(r, op.to)} :
             /\ chats' = c.table /\ lastChat' = c.last
             /\ runs' = Does(r, [at |-> "mail", to |-> op.to, wake |-> op.wake, chat |-> c.id])
    BY <1>5 DEF SendChat
  <2> QED BY <2>2, <2>4, <2>5, <2>6
<1>6. CASE SendMail(r)
  <2>1. op.at = "mail" /\ UNCHANGED <<chats, lastChat>>
    BY <1>6 DEF SendMail
  <2>2. CASE runs' = OpDone(r) /\ NoMail
    <3>1. TablesGoOn
      BY <1>1, <2>1, TablesStay DEF MailInv
    <3> QED BY <1>1, <1>3, <2>2, <3>1, ToolStep DEF OpDone, NoMail
  <2>3. CASE Deliver(OpDone(r), NewRun(op.chat, op.to, "message", Zero, NoRoute, NoClaim), op.wake)
    <3>1. PICK n : n = NewRun(op.chat, op.to, "message", Zero, NoRoute, NoClaim)
      OBVIOUS
    <3>2. /\ n \in RunsOf(1..lastRec, 1..lastChat) /\ n.st = "waiting" /\ n.key = NoClaim
          /\ n.kind = "message" /\ n.route = NoRoute
      <4>1. "message" \in Kinds /\ Zero \in Nat /\ NoClaim \in KeyWindows \cup {NoClaim}
            /\ NoRoute \in RoutesOf(1..lastRec, 1..lastChat)
        BY DEF Kinds, Zero, RoutesOf
      <4> QED BY <1>2, <2>1, <3>1, <4>1 DEF NewRun, RunsOf, Stages, OpsOf
    <3>3. n.kind # "reply" /\ (n.kind = "spawn" <=> n.route # NoRoute) /\ Deliver(OpDone(r), n, op.wake)
      BY <2>3, <3>1, <3>2
    <3> QED BY <1>1, <1>2, <2>1, <3>2, <3>3, ToolMail
  <2> QED BY <1>6, <2>2, <2>3 DEF SendMail
<1> QED BY <1>4, <1>5, <1>6

LEMMA ListStep ==
    ASSUME MailInv, NEW r \in DOMAIN runs, ToolList(r)
    PROVE  MailInv'
<1>1. UNCHANGED <<req, claims, msgs, lastId, recs, lastRec, runs>>
  BY DEF ToolList, Calm, NoMail
<1>2. PICK b \in DOMAIN recs : AddChat(b, Zero)
  BY DEF ToolList, Reachable
<1>3. TablesGoOn
  <2>1. Zero \in Nat
    BY DEF Zero
  <2> QED BY <1>1, <1>2, <2>1, ChatAdded DEF MailInv, AddChat
<1> QED BY <1>1, <1>3, RunsIdle, RunStep

\* Runs are stopped, by a tool or a person.
LEMMA StopStep ==
    ASSUME MailInv, NEW S, StopRuns(S), UNCHANGED <<recs, chats, msgs, lastRec, lastChat>>,
           UNCHANGED <<claims, lastId>>
    PROVE  /\ UNCHANGED req => MailInv'
           /\ \A p \in Humans, q \in ReqsOf(1..lastRec, 1..lastChat) :
                q.at # "submit" /\ req' = [req EXCEPT ![p] = q] => MailInv'
<1>1. TablesGoOn /\ MailKept
  BY TablesStay DEF MailInv
<1>2. DOMAIN runs' = DOMAIN runs /\ RunsGoOn /\ TasksEnd /\ msgs' \subseteq Mail
  BY <1>1, RunsStop DEF MailInv, Mail
<1> QED BY <1>1, <1>2, RunStep, RequestStep

-----------------------------------------------------------------------------
(* Posts and their keys.                                                   *)

LEMMA ReqFacts ==
    ASSUME MailInv, NEW p \in Humans
    PROVE  /\ req[p].at \in {"claim", "submit"} =>
                /\ req[p].chat \in 1..lastChat /\ req[p].rec \in 1..lastRec
           /\ req[p].at = "claim" => req[p].key \in Keys
           /\ req[p].at = "submit" => req[p].key \in KeyWindows
           /\ req[p].at \in {"record", "chat"} =>
                req[p] \in [at : {"record", "chat"}, from : 1..lastChat, rec : 1..lastRec]
<1>1. req[p] \in ReqsOf(1..lastRec, 1..lastChat)
  BY DEF MailInv, MailTypes, ReqTypes
<1> QED BY <1>1 DEF ReqsOf, Free

\* Only requests, keys and what they were answered with change.
LEMMA ClaimLeaves ==
    ASSUME MailInv, UNCHANGED <<recs, chats, msgs, runs, lastRec, lastChat>>,
           lastId' \in Nat, lastId <= lastId'
    PROVE  /\ MailIds' /\ Answers' /\ Routes' /\ TasksSettled'
           /\ RecTypes' /\ ChatTypes' /\ RunTypes' /\ Mail' = Mail
<1>1. Mail' = Mail
  BY DEF Mail
<1>2. 1..lastId \subseteq 1..lastId'
  BY MoreIds DEF MailInv, MailTypes, ReqTypes
<1>3. MailIds' /\ Answers'
  BY <1>1, <1>2 DEF MailInv, MailIds, Answers, Answered
<1>4. Routes' /\ TasksSettled'
  BY DEF MailInv, Routes, TasksSettled, Settled, Live
<1>5. RecTypes' /\ ChatTypes' /\ RunTypes'
  BY DEF MailInv, MailTypes, RecTypes, ChatTypes, RunTypes
<1> QED BY <1>1, <1>3, <1>4, <1>5

LEMMA ClaimStep ==
    ASSUME MailInv, NEW p \in Humans, Claim(p)
    PROVE  MailInv'
<1> DEFINE q == req[p]
<1>1. /\ q.at = "claim" /\ UNCHANGED <<recs, chats, lastRec, lastChat, runs, msgs>> /\ UNCHANGED age
  BY DEF Claim, ClaimIn, Fixed, TakeKey
<1>2. /\ q.chat \in 1..lastChat /\ q.rec \in 1..lastRec /\ q.key \in Keys
  BY <1>1, ReqFacts
<1>3. /\ req \in [Humans -> ReqsOf(1..lastRec, 1..lastChat)] /\ won \in [KeyWindows -> Nat] /\ lastId \in Nat
      /\ age \in [Keys -> 0..MaxWindows] /\ keys \in [Keys -> [run : Nat, win : 0..MaxWindows]]
      /\ \A t \in KeyWindows : said[t] \subseteq {won[t]} \ {Zero}
      /\ \A r \in DOMAIN runs : runs[r].key # NoClaim => won[runs[r].key] = r
  BY DEF MailInv, MailTypes, ReqTypes, KeyedRuns
<1>c. PICK c : c = <<q.key, age[q.key]>>
  OBVIOUS
<1>d. c \in KeyWindows /\ won[c] = IF Fresh(q.key) THEN keys[q.key].run ELSE Zero
  BY <1>2, <1>3, <1>c DEF KeyWindows, MailInv, KeyRows
<1>4. CASE Fresh(q.key)
  <2>1. /\ req' = [req EXCEPT ![p] = Free] /\ UNCHANGED <<keys, age, won, lastId>>
        /\ said' = [said EXCEPT ![c] = @ \cup {won[c]}]
    BY <1>4, <1>c, <1>d DEF Claim, ClaimIn, Go
  <2>2. /\ MailIds' /\ Answers' /\ Routes' /\ TasksSettled'
        /\ RecTypes' /\ ChatTypes' /\ RunTypes' /\ Mail' = Mail
    BY <1>1, <1>3, <2>1, ClaimLeaves
  <2>3. ReqTypes'
    <3>1. Free \in ReqsOf(1..lastRec, 1..lastChat)
      BY DEF ReqsOf
    <3> QED BY <1>1, <1>3, <2>1, <3>1 DEF ReqTypes
  <2>4. PostIds'
    <3>1. \A x \in Humans : Posting(x)' => Posting(x) /\ req'[x] = req[x]
      BY <1>3, <2>1 DEF Posting, Free
    <3> QED BY <2>1, <2>2, <3>1 DEF MailInv, PostIds, Posting
  <2>5. KeyedRuns'
    <3>1. \A t \in KeyWindows : said'[t] \subseteq said[t] \cup (IF t = c THEN {won[t]} ELSE {})
      BY <2>1
    <3>2. won[c] # Zero
      BY <1>4, <1>d DEF Fresh
    <3>3. \A t \in KeyWindows : said'[t] \subseteq {won[t]} \ {Zero}
      BY <1>3, <3>1, <3>2
    <3> QED BY <1>1, <1>3, <2>1, <3>3 DEF KeyedRuns
  <2>6. KeyRows'
    BY <2>1 DEF MailInv, KeyRows, Fresh
  <2> QED BY <2>2, <2>3, <2>4, <2>5, <2>6 DEF MailInv, MailTypes
<1>5. CASE ~Fresh(q.key)
  <2>1. /\ req' = [req EXCEPT ![p] = Claimed(q)] /\ lastId' = lastId + 1 /\ UNCHANGED said
        /\ won' = [won EXCEPT ![c] = lastId + 1]
        /\ keys' = [keys EXCEPT ![q.key] = [run |-> lastId + 1, win |-> age[q.key]]]
    BY <1>5, <1>c DEF Claim, ClaimIn, TakeKey, Go
  <2>2. /\ lastId' \in Nat /\ lastId <= lastId' /\ lastId + 1 \in 1..lastId' /\ lastId + 1 # Zero
        /\ \A i \in 1..lastId : i # lastId + 1 /\ i \in 1..lastId' /\ i # Zero
    BY <1>3, <2>1 DEF Zero
  <2>3. /\ MailIds' /\ Answers' /\ Routes' /\ TasksSettled'
        /\ RecTypes' /\ ChatTypes' /\ RunTypes' /\ Mail' = Mail
    BY <1>1, <2>2, ClaimLeaves
  <2>4. /\ Claimed(q) \in ReqsOf(1..lastRec, 1..lastChat) /\ Claimed(q).id = lastId + 1
        /\ Claimed(q).key = c /\ Claimed(q).at = "submit"
    BY <1>2, <1>3, <1>c, <1>d DEF Claimed, ReqsOf
  <2>5. ReqTypes'
    <3>1. [run |-> lastId + 1, win |-> age[q.key]] \in [run : Nat, win : 0..MaxWindows]
      BY <1>2, <1>3
    <3>2. keys' \in [Keys -> [run : Nat, win : 0..MaxWindows]]
      BY <1>2, <1>3, <2>1, <3>1
    <3>3. won' \in [KeyWindows -> Nat]
      BY <1>3, <1>d, <2>1, <2>2
    <3> QED BY <1>1, <1>3, <2>1, <2>2, <2>4, <3>2, <3>3 DEF ReqTypes
  <2>6. /\ req'[p] = Claimed(q) /\ won'[c] = lastId + 1
        /\ \A x \in Humans : x # p => req'[x] = req[x]
        /\ \A t \in KeyWindows : t # c => won'[t] = won[t]
    BY <1>3, <1>d, <2>1
  <2>7. \A m \in Mail : m.id \in 1..lastId
    BY DEF MailInv, MailIds
  <2>8. ASSUME NEW x \in Humans, x # p, Posting(x)'
        PROVE  /\ Posting(x) /\ req'[x] = req[x] /\ req[x].id \in 1..lastId
               /\ won'[req[x].key] = req[x].id /\ \A m \in Mail : m.id # req[x].id
    <3>1. Posting(x) /\ req'[x] = req[x] /\ req[x].key \in KeyWindows
      BY <2>6, <2>8, ReqFacts DEF Posting
    <3>2. /\ req[x].id \in 1..lastId /\ won[req[x].key] = req[x].id
          /\ \A m \in Mail : m.id # req[x].id
      BY <3>1 DEF MailInv, PostIds
    <3>3. req[x].key # c
      BY <1>5, <1>d, <2>2, <3>2
    <3> QED BY <2>6, <3>1, <3>2, <3>3
  <2>9. PostIds'
    <3>1. ASSUME NEW x \in Humans, Posting(x)'
          PROVE  /\ req'[x].id \in 1..lastId' /\ won'[req'[x].key] = req'[x].id
                 /\ \A m \in Mail' : m.id # req'[x].id
      BY <2>2, <2>3, <2>4, <2>6, <2>7, <2>8, <3>1
    <3>2. ASSUME NEW x \in Humans, NEW y \in Humans, Posting(x)', Posting(y)', req'[x].id = req'[y].id
          PROVE  x = y
      <4>1. CASE x = p \/ y = p
        BY <2>2, <2>4, <2>6, <2>8, <3>2, <4>1
      <4>2. CASE x # p /\ y # p
        BY <2>8, <3>2, <4>2 DEF MailInv, PostIds
      <4> QED BY <4>1, <4>2
    <3> QED BY <3>1, <3>2 DEF PostIds
  <2>10. KeyedRuns'
    <3>1. said[c] = {}
      BY <1>3, <1>5, <1>d
    <3>2. ASSUME NEW r \in DOMAIN runs, runs[r].key # NoClaim PROVE won'[runs[r].key] = r
      <4>1. won[runs[r].key] = r /\ runs[r].key \in KeyWindows
        BY <1>3, <3>2, RunFacts DEF RunsOf
      <4>2. Msg(r, runs[r]) \in Mail /\ Msg(r, runs[r]).id = r
        BY DEF Mail, Msg
      <4>3. r # Zero
        BY <2>2, <2>7, <4>2
      <4> QED BY <1>5, <1>d, <2>6, <4>1, <4>3
    <3>3. \A t \in KeyWindows : said[t] \subseteq {won'[t]} \ {Zero}
      BY <1>3, <2>6, <3>1
    <3> QED BY <1>1, <2>1, <3>2, <3>3 DEF KeyedRuns
  <2>11. KeyRows'
    <3> SUFFICES ASSUME NEW k \in Keys
                 PROVE  /\ won'[<<k, age[k]>>] = IF Fresh(k)' THEN keys'[k].run ELSE Zero
                        /\ \A w \in 0..MaxWindows : w > age[k] => won'[<<k, w>>] = Zero
      BY <1>1 DEF KeyRows
    <3>1. \A w \in 0..MaxWindows : <<k, w>> \in KeyWindows
      BY DEF KeyWindows
    <3>2. /\ won[<<k, age[k]>>] = IF Fresh(k) THEN keys[k].run ELSE Zero
          /\ \A w \in 0..MaxWindows : w > age[k] => won[<<k, w>>] = Zero
      BY DEF MailInv, KeyRows
    <3>3. age[k] \in 0..MaxWindows
      BY <1>3
    <3>4. CASE k = q.key
      <4>1. \A w \in 0..MaxWindows : w > age[k] => <<k, w>> # c
        BY <1>c, <3>3, <3>4
      <4>2. keys'[k] = [run |-> lastId + 1, win |-> age[k]]
        BY <1>2, <1>3, <2>1, <3>4
      <4>3. Fresh(k)' /\ keys'[k].run = lastId + 1
        BY <1>1, <2>2, <4>2 DEF Fresh
      <4>4. won'[<<k, age[k]>>] = lastId + 1
        BY <1>c, <2>6, <3>4
      <4> QED BY <2>6, <3>1, <3>2, <4>1, <4>3, <4>4
    <3>5. CASE k # q.key
      <4>1. \A w \in 0..MaxWindows : <<k, w>> # c
        BY <1>c, <3>5
      <4>2. keys'[k] = keys[k]
        BY <1>3, <2>1, <3>5
      <4>3. Fresh(k)' <=> Fresh(k)
        BY <1>1, <4>2 DEF Fresh
      <4>4. \A w \in 0..MaxWindows : won'[<<k, w>>] = won[<<k, w>>]
        BY <2>6, <3>1, <4>1
      <4> QED BY <3>2, <3>3, <4>2, <4>3, <4>4
    <3> QED BY <3>4, <3>5
  <2> QED BY <2>3, <2>5, <2>9, <2>10, <2>11 DEF MailInv, MailTypes
<1> QED BY <1>4, <1>5

\* The window of a key runs out, and rows that are that old are deleted.
LEMMA WindowStep ==
    ASSUME MailInv, PurgeRuns \/ \E k \in Keys : Expire(k)
    PROVE  MailInv'
<1>1. /\ UNCHANGED <<recs, chats, lastRec, lastChat, runs, msgs>> /\ UNCHANGED <<won, said, req, lastId>>
  BY DEF PurgeRuns, Expire, Fixed, NoMail
<1>2. /\ won \in [KeyWindows -> Nat] /\ lastId \in Nat
      /\ age \in [Keys -> 0..MaxWindows] /\ keys \in [Keys -> [run : Nat, win : 0..MaxWindows]]
  BY DEF MailInv, MailTypes, ReqTypes
<1>3. /\ MailIds' /\ Answers' /\ Routes' /\ TasksSettled'
      /\ RecTypes' /\ ChatTypes' /\ RunTypes' /\ Mail' = Mail
  BY <1>1, <1>2, ClaimLeaves
<1>4. PostIds' /\ KeyedRuns'
  BY <1>1, <1>3 DEF MailInv, PostIds, Posting, KeyedRuns
<1>5. ASSUME NEW k \in Keys, Expire(k)
      PROVE  age' \in [Keys -> 0..MaxWindows] /\ keys' \in [Keys -> [run : Nat, win : 0..MaxWindows]] /\ KeyRows'
  <2>1. /\ Fresh(k) /\ age[k] < MaxWindows /\ age' = [age EXCEPT ![k] = @ + 1] /\ UNCHANGED keys
    BY <1>5 DEF Expire
  <2>2. age[k] \in 0..MaxWindows /\ age[k] + 1 \in 0..MaxWindows
    BY <1>2, <2>1, MailAssumption
  <2>3. /\ age' \in [Keys -> 0..MaxWindows] /\ age'[k] = age[k] + 1
        /\ \A x \in Keys : x # k => age'[x] = age[x]
    BY <1>2, <2>1, <2>2
  <2>4. ~Fresh(k)' /\ \A x \in Keys : x # k => (Fresh(x)' <=> Fresh(x))
    BY <2>1, <2>2, <2>3 DEF Fresh
  <2>5. \A w \in 0..MaxWindows : w > age[k] => won[<<k, w>>] = Zero
    BY DEF MailInv, KeyRows
  <2>6. /\ won[<<k, age'[k]>>] = Zero
        /\ \A w \in 0..MaxWindows : w > age'[k] => won[<<k, w>>] = Zero
    BY <2>2, <2>3, <2>5
  <2>7. \A x \in Keys : x # k => /\ won[<<x, age'[x]>>] = IF Fresh(x)' THEN keys'[x].run ELSE Zero
                                 /\ \A w \in 0..MaxWindows : w > age'[x] => won[<<x, w>>] = Zero
    BY <2>1, <2>3, <2>4 DEF MailInv, KeyRows
  <2>8. KeyRows'
    <3> SUFFICES ASSUME NEW x \in Keys
                 PROVE  /\ won[<<x, age'[x]>>] = IF Fresh(x)' THEN keys'[x].run ELSE Zero
                        /\ \A w \in 0..MaxWindows : w > age'[x] => won[<<x, w>>] = Zero
      BY <1>1 DEF KeyRows
    <3>1. CASE x = k
      BY <2>4, <2>6, <3>1
    <3>2. CASE x # k
      BY <2>7, <3>2
    <3> QED BY <3>1, <3>2
  <2> QED BY <1>2, <2>1, <2>3, <2>8
<1>6. ASSUME PurgeRuns
      PROVE  age' \in [Keys -> 0..MaxWindows] /\ keys' \in [Keys -> [run : Nat, win : 0..MaxWindows]] /\ KeyRows'
  <2>1. /\ keys' = [k \in Keys |-> IF Fresh(k) THEN keys[k] ELSE [keys[k] EXCEPT !.run = Zero]]
        /\ UNCHANGED age
    BY <1>6 DEF PurgeRuns
  <2>2. \A k \in Keys : /\ Fresh(k) => keys'[k] = keys[k]
                        /\ ~Fresh(k) => keys'[k].run = Zero
                        /\ keys'[k] \in [run : Nat, win : 0..MaxWindows]
    BY <1>2, <2>1 DEF Zero
  <2>3. \A k \in Keys : Fresh(k)' <=> Fresh(k)
    BY <2>1, <2>2 DEF Fresh
  <2>4. KeyRows'
    BY <1>1, <2>1, <2>2, <2>3 DEF MailInv, KeyRows
  <2> QED BY <1>2, <2>1, <2>2, <2>4
<1>7. ReqTypes' /\ KeyRows'
  BY <1>1, <1>2, <1>5, <1>6 DEF MailInv, MailTypes, ReqTypes
<1> QED BY <1>3, <1>4, <1>7 DEF MailInv, MailTypes

LEMMA PostSubmitStep ==
    ASSUME MailInv, NEW p \in Humans, PostSubmit(p)
    PROVE  MailInv'
<1> DEFINE q == req[p]
<1>1. /\ q.at = "submit" /\ req' = [req EXCEPT ![p] = Free]
      /\ UNCHANGED <<recs, chats, lastRec, lastChat, keys, age, won, lastId>>
  BY DEF PostSubmit, Fixed, Go
<1>2. /\ q.chat \in 1..lastChat /\ q.rec \in 1..lastRec /\ q.key \in KeyWindows
      /\ q.id \in 1..lastId /\ won[q.key] = q.id /\ (\A m \in Mail : m.id # q.id) /\ q.id # Zero
  <2>1. q.id \in 1..lastId
    BY <1>1 DEF MailInv, PostIds, Posting
  <2>2. q.id # Zero
    BY <2>1 DEF Zero
  <2> QED BY <1>1, <2>1, <2>2, ReqFacts DEF MailInv, PostIds, Posting
<1>3. TablesGoOn
  BY <1>1, TablesStay DEF MailInv
<1>4. Free \in ReqsOf(1..lastRec, 1..lastChat) /\ Free.at # "submit"
  BY DEF ReqsOf, Free
<1>5. CASE UNCHANGED <<runs, msgs, line, said>>
  BY <1>1, <1>3, <1>4, <1>5, RunsIdle, RequestStep DEF claims
<1>6. ASSUME NEW n, n = NewRun(q.chat, q.rec, "human", Zero, NoRoute, q.key), Submit(runs, q.id, n),
             said' = IF q.id \in DOMAIN runs' THEN [said EXCEPT ![q.key] = @ \cup {q.id}] ELSE said
      PROVE  MailInv'
  <2>1. /\ n \in RunsOf(1..lastRec, 1..lastChat) /\ n.st = "waiting" /\ n.key = q.key
        /\ n.kind = "human" /\ n.route = NoRoute
    <3>1. "human" \in Kinds /\ Zero \in Nat /\ NoRoute \in RoutesOf(1..lastRec, 1..lastChat)
      BY DEF Kinds, Zero, RoutesOf
    <3> QED BY <1>2, <1>6, <3>1 DEF NewRun, RunsOf, Stages, OpsOf
  <2>2. q.id \notin DOMAIN runs
    <3>1. \A r \in DOMAIN runs : Msg(r, runs[r]) \in Mail /\ Msg(r, runs[r]).id = r
      BY DEF Mail, Msg
    <3> QED BY <1>2, <3>1
  <2>3. /\ msgs' = msgs \/ msgs' = msgs \cup {Msg(q.id, n)}
        /\ \A r \in DOMAIN runs : r \in DOMAIN runs' /\ runs'[r] = runs[r]
        /\ \A r \in DOMAIN runs' : r \notin DOMAIN runs =>
             /\ r = q.id /\ runs'[r] \in RunsOf(1..lastRec, 1..lastChat)
             /\ Msg(r, runs'[r]) = Msg(q.id, n)
             /\ runs'[r].kind = n.kind /\ runs'[r].to = n.to
             /\ runs'[r].route = n.route /\ runs'[r].key = n.key
             /\ runs'[r].st \in Over => runs'[r].stopped
             /\ runs'[r].st = "waiting" \/ runs'[r].stopped
    BY <1>6, <2>1, <2>2, Submitted
  <2> HIDE DEF q
  <2>4. RunsGoOn
    BY <1>3, <2>3, RunsStay DEF RunsGoOn, MailInv
  <2>5. TasksEnd /\ MailKept
    BY <2>3 DEF TasksEnd, MailKept
  <2>6. RunTypes'
    <3> SUFFICES ASSUME NEW r \in DOMAIN runs' PROVE runs'[r] \in RunsOf(1..lastRec, 1..lastChat)
      BY <1>1 DEF RunTypes
    <3>1. CASE r \in DOMAIN runs
      BY <2>3, <3>1, RunFacts
    <3>2. CASE r \notin DOMAIN runs
      BY <2>3, <3>2
    <3> QED BY <3>1, <3>2
  <2>7. req \in [Humans -> ReqsOf(1..lastRec, 1..lastChat)] /\ lastId \in Nat
    BY DEF MailInv, MailTypes, ReqTypes
  <2>8. MailTypes'
    BY <1>1, <1>3, <1>4, <2>6, <2>7 DEF TablesGoOn, MailInv, MailTypes, ReqTypes
  <2>9. Mail' \subseteq Mail \cup {Msg(q.id, n)}
    <3>1. \A r \in DOMAIN runs : Msg(r, runs'[r]) = Msg(r, runs[r])
      BY <2>3
    <3>2. \A r \in DOMAIN runs' : r \notin DOMAIN runs => Msg(r, runs'[r]) = Msg(q.id, n)
      BY <2>3
    <3> QED BY <2>3, <3>1, <3>2 DEF Mail
  <2>10. MailIds' /\ Answers' /\ Routes' /\ TasksSettled'
    <3>1. q.id \in 1..lastId' /\ lastId <= lastId'
      BY <1>1, <1>2, <2>7
    <3>2. n.kind # "reply" /\ (n.kind = "spawn" <=> n.route # NoRoute)
      BY <2>1
    <3> QED BY <1>2, <1>3, <2>3, <2>4, <2>5, <2>8, <2>9, <3>1, <3>2, Arrival
  <2>11. PostIds'
    <3>1. \A x \in Humans : Posting(x)' => x # p /\ Posting(x) /\ req'[x] = req[x]
      BY <1>1, <1>4, <2>7 DEF Posting
    <3>2. \A x \in Humans : x # p /\ Posting(x) => req[x].id # q.id
      BY <1>1 DEF MailInv, PostIds, Posting, q
    <3>3. Msg(q.id, n).id = q.id
      BY DEF Msg
    <3> QED BY <1>1, <2>9, <3>1, <3>2, <3>3 DEF MailInv, PostIds
  <2>12. KeyedRuns'
    <3>1. \A t \in KeyWindows : said[t] \subseteq {won[t]} \ {Zero}
      BY DEF MailInv, KeyedRuns
    <3>2. \A t \in KeyWindows : said'[t] \subseteq said[t] \cup (IF t = q.key THEN {q.id} ELSE {})
      BY <1>6
    <3>3. \A t \in KeyWindows : said'[t] \subseteq {won'[t]} \ {Zero}
      BY <1>1, <1>2, <3>1, <3>2
    <3>4. \A r \in DOMAIN runs' : runs'[r].key # NoClaim => won'[runs'[r].key] = r
      BY <1>1, <1>2, <2>1, <2>3 DEF MailInv, KeyedRuns
    <3> QED BY <3>3, <3>4 DEF KeyedRuns
  <2>13. KeyRows'
    BY <1>1 DEF MailInv, KeyRows, Fresh
  <2> QED BY <2>8, <2>10, <2>11, <2>12, <2>13 DEF MailInv
<1> QED BY <1>5, <1>6 DEF PostSubmit

-----------------------------------------------------------------------------
(* The other requests of people.                                           *)

LEMMA CancelStep ==
    ASSUME MailInv, NEW r \in DOMAIN runs, ToolStop(r) \/ CancelRun(r)
    PROVE  MailInv'
<1>1. /\ UNCHANGED <<recs, chats, msgs, lastRec, lastChat>> /\ UNCHANGED <<claims, lastId>>
      /\ UNCHANGED req
  BY DEF ToolStop, CancelRun, Calm, Fixed, Spend
<1>2. PICK S : StopRuns(S)
  <2>1. CASE CancelRun(r)
    BY <2>1 DEF CancelRun
  <2>2. CASE ToolStop(r)
    <3>1. PICK b \in Below(recs, {runs[r].rec}) \ {runs[r].rec} :
            StopRuns({x \in DOMAIN runs : runs[x].rec \in Below(recs, {b})})
      BY <2>2 DEF ToolStop
    <3> QED BY <3>1
  <2> QED BY <2>1, <2>2
<1> QED BY <1>1, <1>2, StopStep

\* A request begins, goes on or ends, and nothing else happens.
LEMMA RequestAlone ==
    ASSUME MailInv, TablesGoOn, UNCHANGED <<runs, msgs, claims, lastId>>,
           NEW p \in Humans, NEW q \in ReqsOf(1..lastRec', 1..lastChat'), q.at # "submit",
           req' = [req EXCEPT ![p] = q]
    PROVE  MailInv'
BY RunsIdle, RequestStep

LEMMA BeginStep ==
    ASSUME MailInv, NEW p \in Humans, NEW c \in DOMAIN chats,
           CreateChat(p, c) \/ \E k \in Keys : Post(p, c, k)
    PROVE  MailInv'
<1>1. UNCHANGED <<recs, chats, lastRec, lastChat>> /\ UNCHANGED <<runs, msgs, claims, lastId>>
  BY DEF CreateChat, Post, Fixed, NoMail
<1>2. TablesGoOn
  BY <1>1, TablesStay DEF MailInv
<1>3. c \in 1..lastChat' /\ chats[c].rec \in 1..lastRec'
  BY <1>1 DEF MailInv, MailTypes, ChatTypes
<1>4. CASE CreateChat(p, c)
  <2>1. req' = [req EXCEPT ![p] = [at |-> "record", from |-> c, rec |-> chats[c].rec]]
    BY <1>4 DEF CreateChat, Start
  <2>2. [at |-> "record", from |-> c, rec |-> chats[c].rec] \in ReqsOf(1..lastRec', 1..lastChat')
    BY <1>3 DEF ReqsOf
  <2> QED BY <1>1, <1>2, <2>1, <2>2, RequestAlone
<1>5. ASSUME NEW k \in Keys, Post(p, c, k) PROVE MailInv'
  <2>1. req' = [req EXCEPT ![p] = [at |-> "claim", chat |-> c, rec |-> chats[c].rec, key |-> k]]
    BY <1>5 DEF Post, Start
  <2>2. [at |-> "claim", chat |-> c, rec |-> chats[c].rec, key |-> k] \in ReqsOf(1..lastRec', 1..lastChat')
    BY <1>3 DEF ReqsOf
  <2> QED BY <1>1, <1>2, <2>1, <2>2, RequestAlone
<1> QED BY <1>4, <1>5

LEMMA CreateStep ==
    ASSUME MailInv, NEW p \in Humans, CreateRecord(p) \/ CreateItsChat(p)
    PROVE  MailInv'
<1> DEFINE q == req[p]
<1>1. UNCHANGED <<runs, msgs, claims, lastId>>
  BY DEF CreateRecord, CreateItsChat, NoMail
<1>2. /\ q.at \in {"record", "chat"} /\ q \in [at : {"record", "chat"}, from : 1..lastChat, rec : 1..lastRec]
  BY ReqFacts DEF CreateRecord, CreateItsChat
<1>3. \A R, C : Free \in ReqsOf(R, C) /\ Free.at # "submit"
  BY DEF ReqsOf, Free
<1>4. lastRec \in Nat /\ lastChat \in Nat
  BY DEF MailInv, MailTypes, RecTypes, ChatTypes
<1>5. CASE TablesGoOn /\ Go(p, Free)
  BY <1>1, <1>3, <1>5, RequestAlone DEF Go
<1>6. CASE CreateRecord(p)
  <2>1. CASE CanAddRecord(q.rec)
    <3>1. /\ AddRecord(q.rec) /\ req' = [req EXCEPT ![p] = [q EXCEPT !.at = "chat", !.rec = lastRec + 1]]
          /\ UNCHANGED <<chats, lastChat>>
      BY <1>6, <2>1 DEF CreateRecord, Go
    <3>2. q.rec \in Nat
      BY <1>2, <1>4
    <3>3. TablesGoOn /\ lastRec + 1 \in 1..lastRec'
      BY <3>1, <3>2, RecordAdded DEF MailInv
    <3>4. PICK n : n = [q EXCEPT !.at = "chat", !.rec = lastRec + 1]
      OBVIOUS
    <3>5. n \in [at : {"chat"}, from : 1..lastChat', rec : 1..lastRec']
      BY <1>2, <3>1, <3>3, <3>4
    <3>6. n \in ReqsOf(1..lastRec', 1..lastChat') /\ n.at # "submit"
      BY <3>5 DEF ReqsOf
    <3> QED BY <1>1, <3>1, <3>3, <3>4, <3>6, RequestAlone
  <2>2. CASE ~CanAddRecord(q.rec)
    <3>1. Go(p, Free) /\ UNCHANGED <<recs, chats, lastRec, lastChat>>
      BY <1>6, <2>2 DEF CreateRecord
    <3> QED BY <1>5, <3>1, TablesStay DEF MailInv
  <2> QED BY <2>1, <2>2
<1>7. CASE CreateItsChat(p)
  <2>1. Go(p, Free) /\ UNCHANGED <<recs, lastRec>>
    BY <1>7 DEF CreateItsChat
  <2>2. CASE CanAddChat(q.rec)
    <3>1. q.rec \in DOMAIN recs /\ q.from \in Nat
      BY <1>2, <1>4, <2>2 DEF CanAddChat
    <3>2. AddChat(q.rec, q.from)
      BY <1>7, <2>2 DEF CreateItsChat
    <3>3. TablesGoOn
      BY <2>1, <3>1, <3>2, ChatAdded DEF MailInv, AddChat
    <3> QED BY <1>5, <2>1, <3>3
  <2>3. CASE ~CanAddChat(q.rec)
    BY <1>5, <1>7, <2>1, <2>3, TablesStay DEF CreateItsChat, MailInv
  <2> QED BY <2>2, <2>3
<1> QED BY <1>6, <1>7

LEMMA SetStep ==
    ASSUME MailInv, \/ \E a, b \in DOMAIN recs : SetEdge(a, b)
                    \/ \E a \in DOMAIN recs : SetWake(a)
    PROVE  MailInv'
<1>1. UNCHANGED <<chats, lastRec, lastChat, runs, msgs, claims, lastId, req>>
  BY DEF SetEdge, SetWake, NoMail, Spend
<1>2. TablesGoOn
  <2>1. CASE UNCHANGED recs
    BY <1>1, <2>1, TablesStay DEF MailInv
  <2>2. ASSUME NEW a \in DOMAIN recs, recs' = [recs EXCEPT ![a].wake = ~@] PROVE TablesGoOn
    <3>1. \A x \in DOMAIN recs : recs[x] \in [up : Nat, wake : BOOLEAN, dead : BOOLEAN]
      BY DEF MailInv, MailTypes, RecTypes
    <3>2. /\ DOMAIN recs' = DOMAIN recs /\ recs'[a] = [recs[a] EXCEPT !.wake = ~@]
          /\ \A x \in DOMAIN recs : x # a => recs'[x] = recs[x]
      BY <2>2
    <3>3. recs'[a] \in [up : Nat, wake : BOOLEAN, dead : BOOLEAN] /\ recs'[a].dead = recs[a].dead
      BY <3>1, <3>2
    <3> QED BY <1>1, <3>1, <3>2, <3>3, RecordsChange DEF MailInv
  <2> QED BY <2>1, <2>2 DEF SetEdge, SetWake
<1> QED BY <1>1, <1>2, RunsIdle, RunStep

LEMMA DeleteStep ==
    ASSUME MailInv, NEW p \in Humans,
           \/ \E c \in DOMAIN chats : DeleteChat(p, c)
           \/ \E a \in DOMAIN recs : DeleteAgent(p, a)
    PROVE  MailInv'
<1>1. CASE \E c \in DOMAIN chats : DeleteChat(p, c)
  <2>1. PICK c \in DOMAIN chats : DeleteChat(p, c)
    BY <1>1
  <2>2. /\ req' = [req EXCEPT ![p] = [at |-> "cascade", chat |-> c]]
        /\ StopRuns({r \in DOMAIN runs : runs[r].chat \in Below(chats, {c})})
        /\ UNCHANGED <<recs, chats, msgs, lastRec, lastChat>> /\ UNCHANGED <<claims, lastId>>
    BY <2>1 DEF DeleteChat, Start, Fixed
  <2>3. [at |-> "cascade", chat |-> c] \in ReqsOf(1..lastRec, 1..lastChat)
    BY DEF ReqsOf, MailInv, MailTypes, ChatTypes
  <2> QED BY <2>2, <2>3, StopStep
<1>2. CASE \E a \in DOMAIN recs : DeleteAgent(p, a)
  <2>1. PICK a \in DOMAIN recs : DeleteAgent(p, a)
    BY <1>2
  <2>2. PICK hard \in BOOLEAN : Start(p, [at |-> IF hard THEN "hard" ELSE "soft", rec |-> a])
    BY <2>1 DEF DeleteAgent
  <2>3. PICK q : q = [at |-> IF hard THEN "hard" ELSE "soft", rec |-> a]
    OBVIOUS
  <2>4. q \in ReqsOf(1..lastRec, 1..lastChat) /\ q.at # "submit"
    <3>1. a \in 1..lastRec
      BY DEF MailInv, MailTypes, RecTypes
    <3> QED BY <2>3, <3>1 DEF ReqsOf
  <2>5. /\ req' = [req EXCEPT ![p] = q]
        /\ StopRuns({r \in DOMAIN runs : runs[r].rec \in Below(recs, {a})})
        /\ UNCHANGED <<recs, chats, msgs, lastRec, lastChat>> /\ UNCHANGED <<claims, lastId>>
    BY <2>1, <2>2, <2>3 DEF DeleteAgent, Start, Fixed
  <2> QED BY <2>4, <2>5, StopStep
<1> QED BY <1>1, <1>2

LEMMA CascadeStep ==
    ASSUME MailInv, NEW p \in Humans, DeleteChatCascade(p) \/ DeleteRecords(p)
    PROVE  MailInv'
<1>1. /\ req' = [req EXCEPT ![p] = Free]
      /\ UNCHANGED <<runs, line, lastId, lastRec, lastChat, claims, stops>>
  BY DEF DeleteChatCascade, DeleteRecords, Go
<1>2. ASSUME TablesGoOn, MailKept, msgs' \subseteq msgs PROVE MailInv'
  <2>1. Free \in ReqsOf(1..lastRec', 1..lastChat') /\ Free.at # "submit"
    BY DEF ReqsOf, Free
  <2>2. RunsGoOn
    BY <1>1, <1>2, RunsStay DEF RunsGoOn, MailInv
  <2>3. TasksEnd /\ msgs' \subseteq Mail /\ DOMAIN runs' = DOMAIN runs
    BY <1>1, <1>2 DEF TasksEnd, Mail
  <2> QED BY <1>1, <1>2, <2>1, <2>2, <2>3, RequestStep
<1>3. ASSUME NEW C, NEW R, Remove(C, R) PROVE MailInv'
  BY <1>1, <1>2, <1>3, Removed DEF MailInv
<1>4. CASE UNCHANGED tables
  <2>1. TablesGoOn
    BY <1>1, <1>4, TablesStay DEF MailInv, tables
  <2> QED BY <1>2, <1>4, <2>1 DEF MailKept, tables
<1>5. ASSUME NEW R, UNCHANGED <<chats, msgs>>,
             recs' = [a \in DOMAIN recs |-> IF a \in R THEN [recs[a] EXCEPT !.dead = TRUE] ELSE recs[a]]
      PROVE  MailInv'
  <2>1. \A a \in DOMAIN recs : recs[a] \in [up : Nat, wake : BOOLEAN, dead : BOOLEAN]
    BY DEF MailInv, MailTypes, RecTypes
  <2>2. ASSUME NEW a \in DOMAIN recs
        PROVE  /\ recs'[a] \in [up : Nat, wake : BOOLEAN, dead : BOOLEAN]
               /\ recs[a].dead => recs'[a].dead
    <3>1. CASE a \in R
      <4>1. recs'[a] = [recs[a] EXCEPT !.dead = TRUE]
        BY <1>5, <3>1
      <4> QED BY <2>1, <4>1
    <3>2. CASE a \notin R
      BY <1>5, <2>1, <3>2
    <3> QED BY <3>1, <3>2
  <2>3. DOMAIN recs' = DOMAIN recs
    BY <1>5
  <2>4. TablesGoOn
    BY <1>1, <1>5, <2>2, <2>3, RecordsChange DEF MailInv
  <2> QED BY <1>2, <1>5, <2>4 DEF MailKept
<1>6. CASE DeleteChatCascade(p)
  BY <1>3, <1>4, <1>6 DEF DeleteChatCascade
<1>7. CASE DeleteRecords(p)
  BY <1>3, <1>4, <1>5, <1>7 DEF DeleteRecords
<1> QED BY <1>6, <1>7

LEMMA CrashStep ==
    ASSUME MailInv, Crash
    PROVE  MailInv'
<1>1. /\ UNCHANGED <<recs, chats, msgs, claims, lastId, lastRec, lastChat>>
      /\ req' = [p \in Humans |-> Free] /\ DOMAIN runs' = DOMAIN runs
      /\ \A r \in DOMAIN runs : runs'[r] = IF runs[r].st = "done" THEN runs[r]
            ELSE [runs[r] EXCEPT !.st = "done", !.stopped = TRUE, !.op = NoOp]
  BY DEF Crash, tables
<1>2. TablesGoOn
  BY <1>1, TablesStay DEF MailInv
<1>3. ASSUME NEW r \in DOMAIN runs, runs[r].st # "done"
      PROVE  RunGoesOnAs(r) /\ runs'[r].stopped
  <2>1. runs[r] \in RunsOf(1..lastRec', 1..lastChat')
    BY <1>1, RunFacts
  <2>2. runs'[r] = [runs[r] EXCEPT !.st = "done", !.stopped = TRUE, !.op = NoOp]
    BY <1>1, <1>3
  <2>3. "done" \in Stages /\ "done" \in Over /\ NoOp \in OpsOf(1..lastRec', 1..lastChat')
    BY DEF Stages, Over, OpsOf
  <2>4. /\ runs'[r] \in RunsOf(1..lastRec', 1..lastChat') /\ runs'[r].stopped /\ runs'[r].st = "done"
        /\ runs'[r].lost = runs[r].lost
        /\ runs'[r].chat = runs[r].chat /\ runs'[r].rec = runs[r].rec /\ runs'[r].kind = runs[r].kind
        /\ runs'[r].to = runs[r].to /\ runs'[r].route = runs[r].route /\ runs'[r].key = runs[r].key
    BY <2>1, <2>2, <2>3 DEF RunsOf
  <2> QED BY <1>1, <2>3, <2>4 DEF RunGoesOnAs, SameRun
<1>4. ASSUME NEW r \in DOMAIN runs, runs[r].st = "done"
      PROVE  RunGoesOnAs(r) /\ runs'[r] = runs[r]
  BY <1>1, <1>2, <1>4, RunsStay DEF MailInv
<1>5. RunsGoOn
  BY <1>3, <1>4 DEF RunsGoOn
<1>6. TasksEnd /\ MailKept
  BY <1>1, <1>3, <1>4 DEF TasksEnd, Settled, MailKept
<1>7. PostsKept
  BY <1>1 DEF PostsKept, Posting, Free
<1>8. RunTypes' /\ ReqTypes'
  <2>1. RunTypes'
    BY <1>1, <1>5 DEF RunTypes, RunsGoOn, RunGoesOnAs
  <2>2. \A R, C : Free \in ReqsOf(R, C)
    BY DEF ReqsOf
  <2> QED BY <1>1, <2>1, <2>2 DEF ReqTypes, MailInv, MailTypes, claims
<1>9. Mail' \subseteq Mail
  BY <1>1, <1>5, MailStays DEF Mail
<1> QED BY <1>1, <1>2, <1>5, <1>6, <1>7, <1>8, <1>9, CalmStep DEF MailTypes, TablesGoOn

-----------------------------------------------------------------------------
(* The invariant.                                                          *)

LEMMA StepInv == MailInv /\ [MNext]_mvars => MailInv'
<1> SUFFICES ASSUME MailInv, [MNext]_mvars PROVE MailInv'
  OBVIOUS
<1>1. CASE UNCHANGED mvars
  <2>1. TablesGoOn
    BY <1>1, TablesStay DEF MailInv, mvars
  <2> QED BY <1>1, <2>1, RunsIdle, RunStep DEF mvars
<1>2. ASSUME NEW r \in DOMAIN runs, RunGoesOn(r) PROVE MailInv'
  BY <1>2, MaterializeStep, FinishStep, ReplyStep, PromoteStep, SpawnStep, SendStep DEF RunGoesOn
<1>3. ASSUME NEW r \in DOMAIN runs,
             ToolSpawn(r) \/ ToolSend(r) \/ ToolList(r) \/ ToolStop(r) \/ CancelRun(r)
      PROVE  MailInv'
  BY <1>3, SpawnStep, SendStep, ListStep, CancelStep
<1>4. ASSUME NEW p \in Humans, RequestGoesOn(p) PROVE MailInv'
  BY <1>4, ClaimStep, PostSubmitStep, CreateStep, CascadeStep DEF RequestGoesOn
<1>5. ASSUME NEW p \in Humans,
             \/ \E c \in DOMAIN chats : \/ \E k \in Keys : Post(p, c, k)
                                        \/ CreateChat(p, c) \/ DeleteChat(p, c)
             \/ \E a \in DOMAIN recs : DeleteAgent(p, a)
      PROVE  MailInv'
  BY <1>5, BeginStep, DeleteStep
<1>6. CASE \/ \E a, b \in DOMAIN recs : SetEdge(a, b)
           \/ \E a \in DOMAIN recs : SetWake(a)
  BY <1>6, SetStep
<1>7. CASE Crash
  BY <1>7, CrashStep
<1>8. CASE PurgeRuns \/ \E k \in Keys : Expire(k)
  BY <1>8, WindowStep
<1> QED BY <1>1, <1>2, <1>3, <1>4, <1>5, <1>6, <1>7, <1>8 DEF MNext

LEMMA MailHolds == MSpec => []MailInv
BY InitMail, StepInv, PTL DEF MSpec

-----------------------------------------------------------------------------
(* Chats and their lines.                                                  *)

\* A run that waits is in its chat's line, and one that has the chat heads it.
Acting == {"active", "ending", "answered"}
LineOf(f, l, r) ==
  /\ f[r].st = "waiting" => \E i \in 1..Len(l[f[r].chat]) : l[f[r].chat][i] = r
  /\ f[r].st \in Acting => l[f[r].chat] # <<>> /\ Head(l[f[r].chat]) = r
LineInv ==
  /\ lastChat <= MaxChats /\ line \in [1..MaxChats -> Seq(Nat)]
  /\ \A r \in DOMAIN runs : LineOf(runs, line, r)

\* The rank of i in the set S of positions: what is left of a line is in order.
Upto(S, i) == {j \in S : j <= i}
LEMMA RankOnce ==
    ASSUME NEW n \in Nat, NEW S \in SUBSET (1..n), NEW i \in S, NEW j \in S,
           Cardinality(Upto(S, i)) = Cardinality(Upto(S, j))
    PROVE  i = j
<1>1. IsFiniteSet(S)
  <2>1. IsFiniteSet(1..n)
    BY FS_Interval
  <2> QED BY <2>1, FS_Subset
<1>2. ASSUME NEW a \in S, NEW b \in S, a < b,
             Cardinality(Upto(S, a)) = Cardinality(Upto(S, b))
      PROVE  FALSE
  <2>1. Upto(S, a) \in SUBSET Upto(S, b) /\ Upto(S, b) \in SUBSET S
    <3>1. \A k \in S : k <= a => k <= b
      BY <1>2
    <3> QED BY <3>1 DEF Upto
  <2>2. IsFiniteSet(Upto(S, b))
    BY <1>1, <2>1, FS_Subset
  <2>3. Upto(S, a) = Upto(S, b)
    BY <1>2, <2>1, <2>2, FS_Subset
  <2>4. b \in Upto(S, b) /\ b \notin Upto(S, a)
    BY <1>2 DEF Upto
  <2> QED BY <2>3, <2>4
<1>3. i \in Nat /\ j \in Nat
  OBVIOUS
<1> QED BY <1>2, <1>3

LEMMA RankFits ==
    ASSUME NEW n \in Nat, NEW S \in SUBSET (1..n)
    PROVE  /\ IsFiniteSet(S) /\ Cardinality(S) \in Nat
           /\ \A i \in S : Cardinality(Upto(S, i)) \in 1..Cardinality(S)
           /\ \A m \in 1..Cardinality(S) : \E i \in S : Cardinality(Upto(S, i)) = m
<1>1. IsFiniteSet(S)
  <2>1. IsFiniteSet(1..n)
    BY FS_Interval
  <2> QED BY <2>1, FS_Subset
<1>2. Cardinality(S) \in Nat
  BY <1>1, FS_CardinalityType
<1>3. ASSUME NEW i \in S PROVE Cardinality(Upto(S, i)) \in 1..Cardinality(S)
  <2>1. Upto(S, i) \in SUBSET S /\ i \in Upto(S, i)
    BY DEF Upto
  <2>2. IsFiniteSet(Upto(S, i)) /\ Cardinality(Upto(S, i)) <= Cardinality(S)
    BY <1>1, <2>1, FS_Subset
  <2>3. Cardinality(Upto(S, i)) \in Nat /\ Cardinality(Upto(S, i)) # 0
    BY <2>1, <2>2, FS_CardinalityType, FS_EmptySet
  <2> QED BY <1>2, <2>2, <2>3
<1>4. ASSUME NEW m \in 1..Cardinality(S) PROVE \E i \in S : Cardinality(Upto(S, i)) = m
  <2>1. PICK f : f = [i \in S |-> Cardinality(Upto(S, i))]
    OBVIOUS
  <2>2. PICK T : T = 1..Cardinality(S)
    OBVIOUS
  <2>3. f \in [S -> T]
    BY <1>3, <2>1, <2>2
  <2>4. \A a, b \in S : f[a] = f[b] => a = b
    BY <2>1, RankOnce
  <2>5. f \in Injection(S, T)
    BY <2>3, <2>4 DEF Injection, IsInjective
  <2>6. IsFiniteSet(T) /\ Cardinality(T) = Cardinality(S)
    BY <1>2, <2>2, FS_Interval
  <2>7. f \in Surjection(S, T)
    BY <2>5, <2>6, FS_Injection
  <2>8. \E i \in S : f[i] = m
    BY <2>2, <2>7 DEF Surjection
  <2> QED BY <2>1, <2>8
<1> QED BY <1>1, <1>2, <1>3, <1>4

\* What is dropped from a line leaves the others in it, and its head.
LEMMA DroppingKeeps ==
    ASSUME NEW q \in Seq(Nat), NEW D
    PROVE  /\ Dropping(q, D) \in Seq(Nat)
           /\ \A i \in 1..Len(q) : q[i] \notin D =>
                \E n \in 1..Len(Dropping(q, D)) : Dropping(q, D)[n] = q[i]
           /\ q # <<>> /\ Head(q) \notin D =>
                Dropping(q, D) # <<>> /\ Head(Dropping(q, D)) = Head(q)
<1>1. PICK S : S = {i \in 1..Len(q) : q[i] \notin D}
  OBVIOUS
<1>2. Len(q) \in Nat /\ S \in SUBSET (1..Len(q))
  BY <1>1
<1>3. /\ IsFiniteSet(S) /\ Cardinality(S) \in Nat
      /\ \A i \in S : Cardinality(Upto(S, i)) \in 1..Cardinality(S)
      /\ \A m \in 1..Cardinality(S) : \E i \in S : Cardinality(Upto(S, i)) = m
  BY <1>2, RankFits
<1>4. PICK at : at = [n \in 1..Cardinality(S) |-> CHOOSE i \in S : Cardinality(Upto(S, i)) = n]
  OBVIOUS
<1>5. \A n \in 1..Cardinality(S) : at[n] \in S /\ Cardinality(Upto(S, at[n])) = n
  BY <1>3, <1>4
<1>6. Dropping(q, D) = [n \in 1..Cardinality(S) |-> q[at[n]]]
  BY <1>1, <1>4 DEF Dropping, Upto
<1>7. /\ Dropping(q, D) \in Seq(Nat) /\ Len(Dropping(q, D)) = Cardinality(S)
      /\ \A n \in 1..Cardinality(S) : Dropping(q, D)[n] = q[at[n]]
  <2>1. \A i \in 1..Len(q) : q[i] \in Nat
    OBVIOUS
  <2>2. \A n \in 1..Cardinality(S) : q[at[n]] \in Nat
    BY <1>2, <1>5, <2>1
  <2> QED BY <1>3, <1>6, <2>2
<1>8. ASSUME NEW i \in S
      PROVE  /\ Cardinality(Upto(S, i)) \in 1..Cardinality(S)
             /\ Dropping(q, D)[Cardinality(Upto(S, i))] = q[i]
  <2>1. PICK n \in 1..Cardinality(S) : n = Cardinality(Upto(S, i))
    BY <1>3
  <2>2. at[n] \in S /\ Cardinality(Upto(S, at[n])) = Cardinality(Upto(S, i))
    BY <1>5, <2>1
  <2>3. at[n] = i
    BY <1>2, <2>2, RankOnce
  <2> QED BY <1>7, <2>1, <2>3
<1>9. \A i \in 1..Len(q) : q[i] \notin D =>
        \E n \in 1..Len(Dropping(q, D)) : Dropping(q, D)[n] = q[i]
  BY <1>1, <1>7, <1>8
<1>10. ASSUME q # <<>>, Head(q) \notin D
       PROVE  Dropping(q, D) # <<>> /\ Head(Dropping(q, D)) = Head(q)
  <2>1. 1 \in S /\ Head(q) = q[1]
    BY <1>1, <1>10
  <2>2. Upto(S, 1) = {1}
    <3>1. \A j \in S : j <= 1 => j = 1
      <4>1. \A j \in 1..Len(q) : j <= 1 => j = 1
        BY <1>2
      <4> QED BY <1>2, <4>1
    <3>2. 1 <= 1
      OBVIOUS
    <3> QED BY <2>1, <3>1, <3>2 DEF Upto
  <2>3. Cardinality(Upto(S, 1)) = 1
    BY <2>2, FS_Singleton
  <2>4. 1 \in 1..Cardinality(S) /\ Dropping(q, D)[1] = q[1]
    BY <1>8, <2>1, <2>3
  <2> QED BY <1>7, <2>1, <2>4
<1> QED BY <1>7, <1>9, <1>10

LEMMA ChatIndex ==
    ASSUME MailInv, LineInv, NEW r \in DOMAIN runs
    PROVE  runs[r].chat \in 1..MaxChats /\ line[runs[r].chat] \in Seq(Nat) /\ LineOf(runs, line, r)
<1>1. runs[r].chat \in 1..lastChat /\ lastChat \in Nat
  BY RunFacts DEF MailInv, MailTypes, ChatTypes
<1>2. runs[r].chat \in 1..MaxChats
  BY <1>1, MailAssumption DEF LineInv
<1> QED BY <1>2 DEF LineInv

\* Runs go on where they are in line; one that heads it may take the chat.
InPlace(f) ==
  /\ DOMAIN f = DOMAIN runs
  /\ \A r \in DOMAIN runs :
       /\ f[r].chat = runs[r].chat
       /\ f[r].st = "waiting" => runs[r].st = "waiting"
       /\ f[r].st \in Acting => runs[r].st \in Acting \/ Heads(r)

LEMMA LineInPlace ==
    ASSUME LineInv, NEW f, InPlace(f), NEW r \in DOMAIN runs
    PROVE  LineOf(f, line, r)
BY DEF LineInv, InPlace, LineOf, Heads

LEMMA LineStays ==
    ASSUME LineInv, InPlace(runs'), UNCHANGED line, lastChat' <= MaxChats
    PROVE  LineInv'
<1>1. \A r \in DOMAIN runs : LineOf(runs', line, r)
  BY LineInPlace
<1> QED BY <1>1 DEF LineInv, InPlace

LEMMA SameInPlace ==
    ASSUME LineInv, UNCHANGED <<runs, line>>, lastChat' <= MaxChats
    PROVE  LineInv'
BY LineStays DEF InPlace

\* A run that is submitted is at the end of its chat's line, or over.
LEMMA LineSubmitted ==
    ASSUME MailInv, LineInv, NEW base, InPlace(base), NEW id \in Nat, id \notin DOMAIN runs,
           NEW n \in RunsOf(1..lastRec, 1..lastChat), n.st = "waiting",
           Submit(base, id, n), lastChat' <= MaxChats
    PROVE  LineInv'
<1>1. DOMAIN base = DOMAIN runs
  BY DEF InPlace
<1>0. n.chat \in 1..MaxChats
  <2>1. n.chat \in 1..lastChat /\ lastChat \in Nat
    BY DEF RunsOf, MailInv, MailTypes, ChatTypes
  <2> QED BY <2>1, MailAssumption DEF LineInv
<1>2. line \in [1..MaxChats -> Seq(Nat)] /\ \A r \in DOMAIN runs : LineOf(base, line, r)
  BY LineInPlace DEF LineInv
<1>3. CASE UNCHANGED line /\ runs' = Set(base, id, [n EXCEPT !.st = "done", !.stopped = TRUE])
  <2>1. PICK d : d = [n EXCEPT !.st = "done", !.stopped = TRUE]
    OBVIOUS
  <2>2. /\ DOMAIN runs' = DOMAIN runs \cup {id} /\ runs'[id] = d
        /\ \A r \in DOMAIN runs : runs'[r] = base[r]
    BY <1>1, <1>3, <2>1 DEF Set
  <2>3. d.st = "done"
    BY <2>1 DEF RunsOf
  <2>4. \A r \in DOMAIN runs' : LineOf(runs', line, r)
    BY <1>2, <2>2, <2>3 DEF LineOf, Acting
  <2> QED BY <1>2, <1>3, <2>4 DEF LineInv
<1>4. CASE runs' = Set(base, id, n) /\ line' = [line EXCEPT ![n.chat] = Append(@, id)]
  <2>1. /\ DOMAIN runs' = DOMAIN runs \cup {id} /\ runs'[id] = n
        /\ \A r \in DOMAIN runs : runs'[r] = base[r]
    BY <1>1, <1>4 DEF Set
  <2>2. PICK q \in Seq(Nat) : q = line[n.chat]
    BY <1>0, <1>2
  <2>3. /\ Append(q, id) \in Seq(Nat) /\ Append(q, id)[Len(q) + 1] = id
        /\ Len(Append(q, id)) = Len(q) + 1 /\ Len(q) + 1 \in 1..Len(Append(q, id))
        /\ \A i \in 1..Len(q) : Append(q, id)[i] = q[i] /\ i \in 1..Len(Append(q, id))
        /\ q # <<>> => Append(q, id) # <<>> /\ Head(Append(q, id)) = Head(q)
    OBVIOUS
  <2>4. /\ line' \in [1..MaxChats -> Seq(Nat)] /\ line'[n.chat] = Append(q, id)
        /\ \A c \in 1..MaxChats : c # n.chat => line'[c] = line[c]
    BY <1>0, <1>2, <1>4, <2>2, <2>3
  <2>5. ASSUME NEW r \in DOMAIN runs PROVE LineOf(runs', line', r)
    <3>1. LineOf(base, line, r) /\ base[r].chat \in 1..MaxChats /\ runs'[r] = base[r]
      BY <1>2, <2>1, ChatIndex DEF InPlace
    <3>2. CASE base[r].chat = n.chat
      <4>1. line[base[r].chat] = q /\ line'[runs'[r].chat] = Append(q, id)
        BY <2>2, <2>4, <3>1, <3>2
      <4>2. ASSUME runs'[r].st = "waiting" PROVE \E i \in 1..Len(Append(q, id)) : Append(q, id)[i] = r
        <5>1. PICK i \in 1..Len(q) : q[i] = r
          BY <3>1, <4>1, <4>2 DEF LineOf
        <5> QED BY <2>3, <5>1
      <4>3. runs'[r].st \in Acting => Append(q, id) # <<>> /\ Head(Append(q, id)) = r
        BY <2>3, <3>1, <4>1 DEF LineOf
      <4> QED BY <4>1, <4>2, <4>3 DEF LineOf
    <3>3. CASE base[r].chat # n.chat
      BY <2>4, <3>1, <3>3 DEF LineOf
    <3> QED BY <3>2, <3>3
  <2>6. LineOf(runs', line', id)
    BY <1>0, <2>1, <2>3, <2>4 DEF LineOf, Acting
  <2> QED BY <2>1, <2>4, <2>5, <2>6 DEF LineInv
<1>5. CASE runs' = base /\ UNCHANGED line
  BY <1>1, <1>2, <1>5 DEF LineInv
<1> QED BY <1>3, <1>4, <1>5 DEF Submit

LEMMA LineDelivered ==
    ASSUME MailInv, LineInv, NEW base, InPlace(base),
           NEW n \in RunsOf(1..lastRec, 1..lastChat), n.st = "waiting",
           NEW wake \in BOOLEAN, Deliver(base, n, wake), lastChat' <= MaxChats
    PROVE  LineInv'
<1>1. lastId + 1 \in Nat /\ lastId + 1 \notin DOMAIN runs
  <2>1. lastId \in Nat /\ \A m \in Mail : m.id \in 1..lastId
    BY DEF MailInv, MailTypes, ReqTypes, MailIds
  <2>2. \A r \in DOMAIN runs : Msg(r, runs[r]) \in Mail /\ Msg(r, runs[r]).id = r
    BY DEF Mail, Msg
  <2> QED BY <2>1, <2>2
<1>2. CASE wake
  <2>1. Submit(base, lastId + 1, n)
    BY <1>2 DEF Deliver
  <2> QED BY <1>1, <2>1, LineSubmitted
<1>3. CASE ~wake
  <2>1. runs' = base /\ UNCHANGED line
    BY <1>3 DEF Deliver
  <2> QED BY <2>1, LineStays
<1> QED BY <1>2, <1>3

-----------------------------------------------------------------------------
(* ... and what each step does to them.                                    *)

\* The run r is somewhere else in its life, or does something else.
LEMMA AtInPlace ==
    ASSUME MailInv, NEW r \in DOMAIN runs, NEW f, DOMAIN f = DOMAIN runs,
           \A x \in DOMAIN runs : x # r => f[x] = runs[x], f[r].chat = runs[r].chat,
           f[r].st = "waiting" => runs[r].st = "waiting",
           f[r].st \in Acting => runs[r].st \in Acting \/ Heads(r)
    PROVE  InPlace(f)
<1> SUFFICES ASSUME NEW x \in DOMAIN runs
             PROVE  /\ f[x].chat = runs[x].chat
                    /\ f[x].st = "waiting" => runs[x].st = "waiting"
                    /\ f[x].st \in Acting => runs[x].st \in Acting \/ Heads(x)
  BY DEF InPlace
<1>1. CASE x = r
  BY <1>1
<1>2. CASE x # r
  BY <1>2
<1> QED BY <1>1, <1>2

LEMMA DoesInPlace ==
    ASSUME MailInv, NEW r \in DOMAIN runs, NEW op
    PROVE  InPlace(Does(r, op))
<1>1. PICK f : f = Does(r, op)
  OBVIOUS
<1>2. /\ DOMAIN f = DOMAIN runs /\ \A x \in DOMAIN runs : x # r => f[x] = runs[x]
      /\ f[r] = [runs[r] EXCEPT !.op = op]
  BY <1>1 DEF Does
<1>3. f[r].chat = runs[r].chat /\ f[r].st = runs[r].st
  BY <1>2, RunFacts DEF RunsOf
<1>4. InPlace(f)
  BY <1>2, <1>3, AtInPlace
<1> QED BY <1>1, <1>4

LEMMA ChatBound ==
    ASSUME LineInv, MailTypes, NEW a, NEW r, NEW c \in PrimaryChat(a) \cup CallerChat(r)
    PROVE  c.last <= MaxChats
<1>1. lastChat \in Nat /\ lastChat <= MaxChats /\ MaxChats \in Nat
  BY MailAssumption DEF LineInv, MailTypes, ChatTypes
<1>2. ASSUME NEW b, NEW d \in PrimaryChat(b) PROVE d.last <= MaxChats
  <2>1. d.last = lastChat \/ (d.last = lastChat + 1 /\ lastChat < MaxChats)
    BY <1>2 DEF PrimaryChat
  <2> QED BY <1>1, <2>1
<1>3. CASE c \in CallerChat(r) /\ runs[r].chat \in DOMAIN chats
  BY <1>1, <1>3 DEF CallerChat
<1> QED BY <1>2, <1>3 DEF CallerChat

LEMMA LifeInLine ==
    ASSUME MailInv, LineInv, NEW r \in DOMAIN runs, Materialize(r) \/ Finish(r) \/ DeliverReply(r)
    PROVE  LineInv'
<1>1. UNCHANGED <<chats, lastRec, lastChat>> /\ lastChat' <= MaxChats
  BY DEF Materialize, Finish, DeliverReply, Reply, tables, LineInv
<1>2. runs[r] \in RunsOf(1..lastRec, 1..lastChat)
  BY RunFacts
<1>3. ASSUME NEW st, st # "waiting", st \in Acting => runs[r].st \in Acting \/ Heads(r)
      PROVE  InPlace(At(r, st))
  <2>1. PICK f : f = At(r, st)
    OBVIOUS
  <2>2. /\ DOMAIN f = DOMAIN runs /\ \A x \in DOMAIN runs : x # r => f[x] = runs[x]
        /\ f[r] = [runs[r] EXCEPT !.st = st]
    BY <2>1 DEF At
  <2>3. f[r].chat = runs[r].chat /\ f[r].st = st
    BY <1>2, <2>2 DEF RunsOf
  <2>4. InPlace(f)
    BY <1>3, <2>2, <2>3, AtInPlace
  <2> QED BY <2>1, <2>4
<1>4. CASE Materialize(r)
  <2>1. UNCHANGED line /\ Heads(r)
    BY <1>4 DEF Materialize
  <2>2. CASE runs' = At(r, "active")
    BY <1>1, <1>3, <2>1, <2>2, LineStays
  <2>3. CASE runs' = [runs EXCEPT ![r].st = "active", ![r].stopped = TRUE]
    <3>1. /\ DOMAIN runs' = DOMAIN runs /\ \A x \in DOMAIN runs : x # r => runs'[x] = runs[x]
          /\ runs'[r] = [runs[r] EXCEPT !.st = "active", !.stopped = TRUE]
      BY <2>3
    <3>2. runs'[r].chat = runs[r].chat /\ runs'[r].st = "active"
      BY <1>2, <3>1 DEF RunsOf
    <3>3. InPlace(runs')
      BY <2>1, <3>1, <3>2, AtInPlace
    <3> QED BY <1>1, <2>1, <3>3, LineStays
  <2> QED BY <1>4, <2>2, <2>3 DEF Materialize
<1>5. CASE Finish(r)
  <2>1. runs' = At(r, "ending") /\ UNCHANGED line /\ runs[r].st \in Acting
    BY <1>5 DEF Finish, Acting
  <2> QED BY <1>1, <1>3, <2>1, LineStays
<1>6. CASE DeliverReply(r)
  <2>1. runs[r].st = "ending" /\ runs[r].route # NoRoute
    BY <1>6 DEF DeliverReply, Reply
  <2>2. PICK base : base = At(r, "answered") /\ InPlace(base)
    BY <1>3, <2>1 DEF Acting
  <2>3. CASE runs' = base /\ UNCHANGED line
    BY <1>1, <2>2, <2>3, LineStays
  <2>4. CASE runs' = [base EXCEPT ![r].lost = TRUE] /\ UNCHANGED line
    <3>1. /\ DOMAIN runs' = DOMAIN runs /\ \A x \in DOMAIN runs : x # r => runs'[x] = runs[x]
          /\ runs'[r] = [[runs[r] EXCEPT !.st = "answered"] EXCEPT !.lost = TRUE]
      BY <2>2, <2>4 DEF At
    <3>2. runs'[r].chat = runs[r].chat /\ runs'[r].st = "answered" /\ runs[r].st \in Acting
      BY <1>2, <2>1, <3>1 DEF RunsOf, Acting
    <3>3. InPlace(runs')
      BY <3>1, <3>2, AtInPlace
    <3> QED BY <1>1, <2>4, <3>3, LineStays
  <2>5. CASE /\ Routable(r)
             /\ Deliver(base, NewRun(runs[r].route.chat, runs[r].route.rec, "reply", r, NoRoute, NoClaim),
                        recs[runs[r].route.rec].wake)
    <3>1. PICK n : n = NewRun(runs[r].route.chat, runs[r].route.rec, "reply", r, NoRoute, NoClaim)
      OBVIOUS
    <3>2. n \in RunsOf(1..lastRec, 1..lastChat) /\ n.st = "waiting"
      <4>1. /\ runs[r].route.chat \in 1..lastChat /\ runs[r].route.rec \in 1..lastRec /\ r \in Nat
            /\ NoRoute \in RoutesOf(1..lastRec, 1..lastChat) /\ NoClaim \in KeyWindows \cup {NoClaim}
            /\ "reply" \in Kinds
        BY <2>1, RunFacts DEF RoutesOf, Kinds
      <4> QED BY <3>1, <4>1 DEF NewRun, RunsOf, Stages, OpsOf
    <3>3. recs[runs[r].route.rec].wake \in BOOLEAN
      BY <2>5 DEF Routable, Live, MailInv, MailTypes, RecTypes
    <3>4. Deliver(base, n, recs[runs[r].route.rec].wake)
      BY <2>5, <3>1
    <3> QED BY <1>1, <2>2, <3>2, <3>3, <3>4, LineDelivered
  <2> QED BY <1>6, <2>2, <2>3, <2>4, <2>5 DEF DeliverReply, Reply
<1> QED BY <1>4, <1>5, <1>6

\* The head of a line is gone; who waits behind it waits on.
LEMMA PromotedInLine ==
    ASSUME MailInv, LineInv, NEW r \in DOMAIN runs, Promote(r)
    PROVE  LineInv'
<1>1. /\ runs[r].st \in Acting /\ runs' = At(r, "done") /\ lastChat' = lastChat
      /\ line' = [line EXCEPT ![runs[r].chat] = Tail(@)]
  BY DEF Promote, Acting
<1>2. PICK q \in Seq(Nat) : q = line[runs[r].chat] /\ q # <<>> /\ Head(q) = r /\ runs[r].chat \in 1..MaxChats
  BY <1>1, ChatIndex DEF LineOf
<1>3. /\ Tail(q) \in Seq(Nat)
      /\ \A i \in 1..Len(q) : i # 1 => i - 1 \in 1..Len(Tail(q)) /\ Tail(q)[i - 1] = q[i]
      /\ Head(q) = q[1]
  <2>1. Len(Tail(q)) = Len(q) - 1 /\ Tail(q) \in Seq(Nat) /\ Len(q) \in Nat /\ Head(q) = q[1]
    BY <1>2
  <2>2. ASSUME NEW i \in 1..Len(q), i # 1 PROVE i - 1 \in 1..Len(Tail(q)) /\ Tail(q)[i - 1] = q[i]
    <3>1. i - 1 \in 1..Len(Tail(q)) /\ (i - 1) + 1 = i
      BY <2>1, <2>2
    <3>2. \A j \in 1..Len(Tail(q)) : Tail(q)[j] = q[j + 1]
      BY <1>2
    <3> QED BY <3>1, <3>2
  <2> QED BY <2>1, <2>2
<1>4. /\ line' \in [1..MaxChats -> Seq(Nat)] /\ line'[runs[r].chat] = Tail(q)
      /\ \A c \in 1..MaxChats : c # runs[r].chat => line'[c] = line[c]
  BY <1>1, <1>2, <1>3 DEF LineInv
<1>5. /\ DOMAIN runs' = DOMAIN runs /\ runs'[r].st = "done"
      /\ \A x \in DOMAIN runs : x # r => runs'[x] = runs[x]
  BY <1>1, RunFacts DEF At, RunsOf
<1>6. ASSUME NEW x \in DOMAIN runs PROVE LineOf(runs', line', x)
  <2>1. LineOf(runs, line, x) /\ runs[x].chat \in 1..MaxChats
    BY ChatIndex
  <2>2. CASE x = r
    BY <1>5, <2>2 DEF LineOf, Acting
  <2>3. CASE x # r /\ runs[x].chat # runs[r].chat
    BY <1>4, <1>5, <2>1, <2>3 DEF LineOf
  <2>4. CASE x # r /\ runs[x].chat = runs[r].chat
    <3>1. runs'[x] = runs[x] /\ line[runs[x].chat] = q /\ line'[runs[x].chat] = Tail(q)
      BY <1>2, <1>4, <1>5, <2>4
    <3>2. runs[x].st \notin Acting
      BY <1>2, <2>1, <2>4, <3>1 DEF LineOf
    <3>3. ASSUME runs[x].st = "waiting" PROVE \E i \in 1..Len(Tail(q)) : Tail(q)[i] = x
      <4>1. PICK i \in 1..Len(q) : q[i] = x
        BY <2>1, <3>1, <3>3 DEF LineOf
      <4>2. i # 1
        BY <1>2, <1>3, <2>4, <4>1
      <4> QED BY <1>3, <4>1, <4>2
    <3> QED BY <3>1, <3>2, <3>3 DEF LineOf
  <2> QED BY <2>2, <2>3, <2>4
<1> QED BY <1>1, <1>4, <1>5, <1>6 DEF LineInv

\* Who is dropped is over; who is stopped otherwise keeps its place.
LEMMA StoppedInLine ==
    ASSUME MailInv, LineInv, NEW S, StopRuns(S), lastChat' = lastChat
    PROVE  LineInv'
<1>1. PICK D : D = {r \in S \cap DOMAIN runs : Behind(r)}
  OBVIOUS
<1>2. /\ line \in [1..MaxChats -> Seq(Nat)] /\ line' = [c \in DOMAIN line |-> Dropping(line[c], D)]
      /\ \A c \in 1..MaxChats : line'[c] = Dropping(line[c], D) /\ line[c] \in Seq(Nat)
  BY <1>1 DEF StopRuns, LineInv
<1>3. line' \in [1..MaxChats -> Seq(Nat)]
  BY <1>2, DroppingKeeps
<1>4. /\ DOMAIN runs' = DOMAIN runs
      /\ \A r \in DOMAIN runs : runs'[r] =
            IF r \notin S \/ runs[r].st \notin {"waiting", "active"} THEN runs[r]
            ELSE [runs[r] EXCEPT !.stopped = TRUE, !.st = IF Behind(r) THEN "done" ELSE @]
  BY DEF StopRuns
<1>5. ASSUME NEW r \in DOMAIN runs
      PROVE  /\ runs'[r].chat = runs[r].chat
             /\ runs'[r].st = runs[r].st \/ runs'[r].st = "done"
             /\ r \in D => runs'[r].st = "done"
  <2>1. runs[r] \in RunsOf(1..lastRec, 1..lastChat)
    BY RunFacts
  <2>2. CASE r \notin S \/ runs[r].st \notin {"waiting", "active"}
    BY <1>1, <1>4, <2>2 DEF Behind
  <2>3. CASE r \in S /\ runs[r].st \in {"waiting", "active"}
    <3>1. runs'[r] = [runs[r] EXCEPT !.stopped = TRUE, !.st = IF Behind(r) THEN "done" ELSE @]
      BY <1>4, <2>3
    <3> QED BY <1>1, <2>1, <3>1 DEF RunsOf
  <2> QED BY <2>2, <2>3
<1>6. ASSUME NEW r \in DOMAIN runs PROVE LineOf(runs', line', r)
  <2>1. PICK q \in Seq(Nat) : q = line[runs[r].chat] /\ line'[runs[r].chat] = Dropping(q, D)
    BY <1>2, ChatIndex
  <2>2. LineOf(runs, line, r)
    BY ChatIndex
  <2>3. CASE runs'[r].st = "done"
    BY <2>3 DEF LineOf, Acting
  <2>4. CASE runs'[r].st # "done"
    <3>1. runs'[r].st = runs[r].st /\ r \notin D /\ runs'[r].chat = runs[r].chat
      BY <1>5, <2>4
    <3>2. ASSUME runs[r].st = "waiting" PROVE \E i \in 1..Len(Dropping(q, D)) : Dropping(q, D)[i] = r
      <4>1. PICK i \in 1..Len(q) : q[i] = r
        BY <2>1, <2>2, <3>2 DEF LineOf
      <4>2. \A j \in 1..Len(q) : q[j] \notin D =>
              \E m \in 1..Len(Dropping(q, D)) : Dropping(q, D)[m] = q[j]
        BY DroppingKeeps
      <4> QED BY <3>1, <4>1, <4>2
    <3>3. ASSUME runs[r].st \in Acting PROVE Dropping(q, D) # <<>> /\ Head(Dropping(q, D)) = r
      <4>1. q # <<>> /\ Head(q) = r
        BY <2>1, <2>2, <3>3 DEF LineOf
      <4> QED BY <3>1, <4>1, DroppingKeeps
    <3> QED BY <2>1, <3>1, <3>2, <3>3 DEF LineOf
  <2> QED BY <2>3, <2>4
<1> QED BY <1>3, <1>4, <1>6 DEF LineInv

LEMMA ToolInLine ==
    ASSUME MailInv, LineInv, NEW r \in DOMAIN runs,
           ToolSpawn(r) \/ SpawnRecord(r) \/ SpawnChat(r) \/ SpawnTask(r)
             \/ ToolSend(r) \/ SendChat(r) \/ SendMail(r) \/ ToolList(r)
    PROVE  LineInv'
<1>1. lastChat \in Nat /\ lastChat <= MaxChats /\ MaxChats \in Nat
  BY MailAssumption DEF LineInv, MailInv, MailTypes, ChatTypes
<1>2. ASSUME NEW op, runs' = Does(r, op), UNCHANGED line, lastChat' <= MaxChats PROVE LineInv'
  BY <1>2, DoesInPlace, LineStays
<1>3. CASE ToolSpawn(r)
  <2>1. PICK c \in CallerChat(r) : lastChat' = c.last /\ runs' = Does(r, [at |-> "record", from |-> c.id])
    BY <1>3 DEF ToolSpawn
  <2>2. lastChat' <= MaxChats
    BY <2>1, ChatBound DEF MailInv
  <2> QED BY <1>2, <1>3, <2>1, <2>2 DEF ToolSpawn, NoMail
<1>4. CASE SpawnRecord(r)
  BY <1>1, <1>2, <1>4 DEF SpawnRecord, NoMail, OpDone
<1>5. CASE SpawnChat(r)
  BY <1>1, <1>2, <1>5 DEF SpawnChat, NoMail, OpDone, CanAddChat, AddChat
<1>6. CASE ToolSend(r)
  BY <1>1, <1>2, <1>6 DEF ToolSend, NoMail
<1>7. CASE SendChat(r)
  <2>1. UNCHANGED line
    BY <1>7 DEF SendChat, NoMail
  <2>2. \/ runs' = OpDone(r) /\ UNCHANGED lastChat
        \/ \E c \in PrimaryChat(runs[r].op.to) \cup
                    {[id |-> i, table |-> chats, last |-> lastChat] : i \in Spawner(r, runs[r].op.to)} :
             /\ lastChat' = c.last
             /\ runs' = Does(r, [at |-> "mail", to |-> runs[r].op.to, wake |-> runs[r].op.wake, chat |-> c.id])
    BY <1>7 DEF SendChat
  <2>3. ASSUME NEW c \in PrimaryChat(runs[r].op.to) PROVE c.last <= MaxChats
    BY ChatBound DEF MailInv
  <2>4. CASE runs' = OpDone(r) /\ UNCHANGED lastChat
    BY <1>1, <1>2, <2>1, <2>4 DEF OpDone
  <2>5. ASSUME NEW c, lastChat' = c.last, c.last <= MaxChats,
               runs' = Does(r, [at |-> "mail", to |-> runs[r].op.to, wake |-> runs[r].op.wake, chat |-> c.id])
        PROVE  LineInv'
    BY <1>2, <2>1, <2>5
  <2>6. ASSUME NEW c \in PrimaryChat(runs[r].op.to) \cup
                    {[id |-> i, table |-> chats, last |-> lastChat] : i \in Spawner(r, runs[r].op.to)}
        PROVE  c.last <= MaxChats
    BY <1>1, <2>3
  <2> QED BY <2>2, <2>4, <2>5, <2>6
<1>8. CASE ToolList(r)
  <2>1. UNCHANGED <<runs, line>> /\ lastChat' <= MaxChats
    BY <1>1, <1>8 DEF ToolList, NoMail, CanAddChat, AddChat
  <2> QED BY <2>1, SameInPlace
<1>9. PICK base : base = OpDone(r) /\ InPlace(base)
  BY DoesInPlace DEF OpDone
<1>10. CASE SpawnTask(r)
  <2>1. runs[r].op.at = "task" /\ UNCHANGED <<lastRec, lastChat>>
    BY <1>10 DEF SpawnTask
  <2>2. PICK n : n = NewRun(runs[r].op.chat, runs[r].op.rec, "spawn", Zero,
                            [rec |-> runs[r].rec, chat |-> runs[r].op.from], NoClaim)
    OBVIOUS
  <2>3. n \in RunsOf(1..lastRec, 1..lastChat) /\ n.st = "waiting"
    <3>1. /\ runs[r].op.chat \in 1..lastChat /\ runs[r].op.rec \in 1..lastRec
          /\ runs[r].op.from \in 1..lastChat /\ runs[r].rec \in 1..lastRec
      BY <2>1, OpFacts, RunFacts
    <3>2. /\ [rec |-> runs[r].rec, chat |-> runs[r].op.from] \in RoutesOf(1..lastRec, 1..lastChat)
          /\ Zero \in Nat /\ "spawn" \in Kinds /\ NoClaim \in KeyWindows \cup {NoClaim}
      BY <3>1 DEF RoutesOf, Zero, Kinds
    <3> QED BY <2>2, <3>1, <3>2 DEF NewRun, RunsOf, Stages, OpsOf
  <2>4. (runs' = base /\ NoMail) \/ Deliver(base, n, TRUE)
    BY <1>9, <1>10, <2>2 DEF SpawnTask
  <2>5. CASE runs' = base /\ NoMail
    BY <1>1, <1>9, <2>1, <2>5, LineStays DEF NoMail
  <2>6. CASE Deliver(base, n, TRUE)
    BY <1>1, <1>9, <2>1, <2>3, <2>6, LineDelivered
  <2> QED BY <2>4, <2>5, <2>6
<1>11. CASE SendMail(r)
  <2>1. runs[r].op.at = "mail" /\ UNCHANGED <<lastRec, lastChat>>
    BY <1>11 DEF SendMail
  <2>2. PICK n : n = NewRun(runs[r].op.chat, runs[r].op.to, "message", Zero, NoRoute, NoClaim)
    OBVIOUS
  <2>3. n \in RunsOf(1..lastRec, 1..lastChat) /\ n.st = "waiting" /\ runs[r].op.wake \in BOOLEAN
    <3>1. runs[r].op.chat \in 1..lastChat /\ runs[r].op.to \in 1..lastRec /\ runs[r].op.wake \in BOOLEAN
      BY <2>1, OpFacts
    <3>2. /\ NoRoute \in RoutesOf(1..lastRec, 1..lastChat)
          /\ Zero \in Nat /\ "message" \in Kinds /\ NoClaim \in KeyWindows \cup {NoClaim}
      BY DEF RoutesOf, Zero, Kinds
    <3> QED BY <2>2, <3>1, <3>2 DEF NewRun, RunsOf, Stages, OpsOf
  <2>4. (runs' = base /\ NoMail) \/ Deliver(base, n, runs[r].op.wake)
    BY <1>9, <1>11, <2>2 DEF SendMail
  <2>5. CASE runs' = base /\ NoMail
    BY <1>1, <1>9, <2>1, <2>5, LineStays DEF NoMail
  <2>6. CASE Deliver(base, n, runs[r].op.wake)
    BY <1>1, <1>9, <2>1, <2>3, <2>6, LineDelivered
  <2> QED BY <2>4, <2>5, <2>6
<1> QED BY <1>3, <1>4, <1>5, <1>6, <1>7, <1>8, <1>10, <1>11

LEMMA RequestInLine ==
    ASSUME MailInv, LineInv, NEW p \in Humans, RequestGoesOn(p)
    PROVE  LineInv'
<1>1. lastChat \in Nat /\ lastChat <= MaxChats /\ MaxChats \in Nat
  BY MailAssumption DEF LineInv, MailInv, MailTypes, ChatTypes
<1>2. CASE UNCHANGED <<runs, line>> /\ lastChat' <= MaxChats
  BY <1>2, SameInPlace
<1>3. CASE Claim(p)
  BY <1>1, <1>2, <1>3 DEF Claim, ClaimIn, Fixed
<1>4. CASE CreateRecord(p) \/ CreateItsChat(p)
  BY <1>1, <1>2, <1>4 DEF CreateRecord, CreateItsChat, NoMail, CanAddChat, AddChat
<1>5. CASE DeleteChatCascade(p) \/ DeleteRecords(p)
  BY <1>1, <1>2, <1>5 DEF DeleteChatCascade, DeleteRecords
<1>6. CASE PostSubmit(p)
  <2>1. req[p].at = "submit" /\ lastChat' = lastChat
    BY <1>6 DEF PostSubmit, Fixed
  <2>2. /\ req[p].chat \in 1..lastChat /\ req[p].rec \in 1..lastRec /\ req[p].key \in KeyWindows
        /\ req[p].id \in 1..lastId /\ (\A m \in Mail : m.id # req[p].id)
    BY <2>1, ReqFacts DEF MailInv, PostIds, Posting
  <2>3. req[p].id \in Nat /\ req[p].id \notin DOMAIN runs
    <3>1. \A r \in DOMAIN runs : Msg(r, runs[r]) \in Mail /\ Msg(r, runs[r]).id = r
      BY DEF Mail, Msg
    <3> QED BY <2>2, <3>1
  <2>4. PICK n : n = NewRun(req[p].chat, req[p].rec, "human", Zero, NoRoute, req[p].key)
    OBVIOUS
  <2>5. n \in RunsOf(1..lastRec, 1..lastChat) /\ n.st = "waiting"
    <3>1. "human" \in Kinds /\ Zero \in Nat /\ NoRoute \in RoutesOf(1..lastRec, 1..lastChat)
      BY DEF Kinds, Zero, RoutesOf
    <3> QED BY <2>2, <2>4, <3>1 DEF NewRun, RunsOf, Stages, OpsOf
  <2>6. CASE UNCHANGED <<runs, line>>
    BY <1>1, <2>1, <2>6, SameInPlace
  <2>7. CASE Submit(runs, req[p].id, n)
    <3>1. PICK base : base = runs /\ InPlace(base)
      BY DEF InPlace
    <3>2. PICK id \in Nat : id = req[p].id /\ id \notin DOMAIN runs
      BY <2>3
    <3>3. Submit(base, id, n) /\ lastChat' <= MaxChats
      BY <1>1, <2>1, <2>7, <3>1, <3>2
    <3> QED BY <2>5, <3>1, <3>2, <3>3, LineSubmitted
  <2> QED BY <1>6, <2>4, <2>6, <2>7 DEF PostSubmit
<1> QED BY <1>3, <1>4, <1>5, <1>6 DEF RequestGoesOn

LEMMA LineStep == MailInv /\ LineInv /\ [MNext]_mvars => LineInv'
<1> SUFFICES ASSUME MailInv, LineInv, [MNext]_mvars PROVE LineInv'
  OBVIOUS
<1>1. lastChat \in Nat /\ lastChat <= MaxChats /\ MaxChats \in Nat
  BY MailAssumption DEF LineInv, MailInv, MailTypes, ChatTypes
<1>2. CASE UNCHANGED <<runs, line, lastChat>>
  BY <1>1, <1>2, SameInPlace
<1>3. ASSUME NEW S, StopRuns(S), lastChat' = lastChat PROVE LineInv'
  BY <1>3, StoppedInLine
<1>4. ASSUME NEW r \in DOMAIN runs, RunGoesOn(r) PROVE LineInv'
  BY <1>4, LifeInLine, PromotedInLine, ToolInLine DEF RunGoesOn
<1>5. ASSUME NEW r \in DOMAIN runs, ToolSpawn(r) \/ ToolSend(r) \/ ToolList(r) PROVE LineInv'
  BY <1>5, ToolInLine
<1>6. ASSUME NEW r \in DOMAIN runs, ToolStop(r) \/ CancelRun(r) PROVE LineInv'
  BY <1>3, <1>6 DEF ToolStop, CancelRun, Fixed
<1>7. ASSUME NEW p \in Humans, RequestGoesOn(p) PROVE LineInv'
  BY <1>7, RequestInLine
<1>8. ASSUME NEW p \in Humans, NEW c \in DOMAIN chats,
             CreateChat(p, c) \/ DeleteChat(p, c) \/ \E k \in Keys : Post(p, c, k)
      PROVE  LineInv'
  BY <1>2, <1>3, <1>8 DEF CreateChat, DeleteChat, Post, Fixed, NoMail
<1>9. ASSUME NEW p \in Humans, NEW a \in DOMAIN recs, DeleteAgent(p, a) PROVE LineInv'
  BY <1>3, <1>9 DEF DeleteAgent, Fixed
<1>10. CASE \/ \E a, b \in DOMAIN recs : SetEdge(a, b)
            \/ \E a \in DOMAIN recs : SetWake(a)
            \/ PurgeRuns \/ \E k \in Keys : Expire(k)
  BY <1>2, <1>10 DEF SetEdge, SetWake, PurgeRuns, Expire, Fixed, NoMail
<1>11. CASE Crash
  <2>1. /\ lastChat' = lastChat /\ line' = [c \in DOMAIN line |-> <<>>] /\ DOMAIN runs' = DOMAIN runs
        /\ \A r \in DOMAIN runs : runs'[r] = IF runs[r].st = "done" THEN runs[r]
              ELSE [runs[r] EXCEPT !.st = "done", !.stopped = TRUE, !.op = NoOp]
    BY <1>11 DEF Crash
  <2>2. \A r \in DOMAIN runs : runs'[r].st = "done"
    BY <2>1, RunFacts DEF RunsOf
  <2>3. line' \in [1..MaxChats -> Seq(Nat)]
    <3>1. <<>> \in Seq(Nat)
      OBVIOUS
    <3> QED BY <2>1, <3>1 DEF LineInv
  <2> QED BY <1>1, <2>1, <2>2, <2>3 DEF LineInv, LineOf, Acting
<1>12. CASE UNCHANGED mvars
  BY <1>2, <1>12 DEF mvars
<1> QED BY <1>4, <1>5, <1>6, <1>7, <1>8, <1>9, <1>10, <1>11, <1>12 DEF MNext

LEMMA LineHolds == MSpec => []LineInv
<1>1. MInit => LineInv
  <2> SUFFICES ASSUME MInit PROVE LineInv
    OBVIOUS
  <2>1. lastChat = 1 /\ runs = <<>> /\ line = [c \in 1..MaxChats |-> <<>>]
    BY DEF MInit
  <2>2. DOMAIN runs = {} /\ lastChat <= MaxChats
    BY <2>1, MailAssumption
  <2> QED BY <2>1, <2>2 DEF LineInv
<1> QED BY <1>1, MailHolds, LineStep, PTL DEF MSpec

-----------------------------------------------------------------------------
(* What the invariants say.                                                *)

\* A task is answered at most once, by the chat that got it, and an answer has
\* no route: whatever reaches a chat as an answer is the one message that
\* deliverReply made for that task, however runs end, chats are deleted and
\* the hub crashes meanwhile.
THEOREM RepliesOnceHolds == MSpec => []RepliesOnce
<1>1. MailInv => RepliesOnce
  <2> SUFFICES ASSUME MailInv PROVE RepliesOnce
    OBVIOUS
  <2>1. msgs \subseteq Mail
    BY DEF Mail
  <2>2. /\ \A m \in msgs : m.kind = "reply" => runs[m.to].kind = "spawn"
        /\ \A m, n \in msgs : m.kind = "reply" /\ n.kind = "reply" /\ m.to = n.to => m = n
    BY <2>1 DEF MailInv, Answers, Answered
  <2>3. \A r \in DOMAIN runs : runs[r].kind = "reply" => runs[r].route = NoRoute
    BY DEF MailInv, Routes
  <2> QED BY <2>2, <2>3 DEF RepliesOnce
<1> QED BY <1>1, MailHolds, PTL

LEMMA AtMostOne ==
    ASSUME NEW S, NEW x, S \subseteq {x}
    PROVE  Cardinality(S) <= 1
<1>1. S = {} \/ S = {x}
  OBVIOUS
<1>2. Cardinality({}) = 0 /\ Cardinality({x}) = 1
  BY FS_EmptySet, FS_Singleton
<1> QED BY <1>1, <1>2

\* However posts with one key interleave, repeat or lose their answer, the posts
\* of one window of the key start one run and every answer they get names it,
\* whatever claims the key before, after the window has run out, or after the
\* row was purged: the claim is one transaction that dates the row anew, and a
\* crash keeps it (ClaimIdempotencyKey).
THEOREM OneRunPerKeyHolds == MSpec => []OneRunPerKey
<1>1. MailInv => OneRunPerKey
  <2> SUFFICES ASSUME MailInv, NEW t \in KeyWindows
               PROVE  Cardinality({r \in DOMAIN runs : runs[r].key = t} \cup said[t]) <= 1
    BY DEF OneRunPerKey
  <2>1. t # NoClaim
    BY MailAssumption DEF KeyWindows, NoClaim, Zero
  <2>2. {r \in DOMAIN runs : runs[r].key = t} \subseteq {won[t]}
    BY <2>1 DEF MailInv, KeyedRuns
  <2>3. said[t] \subseteq {won[t]}
    BY DEF MailInv, KeyedRuns
  <2>4. {r \in DOMAIN runs : runs[r].key = t} \cup said[t] \subseteq {won[t]}
    BY <2>2, <2>3
  <2> QED BY <2>4, AtMostOne
<1> QED BY <1>1, MailHolds, PTL

\* A task whose run is over has been answered: the answer is a message of the
\* chat the task came from, or its run is in that chat's line and will append
\* it.  No order of deliveries, promotions and other runs' ends, and no failure of a
\* mailbox insert loses it; what does is named: the task or the answer's own run
\* was cancelled, refused or lost to a crash, the store failed under the
\* delivery, or somebody deleted one of the two chats or records.
THEOREM TaskAnsweredHolds == MSpec => []TaskAnswered
<1>1. MailInv /\ LineInv => TaskAnswered
  <2> SUFFICES ASSUME MailInv, LineInv,
                      NEW r \in DOMAIN runs, runs[r].kind = "spawn", runs[r].st = "done"
               PROVE  \/ runs[r].stopped \/ runs[r].lost
                      \/ \E m \in msgs : m.kind = "reply" /\ m.to = r
                      \/ \E x \in DOMAIN runs :
                           /\ runs[x].kind = "reply" /\ runs[x].to = r
                           /\ runs[x].stopped \/ (runs[x].st = "waiting" /\ InLine(x))
                      \/ ~Live(runs[r].route.rec) \/ runs[r].route.chat \notin DOMAIN chats
                      \/ runs[r].rec \notin DOMAIN recs \/ runs[r].chat \notin DOMAIN chats
    BY DEF TaskAnswered
  <2>1. runs[r].st \in Over
    BY DEF Over
  <2>2. Settled(r)
    BY <2>1 DEF MailInv, TasksSettled
  <2>3. \A x \in DOMAIN runs : runs[x].st = "waiting" => InLine(x)
    BY DEF LineInv, LineOf, InLine
  <2> QED BY <2>2, <2>3 DEF Settled
<1> QED BY <1>1, MailHolds, LineHolds, PTL

-----------------------------------------------------------------------------
(* The library: what a request knows at each of its steps. *)

IsDoc(d) == d = [id |-> d.id, text |-> d.text] /\ d.id \in Nat /\ d.text \in Texts
IsRow(r) == r = [name |-> r.name, text |-> r.text] /\ r.name \in Names /\ r.text \in Texts
IsListing(docs) == DOMAIN docs \subseteq Names /\ \A n \in DOMAIN docs : IsDoc(docs[n])
IsTable(rows, ids) == /\ DOMAIN rows \subseteq 1..ids
                      /\ \A r \in DOMAIN rows : IsRow(rows[r])
                      /\ \A r, s \in DOMAIN rows : rows[r].name = rows[s].name => r = s

MirrorKnows(c) ==
    c.at \in {"mirror", "sweep"} =>
      /\ c = [at |-> c.at, id |-> c.id, name |-> c.name, text |-> c.text, from |-> c.from, then |-> c.then]
      /\ c.id \in Nat /\ c.name \in Names /\ c.text \in Texts
RowsKnows(c) ==
    c.at = "rows" => /\ c = [at |-> "rows", want |-> c.want, docs |-> c.docs]
                     /\ IsListing(c.docs) /\ c.want \in {"list", "update", "delete"}
DocsKnows(c, ids) ==
    /\ c.at = "docs" => c = [at |-> "docs", docs |-> c.docs, rows |-> c.rows, todo |-> c.todo,
                             seen |-> c.seen, want |-> c.want]
    /\ c.at = "stamp" => /\ c.file \in Names /\ c.id \in Nat /\ c.file \in DOMAIN c.docs
    /\ c.at \in {"docs", "stamp"} =>
         /\ IsListing(c.docs) /\ IsTable(c.rows, ids) /\ c.todo \subseteq DOMAIN c.docs
         /\ c.want \in {"list", "update", "delete"}
NameKnows(c) ==
    /\ c.at = "create" => c.name \in Names
    /\ c.at = "after" => c.want \in {"list", "update", "delete"}
Knows(c, ids) == MirrorKnows(c) /\ RowsKnows(c) /\ DocsKnows(c, ids) /\ NameKnows(c)

LibraryTypes ==
    /\ skIds \in Nat /\ IsTable(skRows, skIds) /\ IsListing(skFiles)
    /\ skPc = [p \in Procs |-> skPc[p]] /\ \A p \in Procs : Knows(skPc[p], skIds)
    /\ alone \subseteq Procs


\* What a reconcile that nobody disturbs has done so far, given the rows R and
\* the files F there are: which id each file of the listing it is through with
\* has or is about to get, and what the rows say of them.
CrossedIn(R, F) == \E n \in DOMAIN F, r \in DOMAIN R :
                      R[r].name = n /\ r # F[n].id /\ F[n].id \in DOMAIN R
Done(c) == DOMAIN c.docs \ c.todo
IdNow(c, n, F) == IF c.at = "stamp" /\ n = c.file THEN c.id ELSE F[n].id
Marked(c) == c.seen \cup (IF c.at = "stamp" THEN {c.id} ELSE {})

Listed(c, F) ==
    /\ DOMAIN F = DOMAIN c.docs
    /\ \A n \in DOMAIN c.docs : Kept[F[n].text] \in {c.docs[n].text, Kept[c.docs[n].text]}
    /\ \A n \in c.todo : F[n].id = c.docs[n].id
\* No other row has the name of a file that carries the id of one.
Straight(c) ==
    \A n \in c.todo, r \in DOMAIN c.rows :
      c.rows[r].name = n /\ c.docs[n].id \in DOMAIN c.rows => r = c.docs[n].id
Says(R, id, n, c) == R[id] = [name |-> n, text |-> c.docs[n].text]
Indexed(c, R, F) ==
    /\ \A n \in Done(c) : IdNow(c, n, F) \in DOMAIN R /\ IdNow(c, n, F) \in Marked(c)
    /\ \A n \in Done(c) : \/ Says(R, IdNow(c, n, F), n, c)
                          \/ \E m \in Done(c) \ {n} : IdNow(c, m, F) = IdNow(c, n, F)
    /\ \A r \in DOMAIN R : \/ r \in DOMAIN c.rows /\ R[r] = c.rows[r]
                           \/ \E n \in Done(c) : R[r].name = n /\ IdNow(c, n, F) = r
    /\ \A r \in Marked(c) : \E n \in Done(c) : IdNow(c, n, F) = r
    /\ c.todo # {} => DOMAIN c.rows \subseteq DOMAIN R
Undisturbed(c, R, F) ==
    /\ c.at \in {"rows", "docs", "stamp", "after"}
    /\ c.at = "rows" =>
         /\ ~CrossedIn(R, F) /\ DOMAIN F = DOMAIN c.docs
         /\ \A n \in DOMAIN c.docs : c.docs[n] = ReadDoc(F[n])
    /\ c.at = "stamp" => c.file \in Done(c)
    /\ c.at \in {"docs", "stamp"} => Listed(c, F) /\ Straight(c) /\ Indexed(c, R, F)
AloneRight == \A p \in alone : Undisturbed(skPc[p], skRows, skFiles)

LibraryInv == LibraryTypes /\ AloneRight /\ AloneAgrees

-----------------------------------------------------------------------------
(* One reconcile by itself.                                                 *)

\* The listing is complete when the rows are read.
LEMMA FirstListed ==
    ASSUME SkillAssumption, NEW c, NEW R, NEW F, NEW c2, Undisturbed(c, R, F),
           c.at = "rows", c2.at = "docs", c2.docs = c.docs, c2.rows = R,
           c2.todo = DOMAIN c.docs, c2.seen = {}, \A n \in DOMAIN c.docs : IsDoc(F[n])
    PROVE  Undisturbed(c2, R, F)
<1>1. /\ ~CrossedIn(R, F) /\ DOMAIN F = DOMAIN c.docs
      /\ \A n \in DOMAIN c.docs : c.docs[n] = ReadDoc(F[n])
  BY DEF Undisturbed
<1>2. ASSUME NEW n \in DOMAIN c.docs
      PROVE  c.docs[n].id = F[n].id /\ c.docs[n].text = Kept[F[n].text]
  <2>1. c.docs[n] = [id |-> F[n].id, text |-> Kept[F[n].text]]
    BY <1>1 DEF ReadDoc
  <2> QED BY <2>1
<1>3. Listed(c2, F)
  BY <1>1, <1>2 DEF Listed
<1>4. Straight(c2)
  BY <1>1, <1>2 DEF Straight, CrossedIn
<1>5. Done(c2) = {} /\ Marked(c2) = {}
  BY DEF Done, Marked
<1>6. Indexed(c2, R, F)
  BY <1>5 DEF Indexed
<1> QED BY <1>3, <1>4, <1>6 DEF Undisturbed

\* A file is through when its row says what it says, if need be under a new
\* id or after an update, and it carries the id or is about to be stamped.
LEMMA Visit ==
    ASSUME NEW c, NEW R, NEW F, Undisturbed(c, R, F), c.at = "docs", NEW n \in c.todo,
           c.todo \subseteq DOMAIN c.docs,
           NEW k, NEW R2, NEW c2,
           \/ R2 = Put(R, k, [name |-> n, text |-> c.docs[n].text])
           \/ R2 = R /\ k \in DOMAIN c.rows /\ Says(c.rows, k, n, c)
           \/ /\ k \in DOMAIN R /\ k \in DOMAIN c.rows /\ R[k] # c.rows[k]
              /\ R2 = Put(R, k, [name |-> R[k].name, text |-> c.docs[n].text]),
           c2.docs = c.docs, c2.rows = c.rows, c2.todo = c.todo \ {n},
           \/ c2.at = "stamp" /\ c2.seen = c.seen /\ c2.file = n /\ c2.id = k
           \/ c2.at = "docs" /\ c2.seen = c.seen \cup {k} /\ c.docs[n].id = k
    PROVE  Undisturbed(c2, R2, F)
<1>1. Listed(c, F) /\ Straight(c) /\ Indexed(c, R, F)
  BY DEF Undisturbed
<1>2. Listed(c2, F) /\ Straight(c2)
  BY <1>1 DEF Listed, Straight
<1>3. Done(c2) = Done(c) \cup {n} /\ n \notin Done(c)
  BY DEF Done
<1>4. IdNow(c2, n, F) = k
  BY <1>1 DEF IdNow, Listed
<1>5. \A m \in Done(c) : IdNow(c2, m, F) = F[m].id /\ IdNow(c, m, F) = F[m].id
  BY <1>3 DEF IdNow
<1>6. Marked(c) = c.seen /\ Marked(c2) = c.seen \cup {k}
  BY DEF Marked
<1>7. /\ k \in DOMAIN R2 /\ DOMAIN R2 = DOMAIN R \cup {k}
      /\ \A r \in DOMAIN R : r # k => R2[r] = R[r]
      /\ \/ Says(R2, k, n, c)
         \/ R2 = R /\ k \in DOMAIN c.rows /\ Says(c.rows, k, n, c)
         \/ k \in DOMAIN R /\ R[k] # c.rows[k] /\ R2[k].name = R[k].name
  <2>1. CASE R2 = Put(R, k, [name |-> n, text |-> c.docs[n].text])
    BY <1>1, <2>1 DEF Put, Says
  <2>2. CASE R2 = R /\ k \in DOMAIN c.rows /\ Says(c.rows, k, n, c)
    BY <1>1, <2>2 DEF Indexed
  <2>3. CASE /\ k \in DOMAIN R /\ k \in DOMAIN c.rows /\ R[k] # c.rows[k]
             /\ R2 = Put(R, k, [name |-> R[k].name, text |-> c.docs[n].text])
    <3>1. /\ k \in DOMAIN R2 /\ DOMAIN R2 = DOMAIN R \cup {k}
          /\ \A r \in DOMAIN R : r # k => R2[r] = R[r]
          /\ R2[k] = [name |-> R[k].name, text |-> c.docs[n].text]
      BY <2>3 DEF Put
    <3>2. R2[k].name = R[k].name
      BY ONLY <3>1
    <3> QED BY <2>3, <3>1, <3>2
  <2> QED BY <2>1, <2>2, <2>3
<1>8. /\ \A m \in Done(c) : F[m].id \in DOMAIN R /\ F[m].id \in c.seen
      /\ \A m \in Done(c) : Says(R, F[m].id, m, c) \/ \E l \in Done(c) \ {m} : F[l].id = F[m].id
      /\ \A r \in DOMAIN R : \/ r \in DOMAIN c.rows /\ R[r] = c.rows[r]
                             \/ \E m \in Done(c) : R[r].name = m /\ F[m].id = r
      /\ \A r \in c.seen : \E m \in Done(c) : F[m].id = r
      /\ DOMAIN c.rows \subseteq DOMAIN R
  BY <1>1, <1>5, <1>6 DEF Indexed
<1> DEFINE I(m) == IdNow(c2, m, F)
<1>9. I(n) = k /\ \A m \in Done(c) : I(m) = F[m].id
  BY <1>4, <1>5
<1> HIDE DEF I
<1>10. \A m \in Done(c2) : I(m) \in DOMAIN R2 /\ I(m) \in Marked(c2)
  BY <1>3, <1>6, <1>7, <1>8, <1>9
<1>11. ASSUME NEW m \in Done(c2)
       PROVE  Says(R2, I(m), m, c2) \/ \E l \in Done(c2) \ {m} : I(l) = I(m)
  <2>1. CASE m = n /\ Says(R2, k, n, c)
    BY <2>1, <1>9 DEF Says
  <2>2. CASE m = n /\ ~Says(R2, k, n, c)
    <3>1. R[k] # c.rows[k] /\ k \in DOMAIN R
      BY <2>2, <1>7 DEF Says
    <3>2. PICK l \in Done(c) : F[l].id = k
      BY <3>1, <1>7, <1>8
    <3> QED BY <3>2, <2>2, <1>3, <1>9
  <2>3. CASE m # n /\ F[m].id = k
    BY <2>3, <1>3, <1>9
  <2>4. CASE m # n /\ F[m].id # k
    <3>1. m \in Done(c) /\ I(m) = F[m].id /\ F[m].id \in DOMAIN R /\ R2[F[m].id] = R[F[m].id]
      BY <2>4, <1>3, <1>7, <1>8, <1>9
    <3>2. CASE Says(R, F[m].id, m, c)
      BY <3>1, <3>2 DEF Says
    <3>3. CASE \E l \in Done(c) \ {m} : F[l].id = F[m].id
      BY <3>1, <3>3, <1>3, <1>9
    <3> QED BY <3>1, <3>2, <3>3, <1>8
  <2> QED BY <2>1, <2>2, <2>3, <2>4
<1>12. ASSUME NEW r \in DOMAIN R2
       PROVE  \/ r \in DOMAIN c2.rows /\ R2[r] = c2.rows[r]
              \/ \E m \in Done(c2) : R2[r].name = m /\ I(m) = r
  <2>1. CASE r = k /\ Says(R2, k, n, c)
    BY <2>1, <1>3, <1>9 DEF Says
  <2>2. CASE r = k /\ ~Says(R2, k, n, c)
    BY <2>2, <1>3, <1>7, <1>8, <1>9
  <2>3. CASE r # k
    BY <2>3, <1>3, <1>7, <1>8, <1>9
  <2> QED BY <2>1, <2>2, <2>3
<1>13. \A r \in Marked(c2) : \E m \in Done(c2) : I(m) = r
  BY <1>3, <1>6, <1>8, <1>9
<1>14. DOMAIN c2.rows \subseteq DOMAIN R2
  BY <1>7, <1>8
<1>15. Indexed(c2, R2, F)
  BY <1>10, <1>11, <1>12, <1>13, <1>14 DEF Indexed, I
<1> QED BY <1>2, <1>3, <1>15 DEF Undisturbed

\* The row of an undisturbed file can be inserted or updated.
LEMMA NameFree ==
    ASSUME NEW c, NEW R, NEW F, Undisturbed(c, R, F), c.at = "docs", NEW n \in c.todo,
           NEW ids, IsTable(c.rows, ids),
           NEW r \in DOMAIN R, R[r].name = n
    PROVE  r = RowOf(c, n)
<1>1. Straight(c) /\ Indexed(c, R, F) /\ n \notin Done(c)
  BY DEF Undisturbed, Done
<1>2. r \in DOMAIN c.rows /\ c.rows[r].name = n
  BY <1>1 DEF Indexed
<1>3. CASE c.docs[n].id \in DOMAIN c.rows
  BY <1>1, <1>2, <1>3 DEF Straight, RowOf
<1>4. CASE c.docs[n].id \notin DOMAIN c.rows
  <2> DEFINE same == {s \in DOMAIN c.rows : c.rows[s].name = n}
  <2>1. r \in same /\ \A s \in same : s = r
    BY <1>2 DEF IsTable
  <2>2. RowOf(c, n) = CHOOSE s \in same : TRUE
    BY <1>4, <2>1 DEF RowOf
  <2> QED BY <2>1, <2>2
<1> QED BY <1>3, <1>4

LEMMA RowOfIs ==
    ASSUME NEW c, NEW n, RowOf(c, n) # NoId
    PROVE  /\ RowOf(c, n) \in DOMAIN c.rows
           /\ c.docs[n].id = RowOf(c, n) \/ c.rows[RowOf(c, n)].name = n
BY DEF RowOf

LEMMA Stamped ==
    ASSUME SkillAssumption, NEW c, NEW R, NEW F, NEW c2, Undisturbed(c, R, F), c.at = "stamp",
           c.todo \subseteq DOMAIN c.docs, c2.at = "docs", c2.docs = c.docs, c2.rows = c.rows,
           c2.todo = c.todo, c2.seen = c.seen \cup {c.id}
    PROVE  Undisturbed(c2, R, Put(F, c.file, SkillFile(c.id, c.docs[c.file].text)))
<1> DEFINE G == Put(F, c.file, SkillFile(c.id, c.docs[c.file].text))
<1>1. Listed(c, F) /\ Straight(c) /\ Indexed(c, R, F) /\ c.file \in Done(c)
  BY DEF Undisturbed
<1>2. /\ DOMAIN G = DOMAIN F /\ G[c.file].id = c.id /\ G[c.file].text = c.docs[c.file].text
      /\ \A m \in DOMAIN F : m # c.file => G[m] = F[m]
  <2>1. c.file \in DOMAIN F
    BY <1>1 DEF Done, Listed
  <2> QED BY <2>1 DEF Put, SkillFile
<1> HIDE DEF G
<1>3. Done(c2) = Done(c) /\ Done(c) \subseteq DOMAIN F /\ Done(c) \cap c.todo = {}
  BY <1>1 DEF Done, Listed
<1>4. \A m \in Done(c) : IdNow(c2, m, G) = IdNow(c, m, F)
  BY <1>2, <1>3 DEF IdNow
<1>5. Marked(c2) = Marked(c)
  BY DEF Marked
<1>6. Listed(c2, G)
  <2>1. ASSUME NEW m \in c2.todo PROVE G[m].id = c2.docs[m].id
    <3>1. m # c.file /\ F[m].id = c.docs[m].id
      BY <1>1, <1>3 DEF Listed
    <3>2. m \in DOMAIN F
      BY <1>1 DEF Listed
    <3> QED BY <3>1, <3>2, <1>2
  <2> QED BY <1>1, <1>2, <2>1 DEF Listed
<1>7. Straight(c2)
  BY <1>1 DEF Straight
<1>8. Indexed(c2, R, G)
  BY <1>1, <1>3, <1>4, <1>5 DEF Indexed, Says
<1> QED BY <1>6, <1>7, <1>8 DEF Undisturbed, G

LEMMA Pruned ==
    ASSUME NEW c, NEW R, NEW F, Undisturbed(c, R, F), c.at = "docs", c.todo = {},
           NEW r \in DOMAIN R, r \notin c.seen
    PROVE  Undisturbed(c, Drop(R, {r}), F)
<1> DEFINE Q == Drop(R, {r})
<1>1. Indexed(c, R, F) /\ Marked(c) = c.seen
  BY DEF Undisturbed, Marked
<1>2. DOMAIN Q = DOMAIN R \ {r} /\ \A s \in DOMAIN Q : Q[s] = R[s]
  BY DEF Drop
<1> HIDE DEF Q
<1>3. Indexed(c, Q, F)
  BY <1>1, <1>2 DEF Indexed, Says
<1> QED BY <1>3 DEF Undisturbed, Q

\* When it is through, each file has the row it says.
LEMMA Agreed ==
    ASSUME NEW c, NEW R, NEW F, Undisturbed(c, R, F), c.at = "docs", c.todo = {},
           (DOMAIN c.rows \ c.seen) \cap DOMAIN R = {},
           \A m, l \in DOMAIN F : m # l => F[m].id # F[l].id \/ F[m].id = NoId,
           NoId \notin DOMAIN R
    PROVE  /\ \A n \in DOMAIN F : /\ F[n].id \in DOMAIN R /\ R[F[n].id].name = n
                                  /\ Kept[F[n].text] \in {R[F[n].id].text, Kept[R[F[n].id].text]}
           /\ \A r \in DOMAIN R : R[r].name \in DOMAIN F
<1>1. Listed(c, F) /\ Indexed(c, R, F) /\ Done(c) = DOMAIN F /\ Marked(c) = c.seen
  BY DEF Undisturbed, Marked, Done, Listed
<1>2. \A n \in DOMAIN F : IdNow(c, n, F) = F[n].id
  BY DEF IdNow
<1>3. ASSUME NEW n \in DOMAIN F
      PROVE  F[n].id \in DOMAIN R /\ Says(R, F[n].id, n, c)
  BY <1>1, <1>2 DEF Indexed
<1>4. ASSUME NEW n \in DOMAIN F
      PROVE  R[F[n].id].name = n /\ R[F[n].id].text = c.docs[n].text
  <2>1. R[F[n].id] = [name |-> n, text |-> c.docs[n].text]
    BY <1>3 DEF Says
  <2> QED BY <2>1
<1>5. ASSUME NEW r \in DOMAIN R PROVE R[r].name \in DOMAIN F
  <2>1. CASE r \in c.seen
    BY <2>1, <1>1, <1>2, <1>4 DEF Indexed
  <2>2. CASE r \notin c.seen
    BY <2>2, <1>1 DEF Indexed
  <2> QED BY <2>1, <2>2
<1> QED BY <1>1, <1>3, <1>4, <1>5 DEF Listed

-----------------------------------------------------------------------------
(* The steps of the library.                                                *)

\* Nobody but p goes on undisturbed when rows or files change.
Quietly(p) == \/ UNCHANGED <<skRows, skFiles>> /\ alone' \subseteq alone \cup {p}
              \/ alone' \subseteq {p}

LEMMA MoreKnown ==
    ASSUME NEW i \in Nat, NEW j \in Nat, i <= j, NEW c, Knows(c, i)
    PROVE  Knows(c, j)
<1>1. 1..i \subseteq 1..j
  OBVIOUS
<1> QED BY <1>1 DEF Knows, DocsKnows, IsTable

LEMMA TurnKeeps ==
    ASSUME LibraryInv, NEW p \in Procs,
           skPc' = [skPc EXCEPT ![p] = skPc'[p]], Knows(skPc'[p], skIds'),
           skIds' \in Nat, skIds <= skIds', IsTable(skRows', skIds'), IsListing(skFiles'),
           Quietly(p), p \in alone' => Undisturbed(skPc'[p], skRows', skFiles'), AloneAgrees'
    PROVE  LibraryInv'
<1>1. LibraryTypes /\ AloneRight
  BY DEF LibraryInv
<1>2. skPc' = [q \in Procs |-> skPc'[q]] /\ \A q \in Procs : q # p => skPc'[q] = skPc[q]
  BY <1>1 DEF LibraryTypes
<1>3. \A q \in Procs : Knows(skPc'[q], skIds')
  BY <1>1, <1>2, MoreKnown DEF LibraryTypes
<1>4. alone' \subseteq Procs
  BY <1>1 DEF LibraryTypes, Quietly
<1>5. ASSUME NEW q \in alone'
      PROVE  Undisturbed(skPc'[q], skRows', skFiles')
  <2>1. CASE q = p
    BY <2>1, <1>5
  <2>2. CASE q # p
    <3>1. skRows' = skRows /\ skFiles' = skFiles /\ q \in alone /\ skPc'[q] = skPc[q]
      BY <2>2, <1>2, <1>4, <1>5 DEF Quietly
    <3> QED BY <3>1, <1>1 DEF AloneRight
  <2> QED BY <2>1, <2>2
<1> QED BY <1>2, <1>3, <1>4, <1>5 DEF LibraryInv, LibraryTypes, AloneRight

\* As long as rows and files stay, so does their agreement.
LEMMA StillAgree ==
    ASSUME LibraryInv, skRows' = skRows, skFiles' = skFiles, settled' => settled
    PROVE  AloneAgrees'
BY DEF LibraryInv, AloneAgrees, Duplicated, EachHasItsRow, ReadDoc

LEMMA CommitIs ==
    ASSUME LibraryInv, NEW p \in Procs, NEW rows, NEW files, Commit(p, rows, files)
    PROVE  /\ skRows' = rows /\ skFiles' = files /\ Quietly(p)
           /\ alone' \subseteq alone /\ AloneAgrees'
<1>1. CASE rows # skRows \/ files # skFiles
  BY <1>1 DEF Commit, Quietly, AloneAgrees
<1>2. CASE ~(rows # skRows \/ files # skFiles)
  <2>1. /\ skRows' = skRows /\ skFiles' = skFiles /\ alone' = alone /\ settled' = settled
        /\ skRows' = rows /\ skFiles' = files
    BY <1>2 DEF Commit
  <2> QED BY <2>1, StillAgree DEF Quietly
<1> QED BY <1>1, <1>2

LEMMA PutRow ==
    ASSUME NEW ids \in Nat, NEW more \in Nat, ids <= more, NEW R, IsTable(R, ids),
           NEW k \in 1..more, NEW n \in Names, NEW t \in Texts,
           \A r \in DOMAIN R \ {k} : R[r].name # n
    PROVE  IsTable(Put(R, k, [name |-> n, text |-> t]), more)
<1> DEFINE Q == Put(R, k, [name |-> n, text |-> t])
<1>1. /\ DOMAIN Q = DOMAIN R \cup {k} /\ Q[k] = [name |-> n, text |-> t]
      /\ \A r \in DOMAIN R \ {k} : Q[r] = R[r]
  BY DEF Put
<1> HIDE DEF Q
<1>2. DOMAIN Q \subseteq 1..more
  BY <1>1 DEF IsTable
<1>3. \A r \in DOMAIN Q : IsRow(Q[r])
  BY <1>1 DEF IsTable, IsRow
<1>4. \A r, s \in DOMAIN Q : Q[r].name = Q[s].name => r = s
  BY <1>1 DEF IsTable
<1> QED BY <1>2, <1>3, <1>4 DEF IsTable, Q

LEMMA PutDoc ==
    ASSUME NEW F, IsListing(F), NEW n \in Names, NEW i \in Nat, NEW t \in Texts
    PROVE  IsListing(Put(F, n, SkillFile(i, t)))
<1> DEFINE G == Put(F, n, SkillFile(i, t))
<1>1. /\ DOMAIN G = DOMAIN F \cup {n} /\ G[n] = [id |-> i, text |-> t]
      /\ \A m \in DOMAIN F \ {n} : G[m] = F[m]
  BY DEF Put, SkillFile
<1> HIDE DEF G
<1>2. \A m \in DOMAIN G : IsDoc(G[m])
  BY <1>1 DEF IsListing, IsDoc
<1> QED BY <1>1, <1>2 DEF IsListing, G

LEMMA DropSome ==
    ASSUME NEW S, NEW R, NEW ids
    PROVE  /\ IsTable(R, ids) => IsTable(Drop(R, S), ids)
           /\ IsListing(R) => IsListing(Drop(R, S))
<1> DEFINE Q == Drop(R, S)
<1>1. DOMAIN Q = DOMAIN R \ S /\ \A r \in DOMAIN Q : Q[r] = R[r]
  BY DEF Drop
<1> HIDE DEF Q
<1>2. IsTable(R, ids) => IsTable(Q, ids)
  BY <1>1 DEF IsTable
<1>3. IsListing(R) => IsListing(Q)
  BY <1>1 DEF IsListing
<1> QED BY <1>2, <1>3 DEF Q

WithId(rec, id) == [rec EXCEPT !.id = id]

LEMMA InsertIs ==
    ASSUME LibraryInv, NEW p \in Procs, NEW n \in Names, NEW t \in Texts, NEW onDone, NEW onTaken,
           InsertRow(p, n, t, onDone, onTaken)
    PROVE  /\ skIds' \in Nat /\ skIds <= skIds' /\ IsTable(skRows', skIds') /\ skFiles' = skFiles
           /\ Quietly(p) /\ alone' \subseteq alone /\ AloneAgrees'
           /\ \/ /\ \E r \in DOMAIN skRows : skRows[r].name = n
                 /\ skPc' = [skPc EXCEPT ![p] = onTaken]
              \/ /\ skRows' = Put(skRows, skIds + 1, [name |-> n, text |-> t])
                 /\ skPc' = [skPc EXCEPT ![p] = WithId(onDone, skIds + 1)]
<1>1. skIds \in Nat /\ IsTable(skRows, skIds)
  BY DEF LibraryInv, LibraryTypes
<1>2. CASE NameTaken(n, NoId)
  <2>1. /\ skPc' = [skPc EXCEPT ![p] = onTaken] /\ skRows' = skRows /\ skFiles' = skFiles
        /\ skIds' = skIds /\ alone' = alone /\ settled' = settled
    BY <1>2 DEF InsertRow, Goto
  <2>2. \E r \in DOMAIN skRows : skRows[r].name = n
    BY <1>2 DEF NameTaken
  <2> QED BY <1>1, <2>1, <2>2, StillAgree DEF Quietly
<1>3. CASE ~NameTaken(n, NoId)
  <2>1. /\ skPc' = [skPc EXCEPT ![p] = WithId(onDone, skIds + 1)] /\ skIds' = skIds + 1
        /\ Commit(p, Put(skRows, skIds + 1, [name |-> n, text |-> t]), skFiles)
    BY <1>3 DEF InsertRow, Goto, WithId
  <2>2. \A r \in DOMAIN skRows : skRows[r].name # n
    BY <1>1, <1>3 DEF NameTaken, NoId, IsTable
  <2>3. /\ skRows' = Put(skRows, skIds + 1, [name |-> n, text |-> t]) /\ skFiles' = skFiles
        /\ Quietly(p) /\ alone' \subseteq alone /\ AloneAgrees'
    BY <2>1, CommitIs
  <2>4. IsTable(skRows', skIds')
    BY <1>1, <2>1, <2>2, <2>3, PutRow
  <2> QED BY <1>1, <2>1, <2>3, <2>4
<1> QED BY <1>2, <1>3

LEMMA NotAlone ==
    ASSUME LibraryInv, NEW p \in Procs, skPc[p].at \notin {"rows", "docs", "stamp", "after"}
    PROVE  p \notin alone
BY DEF LibraryInv, AloneRight, Undisturbed

LEMMA NothingKnown ==
    ASSUME NEW c, NEW ids,
           c.at \notin {"mirror", "sweep", "rows", "docs", "stamp", "create", "after"}
    PROVE  Knows(c, ids)
BY DEF Knows, MirrorKnows, RowsKnows, DocsKnows, NameKnows

LEMMA MirrorKnown ==
    ASSUME NEW i \in Nat, NEW n \in Names, NEW x \in Texts, NEW from, NEW then, NEW ids
    PROVE  Knows(MirrorOf(i, n, x, from, then), ids)
BY DEF MirrorOf, Knows, MirrorKnows, RowsKnows, DocsKnows, NameKnows

\* A step of p that leaves it neither reconciling nor about to mirror.
LEMMA TurnEnds ==
    ASSUME LibraryInv, NEW p \in Procs, NEW rec, skPc' = [skPc EXCEPT ![p] = rec],
           Knows(rec, skIds'), p \notin alone',
           skIds' \in Nat, skIds <= skIds', IsTable(skRows', skIds'), IsListing(skFiles'),
           Quietly(p), AloneAgrees'
    PROVE  LibraryInv'
<1>1. skPc'[p] = rec
  BY DEF LibraryInv, LibraryTypes
<1> QED BY <1>1, TurnKeeps

\* A step of p that touches neither rows nor files.
LEMMA TurnOnly ==
    ASSUME LibraryInv, NEW p \in Procs, NEW rec, skPc' = [skPc EXCEPT ![p] = rec],
           Knows(rec, skIds), p \notin alone', alone' \subseteq alone,
           UNCHANGED <<skRows, skFiles, skIds, settled>>
    PROVE  LibraryInv'
<1>1. skIds \in Nat /\ IsTable(skRows, skIds) /\ IsListing(skFiles)
  BY DEF LibraryInv, LibraryTypes
<1>2. Quietly(p)
  BY DEF Quietly
<1>3. AloneAgrees'
  BY StillAgree
<1>4. skIds' \in Nat /\ skIds <= skIds' /\ IsTable(skRows', skIds') /\ IsListing(skFiles')
  BY <1>1
<1>5. Knows(rec, skIds')
  OBVIOUS
<1> QED BY <1>2, <1>3, <1>4, <1>5, TurnEnds

\* CreateSkill and its two relatives: the row now, its file later.
LEMMA InsertKeeps ==
    ASSUME LibraryInv, SkillAssumption, NEW p \in Procs, p \notin alone,
           NEW n \in Names, NEW t \in Bodies, InsertRow(p, n, t, MirrorOf(NoId, n, t, n, "none"), Idle)
    PROVE  LibraryInv'
<1>1. t \in Texts /\ skIds \in Nat /\ IsListing(skFiles)
  BY DEF SkillAssumption, LibraryInv, LibraryTypes
<1> DEFINE onDone == MirrorOf(NoId, n, t, n, "none")
           done == WithId(onDone, skIds + 1)
<1>2. done = MirrorOf(skIds + 1, n, t, n, "none")
  BY DEF MirrorOf, WithId
<1>3. /\ skIds' \in Nat /\ skIds <= skIds' /\ IsTable(skRows', skIds') /\ skFiles' = skFiles
      /\ Quietly(p) /\ alone' \subseteq alone /\ AloneAgrees'
      /\ skPc' = [skPc EXCEPT ![p] = Idle] \/ skPc' = [skPc EXCEPT ![p] = done]
  BY <1>1, InsertIs
<1>4. Knows(Idle, skIds') /\ Knows(done, skIds')
  BY <1>1, <1>2, NothingKnown, MirrorKnown DEF Idle
<1> HIDE DEF done
<1> QED BY <1>1, <1>3, <1>4, TurnEnds

LEMMA CreateSkillKeeps ==
    ASSUME LibraryInv, SkillAssumption, NEW p \in Procs, NEW n \in Names, NEW t \in Bodies,
           CreateSkill(p, n, t)
    PROVE  LibraryInv'
<1>1. p \notin alone
  BY NotAlone DEF CreateSkill, Idle
<1> QED BY <1>1, InsertKeeps DEF CreateSkill

LEMMA ImportHostSkillKeeps ==
    ASSUME LibraryInv, SkillAssumption, NEW p \in Procs, NEW n \in Names, NEW h \in Hosts,
           ImportHostSkill(p, h, n)
    PROVE  LibraryInv'
<1>1. p \notin alone
  BY NotAlone DEF ImportHostSkill, Idle
<1> QED BY <1>1, InsertKeeps DEF ImportHostSkill

LEMMA CreateAfterKeeps ==
    ASSUME LibraryInv, SkillAssumption, NEW p \in Procs, NEW t \in Bodies, CreateAfter(p, t)
    PROVE  LibraryInv'
<1>1. p \notin alone
  BY NotAlone DEF CreateAfter
<1>2. skPc[p].name \in Names
  BY DEF CreateAfter, LibraryInv, LibraryTypes, Knows, NameKnows
<1> QED BY <1>1, <1>2, InsertKeeps DEF CreateAfter

LEMMA BeginKeeps ==
    ASSUME LibraryInv, NEW p \in Procs, NEW op \in {"update", "raw", "delete"}, NEW id, Begin(p, op, id)
    PROVE  LibraryInv'
<1>1. p \notin alone
  BY NotAlone DEF Begin, Idle
<1>2. Knows([at |-> op, id |-> id, from |-> skRows[id].name], skIds)
  BY NothingKnown
<1> QED BY <1>1, <1>2, TurnOnly DEF Begin, Goto

LEMMA UpdateSkillKeeps ==
    ASSUME LibraryInv, SkillAssumption, NEW p \in Procs, NEW n \in Names, NEW t \in Bodies,
           UpdateSkill(p, n, t)
    PROVE  LibraryInv'
<1> DEFINE c == skPc[p]
<1>1. /\ p \notin alone /\ t \in Texts /\ skIds' = skIds
      /\ skIds \in Nat /\ IsTable(skRows, skIds) /\ IsListing(skFiles)
  BY NotAlone DEF UpdateSkill, SkillAssumption, LibraryInv, LibraryTypes
<1>2. CASE Updatable(c.id, n)
  <2>1. /\ Commit(p, Put(skRows, c.id, [name |-> n, text |-> t]), skFiles)
        /\ skPc' = [skPc EXCEPT ![p] = MirrorOf(c.id, n, t, c.from, c.at)]
    BY <1>2 DEF UpdateSkill, Goto
  <2>2. c.id \in DOMAIN skRows /\ c.id \in 1..skIds /\ \A r \in DOMAIN skRows \ {c.id} : skRows[r].name # n
    BY <1>1, <1>2 DEF Updatable, NameTaken, IsTable
  <2>3. IsTable(Put(skRows, c.id, [name |-> n, text |-> t]), skIds)
    BY <1>1, <2>2, PutRow
  <2>4. /\ skRows' = Put(skRows, c.id, [name |-> n, text |-> t]) /\ skFiles' = skFiles
        /\ Quietly(p) /\ alone' \subseteq alone /\ AloneAgrees'
    BY <2>1, CommitIs
  <2>5. Knows(MirrorOf(c.id, n, t, c.from, c.at), skIds')
    <3>1. c.id \in Nat /\ t \in Texts
      BY <1>1, <2>2
    <3> HIDE DEF c
    <3> QED BY <3>1, MirrorKnown
  <2>6. /\ skIds' \in Nat /\ skIds <= skIds' /\ IsTable(skRows', skIds') /\ IsListing(skFiles')
        /\ p \notin alone'
    BY <1>1, <2>3, <2>4
  <2> QED BY <2>1, <2>4, <2>5, <2>6, TurnEnds
<1>3. CASE ~Updatable(c.id, n)
  <2>1. Knows(Idle, skIds)
    BY NothingKnown DEF Idle
  <2> QED BY <1>1, <1>3, <2>1, TurnOnly DEF UpdateSkill, Goto
<1> QED BY <1>2, <1>3

LEMMA DeleteSkillKeeps ==
    ASSUME LibraryInv, NEW p \in Procs, DeleteSkill(p)
    PROVE  LibraryInv'
<1> DEFINE c == skPc[p]
           rec == IF c.id \in DOMAIN skRows THEN [at |-> "unlink", name |-> c.from] ELSE Idle
<1>1. /\ p \notin alone /\ skIds' = skIds
      /\ skIds \in Nat /\ IsTable(skRows, skIds) /\ IsListing(skFiles)
  BY NotAlone DEF DeleteSkill, LibraryInv, LibraryTypes
<1>2. Commit(p, Drop(skRows, {c.id}), skFiles) /\ skPc' = [skPc EXCEPT ![p] = rec]
  BY DEF DeleteSkill, Goto
<1>3. /\ skRows' = Drop(skRows, {c.id}) /\ skFiles' = skFiles
      /\ Quietly(p) /\ alone' \subseteq alone /\ AloneAgrees'
  BY <1>2, CommitIs
<1>4. IsTable(skRows', skIds')
  BY <1>1, <1>3, DropSome
<1>5. Knows(rec, skIds')
  BY NothingKnown DEF Idle
<1> HIDE DEF rec
<1>6. /\ skIds' \in Nat /\ skIds <= skIds' /\ IsTable(skRows', skIds') /\ IsListing(skFiles')
      /\ p \notin alone'
  BY <1>1, <1>3, <1>4
<1> QED BY <1>2, <1>3, <1>5, <1>6, TurnEnds

LEMMA MirrorKeeps ==
    ASSUME LibraryInv, NEW p \in Procs, Mirror(p)
    PROVE  LibraryInv'
<1> DEFINE c == skPc[p]
           rec == CASE c.from # c.name -> [c EXCEPT !.at = "sweep"]
                    [] c.then = "raw" -> [c EXCEPT !.then = "none"]
                    [] OTHER -> Idle
<1>1. /\ p \notin alone /\ skIds' = skIds
      /\ skIds \in Nat /\ IsTable(skRows, skIds) /\ IsListing(skFiles)
  BY NotAlone DEF Mirror, LibraryInv, LibraryTypes
<1>2. /\ c = [at |-> "mirror", id |-> c.id, name |-> c.name, text |-> c.text, from |-> c.from, then |-> c.then]
      /\ c.id \in Nat /\ c.name \in Names /\ c.text \in Texts
  BY DEF Mirror, LibraryInv, LibraryTypes, Knows, MirrorKnows
<1>3. /\ Commit(p, skRows, Put(skFiles, c.name, SkillFile(c.id, c.text)))
      /\ skPc' = [skPc EXCEPT ![p] = rec]
  BY DEF Mirror, Goto
<1>4. /\ skRows' = skRows /\ skFiles' = Put(skFiles, c.name, SkillFile(c.id, c.text))
      /\ Quietly(p) /\ alone' \subseteq alone /\ AloneAgrees'
  BY <1>3, CommitIs
<1>5. IsListing(skFiles')
  BY <1>1, <1>2, <1>4, PutDoc
<1>6. \/ rec = [MirrorOf(c.id, c.name, c.text, c.from, c.then) EXCEPT !.at = "sweep"]
      \/ rec = MirrorOf(c.id, c.name, c.text, c.from, "none") \/ rec = Idle
  BY <1>2 DEF MirrorOf
<1>7. Knows([MirrorOf(c.id, c.name, c.text, c.from, c.then) EXCEPT !.at = "sweep"], skIds')
  BY <1>2 DEF MirrorOf, Knows, MirrorKnows, RowsKnows, DocsKnows, NameKnows
<1>8. Knows(rec, skIds')
  BY <1>2, <1>6, <1>7, MirrorKnown, NothingKnown DEF Idle
<1> HIDE DEF rec, c
<1>9. /\ skIds' \in Nat /\ skIds <= skIds' /\ IsTable(skRows', skIds') /\ IsListing(skFiles')
      /\ p \notin alone'
  BY <1>1, <1>4, <1>5
<1> QED BY <1>3, <1>4, <1>8, <1>9, TurnEnds

LEMMA SweepKeeps ==
    ASSUME LibraryInv, NEW p \in Procs, Sweep(p)
    PROVE  LibraryInv'
<1> DEFINE c == skPc[p]
           rec == IF c.then = "raw" THEN [c EXCEPT !.at = "mirror", !.then = "none"] ELSE Idle
<1>1. /\ p \notin alone /\ skIds' = skIds
      /\ skIds \in Nat /\ IsTable(skRows, skIds) /\ IsListing(skFiles)
  BY NotAlone DEF Sweep, LibraryInv, LibraryTypes
<1>2. /\ c = [at |-> "sweep", id |-> c.id, name |-> c.name, text |-> c.text, from |-> c.from, then |-> c.then]
      /\ c.id \in Nat /\ c.name \in Names /\ c.text \in Texts
  BY DEF Sweep, LibraryInv, LibraryTypes, Knows, MirrorKnows
<1>3. Commit(p, skRows, Drop(skFiles, {c.from})) /\ skPc' = [skPc EXCEPT ![p] = rec]
  BY DEF Sweep, Goto
<1>4. /\ skRows' = skRows /\ skFiles' = Drop(skFiles, {c.from})
      /\ Quietly(p) /\ alone' \subseteq alone /\ AloneAgrees'
  BY <1>3, CommitIs
<1>5. IsListing(skFiles')
  BY <1>1, <1>4, DropSome
<1>6. rec = MirrorOf(c.id, c.name, c.text, c.from, "none") \/ rec = Idle
  BY <1>2 DEF MirrorOf
<1>7. Knows(rec, skIds')
  BY <1>2, <1>6, MirrorKnown, NothingKnown DEF Idle
<1> HIDE DEF rec, c
<1>8. /\ skIds' \in Nat /\ skIds <= skIds' /\ IsTable(skRows', skIds') /\ IsListing(skFiles')
      /\ p \notin alone'
  BY <1>1, <1>4, <1>5
<1> QED BY <1>3, <1>4, <1>7, <1>8, TurnEnds

LEMMA UnlinkKeeps ==
    ASSUME LibraryInv, NEW p \in Procs, Unlink(p)
    PROVE  LibraryInv'
<1>1. /\ p \notin alone /\ skIds' = skIds
      /\ skIds \in Nat /\ IsTable(skRows, skIds) /\ IsListing(skFiles)
  BY NotAlone DEF Unlink, LibraryInv, LibraryTypes
<1>2. Commit(p, skRows, Drop(skFiles, {skPc[p].name})) /\ skPc' = [skPc EXCEPT ![p] = Idle]
  BY DEF Unlink, Goto
<1>3. /\ skRows' = skRows /\ skFiles' = Drop(skFiles, {skPc[p].name})
      /\ Quietly(p) /\ alone' \subseteq alone /\ AloneAgrees'
  BY <1>2, CommitIs
<1>4. IsListing(skFiles') /\ Knows(Idle, skIds')
  BY <1>1, <1>3, DropSome, NothingKnown DEF Idle
<1>5. /\ skIds' \in Nat /\ skIds <= skIds' /\ IsTable(skRows', skIds') /\ IsListing(skFiles')
      /\ p \notin alone'
  BY <1>1, <1>3, <1>4
<1> QED BY <1>2, <1>3, <1>4, <1>5, TurnEnds

LEMMA HostKeeps ==
    ASSUME LibraryInv, NEW p \in Procs,
           SwapHost(p) \/ \E h \in Hosts, S \in SUBSET Names : StageHost(p, h, S)
    PROVE  LibraryInv'
<1>1. Knows(Idle, skIds) /\ \A h : Knows([at |-> "swap", host |-> h], skIds)
  BY NothingKnown DEF Idle
<1>2. p \notin alone
  <2>1. skPc[p].at = "swap" \/ skPc[p] = Idle
    BY DEF SwapHost, StageHost
  <2> QED BY <2>1, NotAlone DEF Idle
<1>3. CASE SwapHost(p) /\ skPc' = skPc
  <2>1. UNCHANGED <<skRows, skFiles, skPc, skIds, alone, settled>>
    BY <1>3 DEF SwapHost
  <2>2. LibraryTypes' /\ AloneRight'
    BY <2>1 DEF LibraryInv, LibraryTypes, AloneRight
  <2> QED BY <2>1, <2>2, StillAgree DEF LibraryInv
<1>4. CASE SwapHost(p) /\ skPc' = [skPc EXCEPT ![p] = Idle]
  BY <1>1, <1>2, <1>4, TurnOnly DEF SwapHost
<1>5. CASE \E h \in Hosts, S \in SUBSET Names : StageHost(p, h, S)
  BY <1>1, <1>2, <1>5, TurnOnly DEF StageHost, Goto
<1> QED BY <1>3, <1>4, <1>5 DEF SwapHost, Goto

\* A person at a text editor, and the end of the process, leave nobody alone.
LEMMA OutsideKeeps ==
    ASSUME LibraryInv, SkillAssumption,
           \/ \E n \in Names : HandDelete(n) \/ \E t \in Bodies : HandEdit(n, t)
           \/ Die
    PROVE  LibraryInv'
<1>1. /\ skIds \in Nat /\ IsTable(skRows, skIds) /\ IsListing(skFiles)
      /\ skPc = [p \in Procs |-> skPc[p]] /\ \A p \in Procs : Knows(skPc[p], skIds)
  BY DEF LibraryInv, LibraryTypes
<1>2. skRows' = skRows /\ skIds' = skIds /\ alone' = {}
  BY DEF HandDelete, HandEdit, Die
<1>3. IsListing(skFiles')
  <2>1. ASSUME NEW n \in Names, NEW t \in Bodies, HandEdit(n, t) PROVE IsListing(skFiles')
    <3>1. /\ t \in Texts /\ (IF n \in DOMAIN skFiles THEN skFiles[n].id ELSE NoId) \in Nat
          /\ skFiles' = Put(skFiles, n, SkillFile(IF n \in DOMAIN skFiles THEN skFiles[n].id ELSE NoId, t))
      BY <1>1, <2>1 DEF SkillAssumption, IsListing, IsDoc, NoId, HandEdit
    <3> QED BY <1>1, <3>1, PutDoc
  <2>2. ASSUME NEW n \in Names, HandDelete(n) PROVE IsListing(skFiles')
    BY <1>1, <2>2, DropSome DEF HandDelete
  <2> QED BY <1>1, <2>1, <2>2 DEF Die
<1>4. skPc' = [p \in Procs |-> skPc'[p]] /\ \A p \in Procs : Knows(skPc'[p], skIds)
  <2>1. Knows(Idle, skIds)
    BY NothingKnown DEF Idle
  <2>2. CASE skPc' = [p \in Procs |-> Idle]
    BY <2>1, <2>2
  <2>3. CASE skPc' = skPc
    BY <1>1, <2>3
  <2> QED BY <2>2, <2>3 DEF HandDelete, HandEdit, Die
<1>5. AloneAgrees'
  <2>1. CASE settled' = FALSE
    BY <2>1 DEF AloneAgrees
  <2>2. CASE skFiles' = skFiles /\ settled' = settled
    BY <1>2, <2>2, StillAgree
  <2> QED BY <2>1, <2>2 DEF HandDelete, HandEdit, Die
<1> QED BY <1>1, <1>2, <1>3, <1>4, <1>5 DEF LibraryInv, LibraryTypes, AloneRight

-----------------------------------------------------------------------------
(* The steps of a reconcile.                                                *)

AtDocs(docs, rows, todo, seen, want) ==
    [at |-> "docs", docs |-> docs, rows |-> rows, todo |-> todo, seen |-> seen, want |-> want]
AtStamp(docs, rows, todo, seen, want, file, id) ==
    [at |-> "stamp", docs |-> docs, rows |-> rows, todo |-> todo, seen |-> seen, want |-> want,
     file |-> file, id |-> id]

LEMMA DocsKnown ==
    ASSUME NEW docs, NEW rows, NEW todo, NEW seen, NEW want, NEW ids,
           IsListing(docs), IsTable(rows, ids), todo \subseteq DOMAIN docs,
           want \in {"list", "update", "delete"}
    PROVE  /\ Knows(AtDocs(docs, rows, todo, seen, want), ids)
           /\ \A file \in DOMAIN docs, id \in Nat : Knows(AtStamp(docs, rows, todo, seen, want, file, id), ids)
BY DEF AtDocs, AtStamp, Knows, MirrorKnows, RowsKnows, DocsKnows, NameKnows, IsListing

LEMMA FirstName ==
    ASSUME NEW T, T \subseteq Nat, T # {}
    PROVE  Min(T) \in T
<1> DEFINE Less == {q \in Nat \X Nat : q[1] < q[2]}
<1>1. IsWellFoundedOn(Less, Nat)
  BY NatLessThanWellFounded DEF OpToRel
<1>2. PICK x \in T : \A y \in T : ~ (<<y, x>> \in Less)
  BY <1>1, WFMin
<1>3. ASSUME NEW y \in T PROVE x <= y
  <2>1. <<y, x>> \in Nat \X Nat
    OBVIOUS
  <2>2. ~ (y < x)
    BY <1>2, <2>1
  <2> QED BY <2>2
<1> QED BY <1>3 DEF Min

LEMMA ListFilesKeeps ==
    ASSUME LibraryInv, SkillAssumption, NEW p \in Procs, NEW want \in {"list", "update", "delete"},
           ListFiles(p, want)
    PROVE  LibraryInv'
<1> DEFINE docs == [n \in DOMAIN skFiles |-> ReadDoc(skFiles[n])]
           rec == [at |-> "rows", want |-> want, docs |-> docs]
<1>1. /\ skIds \in Nat /\ IsTable(skRows, skIds) /\ IsListing(skFiles)
      /\ UNCHANGED <<skRows, skFiles, skIds, settled>> /\ alone' \subseteq alone \cup {p}
      /\ skPc' = [skPc EXCEPT ![p] = rec]
  BY DEF ListFiles, Goto, LibraryInv, LibraryTypes
<1>2. p \notin alone
  BY NotAlone DEF ListFiles, Idle
<1>3. IsListing(docs)
  BY <1>1 DEF SkillAssumption, IsListing, IsDoc, ReadDoc
<1> HIDE DEF docs
<1>4. Knows(rec, skIds)
  BY <1>3 DEF Knows, MirrorKnows, RowsKnows, DocsKnows, NameKnows
<1>5. p \in alone' => ~CrossedIn(skRows, skFiles)
  BY <1>2 DEF ListFiles, Crossed, CrossedIn
<1>6. p \in alone' => Undisturbed(rec, skRows, skFiles)
  BY <1>5 DEF Undisturbed, docs
<1>7. Quietly(p)
  BY <1>1 DEF Quietly
<1>8. AloneAgrees'
  BY <1>1, StillAgree
<1>9. skPc'[p] = rec /\ skIds <= skIds'
  BY <1>1 DEF LibraryInv, LibraryTypes
<1> HIDE DEF rec
<1> QED BY <1>1, <1>4, <1>6, <1>7, <1>8, <1>9, TurnKeeps

LEMMA ListRowsKeeps ==
    ASSUME LibraryInv, SkillAssumption, NEW p \in Procs, ListRows(p)
    PROVE  LibraryInv'
<1> DEFINE c == skPc[p]
           rec == AtDocs(c.docs, skRows, DOMAIN c.docs, {}, c.want)
<1>1. /\ skIds \in Nat /\ IsTable(skRows, skIds) /\ IsListing(skFiles) /\ c.at = "rows"
      /\ UNCHANGED <<skRows, skFiles, skIds, settled, alone>>
      /\ skPc' = [skPc EXCEPT ![p] = rec] /\ Knows(c, skIds)
  BY DEF ListRows, Goto, LibraryInv, LibraryTypes, AtDocs
<1>2. IsListing(c.docs) /\ c.want \in {"list", "update", "delete"}
  BY <1>1 DEF Knows, RowsKnows
<1>3. Knows(rec, skIds)
  BY <1>1, <1>2, DocsKnown
<1>4. ASSUME p \in alone PROVE Undisturbed(rec, skRows, skFiles)
  <2>1. Undisturbed(c, skRows, skFiles)
    BY <1>4 DEF LibraryInv, AloneRight
  <2>2. \A n \in DOMAIN c.docs : IsDoc(skFiles[n])
    BY <1>1, <2>1 DEF Undisturbed, IsListing
  <2>3. /\ rec.at = "docs" /\ rec.docs = c.docs /\ rec.rows = skRows
        /\ rec.todo = DOMAIN c.docs /\ rec.seen = {}
    BY DEF AtDocs
  <2> HIDE DEF rec
  <2> QED BY <1>1, <2>1, <2>2, <2>3, FirstListed
<1>5. Quietly(p)
  BY <1>1 DEF Quietly
<1>6. AloneAgrees'
  BY <1>1, StillAgree
<1>7. skPc'[p] = rec /\ skIds <= skIds'
  BY <1>1 DEF LibraryInv, LibraryTypes
<1> HIDE DEF rec
<1> QED BY <1>1, <1>3, <1>4, <1>5, <1>6, <1>7, TurnKeeps

\* A row is inserted before its id is known to p.
LEMMA StampWithId ==
    ASSUME NEW a, NEW b, NEW x, NEW y, NEW w, NEW n, NEW k, NEW i
    PROVE  WithId(AtStamp(a, b, x, y, w, n, k), i) = AtStamp(a, b, x, y, w, n, i)
BY DEF WithId, AtStamp

\* What p knows at its next file, and which states it may leave for.
LEMMA AtFile ==
    ASSUME LibraryInv, SkillAssumption, NEW p \in Procs, skPc[p].at = "docs", skPc[p].todo # {}
    PROVE  LET c == skPc[p]
               n == Min(c.todo)
               rest == c.todo \ {n}
           IN /\ n \in c.todo /\ n \in Names /\ IsDoc(c.docs[n])
              /\ c.todo \subseteq DOMAIN c.docs /\ IsTable(c.rows, skIds)
              /\ RowOf(c, n) # NoId => RowOf(c, n) \in DOMAIN c.rows /\ RowOf(c, n) \in Nat
              /\ [c EXCEPT !.todo = @ \ {n}] = AtDocs(c.docs, c.rows, rest, c.seen, c.want)
              /\ \A ids \in Nat : skIds <= ids =>
                   /\ \A s : Knows(AtDocs(c.docs, c.rows, rest, s, c.want), ids)
                   /\ \A k \in Nat : Knows(AtStamp(c.docs, c.rows, rest, c.seen, c.want, n, k), ids)
<1> DEFINE c == skPc[p]
           n == Min(c.todo)
           rest == c.todo \ {n}
<1>1. /\ skIds \in Nat /\ IsListing(c.docs) /\ IsTable(c.rows, skIds) /\ c.todo \subseteq DOMAIN c.docs
      /\ c.want \in {"list", "update", "delete"}
      /\ c = AtDocs(c.docs, c.rows, c.todo, c.seen, c.want)
  BY DEF LibraryInv, LibraryTypes, Knows, DocsKnows, AtDocs
<1>2. c.todo \subseteq Nat /\ c.todo \subseteq Names
  BY <1>1 DEF IsListing, SkillAssumption
<1>3. n \in c.todo
  BY <1>2, FirstName
<1> HIDE DEF n
<1>4. IsDoc(c.docs[n]) /\ n \in Names
  BY <1>1, <1>2, <1>3 DEF IsListing
<1>5. RowOf(c, n) # NoId => RowOf(c, n) \in DOMAIN c.rows /\ RowOf(c, n) \in Nat
  BY <1>1, RowOfIs DEF IsTable
<1>6. [c EXCEPT !.todo = @ \ {n}] = AtDocs(c.docs, c.rows, rest, c.seen, c.want)
  BY <1>1 DEF AtDocs
<1>7. ASSUME NEW ids \in Nat, skIds <= ids
      PROVE  /\ \A s : Knows(AtDocs(c.docs, c.rows, rest, s, c.want), ids)
             /\ \A k \in Nat : Knows(AtStamp(c.docs, c.rows, rest, c.seen, c.want, n, k), ids)
  <2>1. IsTable(c.rows, ids)
    <3>1. 1..skIds \subseteq 1..ids
      BY <1>1, <1>7
    <3> QED BY <1>1, <3>1 DEF IsTable
  <2>2. rest \subseteq DOMAIN c.docs /\ n \in DOMAIN c.docs
    BY <1>1, <1>3
  <2> HIDE DEF rest, c
  <2> QED BY <1>1, <2>1, <2>2, DocsKnown
<1> QED BY <1>1, <1>3, <1>4, <1>5, <1>6, <1>7 DEF n

\* A file without a row is adopted; that its name is taken, only a reconcile
\* that somebody disturbs finds.
LEMMA AdoptKeeps ==
    ASSUME LibraryInv, SkillAssumption, NEW p \in Procs, skPc[p].at = "docs", skPc[p].todo # {},
           LET c == skPc[p]
               n == Min(c.todo)
               next == AtDocs(c.docs, c.rows, c.todo \ {n}, c.seen, c.want)
           IN /\ RowOf(c, n) = NoId
              /\ InsertRow(p, n, c.docs[n].text,
                           AtStamp(c.docs, c.rows, c.todo \ {n}, c.seen, c.want, n, NoId), next)
    PROVE  LibraryInv'
<1> DEFINE c == skPc[p]
           n == Min(c.todo)
           next == AtDocs(c.docs, c.rows, c.todo \ {n}, c.seen, c.want)
           blank == AtStamp(c.docs, c.rows, c.todo \ {n}, c.seen, c.want, n, NoId)
           stamp == AtStamp(c.docs, c.rows, c.todo \ {n}, c.seen, c.want, n, skIds + 1)
<1>1. /\ n \in c.todo /\ n \in Names /\ c.docs[n].text \in Texts
      /\ c.todo \subseteq DOMAIN c.docs /\ IsTable(c.rows, skIds)
      /\ \A ids \in Nat : skIds <= ids =>
           /\ Knows(next, ids)
           /\ \A k \in Nat : Knows(AtStamp(c.docs, c.rows, c.todo \ {n}, c.seen, c.want, n, k), ids)
  BY AtFile DEF IsDoc
<1>2. skIds \in Nat /\ IsTable(skRows, skIds) /\ IsListing(skFiles)
  BY DEF LibraryInv, LibraryTypes
<1>3. WithId(blank, skIds + 1) = stamp
  BY StampWithId
<1>4. RowOf(c, n) = NoId /\ InsertRow(p, n, c.docs[n].text, blank, next)
  OBVIOUS
<1>5. p \in alone => Undisturbed(c, skRows, skFiles)
  BY DEF LibraryInv, AloneRight
<1>6. c.at = "docs"
  OBVIOUS
<1>7. skPc = [q \in Procs |-> skPc[q]]
  BY DEF LibraryInv, LibraryTypes
<1> HIDE DEF next, blank, n, c
<1>8. /\ skIds' \in Nat /\ skIds <= skIds' /\ IsTable(skRows', skIds') /\ skFiles' = skFiles
      /\ Quietly(p) /\ alone' \subseteq alone /\ AloneAgrees'
      /\ \/ /\ \E r \in DOMAIN skRows : skRows[r].name = n
            /\ skPc' = [skPc EXCEPT ![p] = next]
         \/ /\ skRows' = Put(skRows, skIds + 1, [name |-> n, text |-> c.docs[n].text])
            /\ skPc' = [skPc EXCEPT ![p] = WithId(blank, skIds + 1)]
  BY <1>1, <1>4, InsertIs
<1>9. CASE skPc' = [skPc EXCEPT ![p] = next] /\ \E r \in DOMAIN skRows : skRows[r].name = n
  <2>1. p \notin alone
    <3>1. SUFFICES ASSUME p \in alone PROVE FALSE
      OBVIOUS
    <3>2. PICK r \in DOMAIN skRows : skRows[r].name = n
      BY <1>9
    <3>3. r = RowOf(c, n)
      BY <1>1, <1>5, <1>6, <3>1, <3>2, NameFree
    <3> QED BY <1>2, <1>4, <3>2, <3>3 DEF IsTable, NoId
  <2>2. p \notin alone' /\ Knows(next, skIds') /\ IsListing(skFiles')
    BY <1>1, <1>2, <1>8, <2>1
  <2> QED BY <1>8, <1>9, <2>2, TurnEnds
<1>10. CASE /\ skRows' = Put(skRows, skIds + 1, [name |-> n, text |-> c.docs[n].text])
            /\ skPc' = [skPc EXCEPT ![p] = stamp]
  <2>1. Knows(stamp, skIds') /\ IsListing(skFiles')
    <3>1. skIds + 1 \in Nat /\ skIds' \in Nat /\ skIds <= skIds'
      BY <1>2, <1>8
    <3>2. Knows(stamp, skIds')
      BY <1>1, <3>1
    <3> QED BY <1>2, <1>8, <3>2
  <2>2. ASSUME p \in alone' PROVE Undisturbed(stamp, skRows', skFiles')
    <3>1. Undisturbed(c, skRows, skFiles)
      BY <1>5, <1>8, <2>2
    <3>2. /\ stamp.docs = c.docs /\ stamp.rows = c.rows /\ stamp.todo = c.todo \ {n}
          /\ stamp.at = "stamp" /\ stamp.seen = c.seen /\ stamp.file = n /\ stamp.id = skIds + 1
      BY DEF AtStamp
    <3> HIDE DEF stamp
    <3>3. Undisturbed(stamp, skRows', skFiles)
      BY <1>1, <1>6, <1>10, <3>1, <3>2, Visit
    <3> QED BY <1>8, <3>3
  <2>3. skPc'[p] = stamp /\ skPc' = [skPc EXCEPT ![p] = skPc'[p]]
    BY <1>7, <1>10
  <2> HIDE DEF stamp
  <2> QED BY <1>8, <2>1, <2>2, <2>3, TurnKeeps
<1> QED BY <1>3, <1>8, <1>9, <1>10

\* A file whose row cannot have its name: not in a reconcile that is alone.
LEMMA RefusedKeeps ==
    ASSUME LibraryInv, SkillAssumption, NEW p \in Procs, skPc[p].at = "docs", skPc[p].todo # {},
           LET c == skPc[p]
               n == Min(c.todo)
               r == RowOf(c, n)
           IN /\ r # NoId /\ ~Updatable(r, Patched(c, r, n).name)
              /\ skPc' = [skPc EXCEPT ![p] = AtDocs(c.docs, c.rows, c.todo \ {n}, c.seen \cup {r}, c.want)],
           UNCHANGED <<skRows, skFiles, skIds, alone, settled>>
    PROVE  LibraryInv'
<1> DEFINE c == skPc[p]
           n == Min(c.todo)
           r == RowOf(c, n)
           seen == AtDocs(c.docs, c.rows, c.todo \ {n}, c.seen \cup {r}, c.want)
<1>1. /\ n \in c.todo /\ IsTable(c.rows, skIds) /\ r \in DOMAIN c.rows
      /\ \A ids \in Nat : skIds <= ids =>
           \A s : Knows(AtDocs(c.docs, c.rows, c.todo \ {n}, s, c.want), ids)
  BY AtFile
<1>2. skIds \in Nat
  BY DEF LibraryInv, LibraryTypes
<1>3. Knows(seen, skIds)
  BY <1>1, <1>2, SMTT(30), ZenonT(60), Z3T(60)
<1>4. p \notin alone
  <2>1. SUFFICES ASSUME p \in alone PROVE FALSE
    OBVIOUS
  <2>2. Undisturbed(c, skRows, skFiles) /\ c.at = "docs" /\ c.todo # {}
    BY <2>1 DEF LibraryInv, AloneRight
  <2>3. r \in DOMAIN skRows
    BY <1>1, <2>2 DEF Undisturbed, Indexed
  <2>4. PICK s \in DOMAIN skRows : s # r /\ skRows[s].name = Patched(c, r, n).name
    BY <2>3 DEF Updatable, NameTaken
  <2>5. skRows[s].name = n
    <3>1. IsTable(skRows, skIds)
      BY DEF LibraryInv, LibraryTypes
    <3>2. skRows[s].name # skRows[r].name
      BY <2>3, <2>4, <3>1 DEF IsTable
    <3> QED BY <2>4, <3>2 DEF Patched
  <2> HIDE DEF c, n
  <2>6. s = r
    BY <1>1, <2>2, <2>4, <2>5, NameFree
  <2> QED BY <2>4, <2>6
<1> HIDE DEF seen
<1> QED BY <1>3, <1>4, TurnOnly DEF seen

\* A file with a row: the row follows it, then the file gets its id.
LEMMA FollowKeeps ==
    ASSUME LibraryInv, SkillAssumption, NEW p \in Procs, skPc[p].at = "docs", skPc[p].todo # {},
           LET c == skPc[p]
               n == Min(c.todo)
               r == RowOf(c, n)
               row == Patched(c, r, n)
               differs == c.rows[r] # [name |-> n, text |-> c.docs[n].text]
               stale == c.docs[n].id # r \/ c.rows[r].name # n
           IN /\ r # NoId /\ (differs => Updatable(r, row.name))
              /\ Commit(p, IF differs THEN Put(skRows, r, row) ELSE skRows, skFiles)
              /\ skPc' = [skPc EXCEPT ![p] =
                   IF stale THEN AtStamp(c.docs, c.rows, c.todo \ {n}, c.seen, c.want, n, r)
                   ELSE AtDocs(c.docs, c.rows, c.todo \ {n}, c.seen \cup {r}, c.want)],
           skIds' = skIds
    PROVE  LibraryInv'
<1> DEFINE c == skPc[p]
           n == Min(c.todo)
           r == RowOf(c, n)
           row == Patched(c, r, n)
           differs == c.rows[r] # [name |-> n, text |-> c.docs[n].text]
           stale == c.docs[n].id # r \/ c.rows[r].name # n
           rec == IF stale THEN AtStamp(c.docs, c.rows, c.todo \ {n}, c.seen, c.want, n, r)
                  ELSE AtDocs(c.docs, c.rows, c.todo \ {n}, c.seen \cup {r}, c.want)
           rows == IF differs THEN Put(skRows, r, row) ELSE skRows
<1>1. /\ n \in c.todo /\ n \in Names /\ c.docs[n].text \in Texts
      /\ c.todo \subseteq DOMAIN c.docs /\ IsTable(c.rows, skIds)
      /\ r \in DOMAIN c.rows /\ r \in Nat
      /\ \A ids \in Nat : skIds <= ids =>
           /\ \A s : Knows(AtDocs(c.docs, c.rows, c.todo \ {n}, s, c.want), ids)
           /\ \A k \in Nat : Knows(AtStamp(c.docs, c.rows, c.todo \ {n}, c.seen, c.want, n, k), ids)
  BY AtFile DEF IsDoc
<1>2. skIds \in Nat /\ IsTable(skRows, skIds) /\ IsListing(skFiles)
  BY DEF LibraryInv, LibraryTypes
<1>3. Knows(rec, skIds)
  <2>1. skIds <= skIds
    BY <1>2
  <2>2. /\ \A s : Knows(AtDocs(c.docs, c.rows, c.todo \ {n}, s, c.want), skIds)
        /\ \A k \in Nat : Knows(AtStamp(c.docs, c.rows, c.todo \ {n}, c.seen, c.want, n, k), skIds)
    BY <1>1, <1>2, <2>1
  <2>3. CASE stale
    BY <1>1, <2>2, <2>3
  <2>4. CASE ~stale
    BY <2>2, <2>4
  <2> QED BY <2>3, <2>4
<1>4. /\ Commit(p, rows, skFiles) /\ skPc' = [skPc EXCEPT ![p] = rec]
      /\ differs => Updatable(r, row.name)
  OBVIOUS
<1>5. /\ skRows' = rows /\ skFiles' = skFiles /\ Quietly(p) /\ alone' \subseteq alone /\ AloneAgrees'
  BY <1>4, CommitIs
<1>6. IsTable(skRows', skIds)
  <2>1. CASE differs
    <3>1. /\ r \in DOMAIN skRows /\ r \in 1..skIds
          /\ \A s \in DOMAIN skRows \ {r} : skRows[s].name # row.name
      BY <1>2, <1>4, <2>1 DEF Updatable, NameTaken, IsTable
    <3>2. IsTable(Put(skRows, r, row), skIds)
      <4>1. PICK t \in Texts, m \in Names : row = [name |-> m, text |-> t]
        <5>1. skRows[r].name \in Names
          BY <1>2, <3>1 DEF IsTable, IsRow
        <5>2. (IF c.rows[r].name = n THEN skRows[r].name ELSE n) \in Names
          BY <1>1, <5>1
        <5> HIDE DEF c, n, r
        <5> QED BY <1>1, <5>2 DEF Patched
      <4>2. PICK k \in 1..skIds : k = r
        BY <3>1
      <4>3. \A s \in DOMAIN skRows \ {k} : skRows[s].name # m
        <5>1. row.name = m
          BY <4>1
        <5> QED BY <3>1, <4>2, <5>1
      <4>4. skIds \in Nat /\ skIds <= skIds /\ IsTable(skRows, skIds) /\ m \in Names
        BY <1>2
      <4> HIDE DEF row, n, r
      <4>5. IsTable(Put(skRows, k, [name |-> m, text |-> t]), skIds)
        BY ONLY <4>3, <4>4, PutRow
      <4> QED BY <4>1, <4>2, <4>5
    <3> QED BY <1>5, <2>1, <3>2
  <2>2. CASE ~differs
    BY <1>2, <1>5, <2>2
  <2> QED BY <2>1, <2>2
<1>7. ASSUME p \in alone' PROVE Undisturbed(rec, skRows', skFiles')
  <2>1. Undisturbed(c, skRows, skFiles) /\ c.at = "docs"
    BY <1>5, <1>7 DEF LibraryInv, AloneRight
  <2>2. /\ rec.docs = c.docs /\ rec.rows = c.rows /\ rec.todo = c.todo \ {n}
        /\ \/ rec.at = "stamp" /\ rec.seen = c.seen /\ rec.file = n /\ rec.id = r
           \/ rec.at = "docs" /\ rec.seen = c.seen \cup {r} /\ c.docs[n].id = r
    BY DEF AtDocs, AtStamp
  <2>3. \/ skRows' = Put(skRows, r, [name |-> n, text |-> c.docs[n].text])
        \/ skRows' = skRows /\ r \in DOMAIN c.rows /\ Says(c.rows, r, n, c)
        \/ /\ r \in DOMAIN skRows /\ r \in DOMAIN c.rows /\ skRows[r] # c.rows[r]
           /\ skRows' = Put(skRows, r, [name |-> skRows[r].name, text |-> c.docs[n].text])
    <3>1. CASE ~differs
      BY <1>1, <1>5, <3>1 DEF Says
    <3>2. CASE differs
      <4>1. r \in DOMAIN skRows /\ skRows' = Put(skRows, r, Patched(c, r, n))
        BY <1>4, <1>5, <3>2 DEF Updatable
      <4> HIDE DEF c, n, r
      <4> QED BY <1>1, <4>1 DEF Patched
    <3> QED BY <3>1, <3>2
  <2> HIDE DEF rec, c, n, r
  <2>4. Undisturbed(rec, skRows', skFiles)
    BY <1>1, <2>1, <2>2, <2>3, Visit
  <2> QED BY <1>5, <2>4
<1>8. skPc'[p] = rec /\ skPc' = [skPc EXCEPT ![p] = skPc'[p]]
  BY <1>4 DEF LibraryInv, LibraryTypes
<1>9. skIds <= skIds' /\ skIds' \in Nat /\ IsTable(skRows', skIds') /\ IsListing(skFiles')
  <2>1. skIds' = skIds /\ skFiles' = skFiles
    BY <1>5
  <2> QED BY <1>2, <1>6, <2>1
<1> HIDE DEF rec
<1> QED BY <1>3, <1>5, <1>7, <1>8, <1>9, TurnKeeps

LEMMA ReconcileKeeps ==
    ASSUME LibraryInv, SkillAssumption, NEW p \in Procs, Reconcile(p)
    PROVE  LibraryInv'
<1> DEFINE c == skPc[p]
           n == Min(c.todo)
           d == c.docs[n]
           r == RowOf(c, n)
           rest == c.todo \ {n}
           next == AtDocs(c.docs, c.rows, rest, c.seen, c.want)
           seen == AtDocs(c.docs, c.rows, rest, c.seen \cup {r}, c.want)
           differs == c.rows[r] # [name |-> n, text |-> d.text]
           stale == d.id # r \/ c.rows[r].name # n
<1>1. c.at = "docs" /\ c.todo # {}
  BY DEF Reconcile
<1>2. [c EXCEPT !.todo = @ \ {n}] = next /\ [next EXCEPT !.seen = @ \cup {r}] = seen
  <2>1. [c EXCEPT !.todo = @ \ {n}] = next
    BY <1>1, AtFile
  <2>2. [next EXCEPT !.seen = @ \cup {r}] = seen
    <3> HIDE DEF c, n, r, rest
    <3> QED BY DEF AtDocs
  <2> QED BY <2>1, <2>2
<1>3. \/ /\ r = NoId
         /\ InsertRow(p, n, d.text, AtStamp(c.docs, c.rows, rest, c.seen, c.want, n, NoId), next)
      \/ /\ r # NoId /\ differs /\ ~Updatable(r, Patched(c, r, n).name)
         /\ skPc' = [skPc EXCEPT ![p] = seen] /\ UNCHANGED <<skRows, skFiles, skIds, alone, settled>>
      \/ /\ r # NoId /\ (differs => Updatable(r, Patched(c, r, n).name))
         /\ Commit(p, IF differs THEN Put(skRows, r, Patched(c, r, n)) ELSE skRows, skFiles)
         /\ skPc' = [skPc EXCEPT ![p] =
              IF stale THEN AtStamp(c.docs, c.rows, rest, c.seen, c.want, n, r) ELSE seen]
         /\ skIds' = skIds
  BY <1>2 DEF Reconcile, Goto, AtStamp
<1> QED BY <1>1, <1>3, AdoptKeeps, RefusedKeeps, FollowKeeps

LEMMA StampKeeps ==
    ASSUME LibraryInv, SkillAssumption, NEW p \in Procs, Stamp(p)
    PROVE  LibraryInv'
<1> DEFINE c == skPc[p]
           rec == AtDocs(c.docs, c.rows, c.todo, c.seen \cup {c.id}, c.want)
           doc == SkillFile(c.id, c.docs[c.file].text)
<1>1. /\ c.at = "stamp" /\ skIds' = skIds /\ Commit(p, skRows, Put(skFiles, c.file, doc))
      /\ skPc' = [skPc EXCEPT ![p] = rec]
  BY DEF Stamp, Goto, AtDocs
<1>2. /\ skIds \in Nat /\ IsTable(skRows, skIds) /\ IsListing(skFiles)
      /\ c.file \in Names /\ c.id \in Nat /\ c.file \in DOMAIN c.docs
      /\ IsListing(c.docs) /\ IsTable(c.rows, skIds) /\ c.todo \subseteq DOMAIN c.docs
      /\ c.want \in {"list", "update", "delete"}
  BY <1>1 DEF LibraryInv, LibraryTypes, Knows, DocsKnows
<1>3. /\ skRows' = skRows /\ skFiles' = Put(skFiles, c.file, doc)
      /\ Quietly(p) /\ alone' \subseteq alone /\ AloneAgrees'
  BY <1>1, CommitIs
<1>4. IsListing(skFiles')
  <2>1. c.docs[c.file].text \in Texts
    BY <1>2 DEF IsListing, IsDoc
  <2> QED BY <1>2, <1>3, <2>1, PutDoc
<1>5. Knows(rec, skIds)
  BY <1>2, DocsKnown
<1>6. ASSUME p \in alone' PROVE Undisturbed(rec, skRows', skFiles')
  <2>1. Undisturbed(c, skRows, skFiles)
    BY <1>3, <1>6 DEF LibraryInv, AloneRight
  <2>2. /\ rec.at = "docs" /\ rec.docs = c.docs /\ rec.rows = c.rows
        /\ rec.todo = c.todo /\ rec.seen = c.seen \cup {c.id}
    BY DEF AtDocs
  <2> HIDE DEF rec, c
  <2> QED BY <1>1, <1>2, <1>3, <2>1, <2>2, Stamped
<1>7. skPc'[p] = rec /\ skPc' = [skPc EXCEPT ![p] = skPc'[p]]
  BY <1>1 DEF LibraryInv, LibraryTypes
<1>8. skIds <= skIds' /\ skIds' \in Nat /\ IsTable(skRows', skIds')
  BY <1>1, <1>2, <1>3
<1> HIDE DEF rec
<1> QED BY <1>1, <1>3, <1>4, <1>5, <1>6, <1>7, <1>8, TurnKeeps

LEMMA PruneKeeps ==
    ASSUME LibraryInv, SkillAssumption, NEW p \in Procs, Prune(p)
    PROVE  LibraryInv'
<1> DEFINE c == skPc[p]
           gone == (DOMAIN c.rows \ c.seen) \cap DOMAIN skRows
<1>1. /\ c.at = "docs" /\ c.todo = {} /\ skIds' = skIds
      /\ skIds \in Nat /\ IsTable(skRows, skIds) /\ IsListing(skFiles) /\ Knows(c, skIds)
      /\ p \in alone => Undisturbed(c, skRows, skFiles)
      /\ skPc = [q \in Procs |-> skPc[q]]
  BY DEF Prune, LibraryInv, LibraryTypes, AloneRight
<1>2. CASE gone # {}
  <2>1. PICK r \in gone : Commit(p, Drop(skRows, {r}), skFiles) /\ skPc' = skPc
    BY <1>2 DEF Prune
  <2>2. /\ skRows' = Drop(skRows, {r}) /\ skFiles' = skFiles /\ Quietly(p)
        /\ alone' \subseteq alone /\ AloneAgrees'
    BY <2>1, CommitIs
  <2>3. IsTable(skRows', skIds')
    BY <1>1, <2>2, DropSome
  <2>4. ASSUME p \in alone' PROVE Undisturbed(c, skRows', skFiles')
    BY <1>1, <2>1, <2>2, <2>4, Pruned
  <2>5. skPc'[p] = c /\ skPc' = [skPc EXCEPT ![p] = skPc'[p]]
    BY <1>1, <2>1
  <2>6. skIds <= skIds' /\ skIds' \in Nat /\ IsListing(skFiles')
    BY <1>1, <2>2
  <2> QED BY <1>1, <2>2, <2>3, <2>4, <2>5, <2>6, TurnKeeps
<1>3. CASE gone = {}
  <2> DEFINE rec == [at |-> "after", want |-> c.want]
  <2>1. /\ skPc' = [skPc EXCEPT ![p] = rec] /\ settled' = (p \in alone)
        /\ UNCHANGED <<skRows, skFiles, alone>>
    BY <1>3 DEF Prune, Goto
  <2>2. Knows(rec, skIds')
    BY <1>1 DEF Knows, MirrorKnows, RowsKnows, DocsKnows, NameKnows
  <2>3. p \in alone' => Undisturbed(rec, skRows', skFiles')
    BY DEF Undisturbed
  <2>4. AloneAgrees'
    <3>1. SUFFICES ASSUME p \in alone, ~Duplicated
                   PROVE  /\ EachHasItsRow
                          /\ \A n \in DOMAIN skFiles : LET told == skRows[skFiles[n].id].text IN
                               ReadDoc(skFiles[n]).text \in {told, Kept[told]}
      BY <2>1 DEF AloneAgrees, Duplicated, EachHasItsRow, ReadDoc
    <3>2. \A m, l \in DOMAIN skFiles : m # l => skFiles[m].id # skFiles[l].id \/ skFiles[m].id = NoId
      BY <3>1 DEF Duplicated
    <3>3. NoId \notin DOMAIN skRows
      BY <1>1 DEF IsTable, NoId
    <3> HIDE DEF c
    <3>4. /\ \A n \in DOMAIN skFiles :
               /\ skFiles[n].id \in DOMAIN skRows /\ skRows[skFiles[n].id].name = n
               /\ Kept[skFiles[n].text] \in {skRows[skFiles[n].id].text, Kept[skRows[skFiles[n].id].text]}
          /\ \A r \in DOMAIN skRows : skRows[r].name \in DOMAIN skFiles
      BY <1>1, <1>3, <3>1, <3>2, <3>3, Agreed
    <3> QED BY <3>4 DEF EachHasItsRow, ReadDoc
  <2>5. skPc'[p] = rec /\ skPc' = [skPc EXCEPT ![p] = skPc'[p]] /\ Quietly(p)
    BY <1>1, <2>1 DEF Quietly
  <2>6. skIds <= skIds' /\ skIds' \in Nat /\ IsListing(skFiles') /\ IsTable(skRows', skIds')
    BY <1>1, <2>1
  <2> HIDE DEF rec
  <2> QED BY <2>2, <2>3, <2>4, <2>5, <2>6, TurnKeeps
<1> QED BY <1>2, <1>3

LEMMA AfterKeeps ==
    ASSUME LibraryInv, NEW p \in Procs, NEW n \in Names, After(p, n)
    PROVE  LibraryInv'
<1> DEFINE c == skPc[p]
           hit == {r \in DOMAIN skRows : c.want # "list" /\ skRows[r].name = n}
           rec == CASE hit # {} -> [at |-> c.want, id |-> CHOOSE r \in hit : TRUE, from |-> n]
                    [] hit = {} /\ c.want = "update" -> [at |-> "create", name |-> n]
                    [] OTHER -> Idle
<1>1. /\ alone' = alone \ {p} /\ UNCHANGED <<skRows, skFiles, settled, skIds>>
      /\ skPc' = [skPc EXCEPT ![p] = rec] /\ c.at = "after"
  BY DEF After, Goto
<1>2. c.want \in {"list", "update", "delete"}
  BY <1>1 DEF LibraryInv, LibraryTypes, Knows, NameKnows
<1>3. Knows(rec, skIds)
  <2>1. CASE hit # {}
    <3>1. c.want \in {"update", "delete"}
      BY <1>2, <2>1
    <3>2. rec = [at |-> c.want, id |-> CHOOSE r \in hit : TRUE, from |-> n]
      BY <2>1
    <3>3. rec.at = c.want
      BY <3>2
    <3> HIDE DEF rec, hit, c
    <3> QED BY <3>1, <3>3, NothingKnown
  <2>2. CASE hit = {} /\ c.want = "update"
    <3>1. rec = [at |-> "create", name |-> n]
      BY <2>2
    <3> HIDE DEF rec
    <3> QED BY <3>1 DEF Knows, MirrorKnows, RowsKnows, DocsKnows, NameKnows
  <2>3. CASE hit = {} /\ c.want # "update"
    <3>1. rec = Idle
      BY <2>3
    <3> HIDE DEF rec
    <3> QED BY <3>1, NothingKnown DEF Idle
  <2> QED BY <2>1, <2>2, <2>3
<1> HIDE DEF rec
<1> QED BY <1>1, <1>3, TurnOnly

-----------------------------------------------------------------------------
LEMMA LibraryStarts ==
    ASSUME Init
    PROVE  LibraryInv
<1>1. DOMAIN Empty = {}
  BY DEF Empty
<1>2. IsTable(skRows, skIds) /\ IsListing(skFiles)
  BY <1>1 DEF Init, IsTable, IsListing
<1>3. \A p \in Procs : Knows(skPc[p], skIds)
  BY NothingKnown DEF Init, Idle
<1>4. LibraryTypes /\ AloneRight
  BY <1>2, <1>3 DEF Init, LibraryTypes, AloneRight
<1> QED BY <1>4 DEF LibraryInv, AloneAgrees, Init

LEMMA LibraryGoesOn ==
    ASSUME LibraryInv, SkillAssumption, [Next]_vars
    PROVE  LibraryInv'
<1>1. ASSUME NEW p \in Procs, Step(p) PROVE LibraryInv'
  BY <1>1, DeleteSkillKeeps, MirrorKeeps, SweepKeeps, UnlinkKeeps, HostKeeps, ListRowsKeeps,
     ReconcileKeeps, StampKeeps, PruneKeeps, AfterKeeps, UpdateSkillKeeps, CreateAfterKeeps DEF Step
<1>2. ASSUME NEW p \in Procs,
             \/ \E n \in Names, t \in Bodies : CreateSkill(p, n, t)
             \/ \E op \in {"update", "raw", "delete"}, id \in IdSet : Begin(p, op, id)
             \/ \E want \in {"list", "update", "delete"} : ListFiles(p, want)
      PROVE  LibraryInv'
  BY <1>2, CreateSkillKeeps, BeginKeeps, ListFilesKeeps
<1>3. ASSUME NEW p \in Procs, NEW h \in Hosts,
             \/ \E S \in SUBSET Names : StageHost(p, h, S)
             \/ \E n \in Names : ImportHostSkill(p, h, n)
      PROVE  LibraryInv'
  BY <1>3, HostKeeps, ImportHostSkillKeeps
<1>4. CASE UNCHANGED vars
  <2>1. LibraryTypes' /\ AloneRight'
    BY <1>4 DEF vars, LibraryInv, LibraryTypes, AloneRight
  <2>2. AloneAgrees'
    BY <1>4, StillAgree DEF vars
  <2> QED BY <2>1, <2>2 DEF LibraryInv
<1>5. CASE Next
  BY <1>1, <1>2, <1>3, <1>5, OutsideKeeps DEF Next
<1> QED BY <1>4, <1>5

\* A reconcile that nobody disturbs leaves the index equal to the files,
\* whatever requests, editors and restarts left behind (reconcileSkills).
THEOREM AloneAgreesHolds == Spec => []AloneAgrees
<1>1. Init => LibraryInv
  BY LibraryStarts
<1>2. LibraryInv /\ [Next]_vars => LibraryInv'
  BY LibraryGoesOn, SkillAssumption
<1>3. LibraryInv => AloneAgrees
  BY DEF LibraryInv
<1> QED BY <1>1, <1>2, <1>3, PTL DEF Spec

-----------------------------------------------------------------------------
(* The profile library.                                                    *)

\* What rows, files and documents are.
IsProfile(r) == r = [name |-> r.name, text |-> r.text, def |-> r.def] /\ r.name \in PNames /\ r.def \in BOOLEAN
IsPrompt(d, ids) == d = Doc(d.id, d) /\ d.id \in 0..ids /\ d.name \in PNames /\ d.def \in BOOLEAN
IsIndex(rows, ids) == /\ DOMAIN rows \subseteq 1..ids
                      /\ \A r \in DOMAIN rows : IsProfile(rows[r])
                      /\ \A r, s \in DOMAIN rows : rows[r].name = rows[s].name => r = s
ArePrompts(files, ids) == \A f \in DOMAIN files : /\ IsPrompt(files[f], ids)
                                                  /\ Slug[files[f].name] = f /\ f # None
AreUpdates(resync, ids) == DOMAIN resync \subseteq 1..ids /\ \A x \in DOMAIN resync : IsProfile(resync[x])

\* What a request knows outside WritePrompt, and within.
LoopKnows(c, ids) ==
    c.at = "docs" => /\ c = Visiting(c.docs, c.rows, c.todo, c.seen, c.resync)
                     /\ ArePrompts(c.docs, ids) /\ IsIndex(c.rows, ids)
                     /\ c.todo \subseteq DOMAIN c.docs /\ AreUpdates(c.resync, ids)
GoesOn(c, ids) ==
    /\ c.at \notin {"write", "rename"}
    /\ c.at = "create" => c.def \in BOOLEAN
    /\ c.at = "rows" => c = [at |-> "rows", docs |-> c.docs] /\ ArePrompts(c.docs, ids)
    /\ LoopKnows(c, ids)
    /\ c.at = "sync" => c = Syncing(c.resync, c.unflagged) /\ AreUpdates(c.resync, ids)
Remembers(c, ids) ==
    IF c.at \in {"write", "rename"}
      THEN /\ \A d \in c.jobs : IsPrompt(d, ids)
           /\ GoesOn(c.then, ids)
           /\ c.at = "write" => c = [at |-> "write", jobs |-> c.jobs, then |-> c.then] /\ c.jobs # {}
           /\ c.at = "rename" => /\ c = [at |-> "rename", jobs |-> c.jobs, then |-> c.then, doc |-> c.doc]
                                 /\ c.doc \in c.jobs /\ Slug[c.doc.name] # None
      ELSE GoesOn(c, ids)

ProfileTypes ==
    /\ prIds \in Nat /\ IsIndex(prRows, prIds) /\ ArePrompts(prFiles, prIds)
    /\ prPc = [p \in PProcs |-> prPc[p]] /\ \A p \in PProcs : Remembers(prPc[p], prIds)
    /\ prAlone \subseteq PProcs

\* The loop over the files, of a reconcile that nobody disturbs, given the rows
\* R and the files F there are.
SameFiles(c, F) == DOMAIN F = DOMAIN c.docs /\ \A f \in DOMAIN F : c.docs[f] = ReadPrompt(F[f])
Apart(docs, R) ==
    \A f \in DOMAIN docs, r \in DOMAIN R :
      R[r].name = docs[f].name =>
        \/ r = docs[f].id
        \/ docs[f].id \notin DOMAIN R /\ \A g \in DOMAIN docs : docs[g].id # r
Visited(c) == DOMAIN c.docs \ c.todo
Tells(row, d) == row.name = d.name /\ row.text = d.text
\* r is the row that file f may have.
MayHave(c, f, r) ==
    IF c.docs[f].id \in DOMAIN c.rows THEN r = c.docs[f].id
    ELSE r \in DOMAIN c.rows => c.rows[r].name = c.docs[f].name
Followed(c, R) ==
    /\ \A f \in Visited(c) :
         \/ \E r \in DOMAIN R \cap c.seen : Tells(R[r], c.docs[f]) /\ MayHave(c, f, r)
         \/ /\ c.docs[f].id \in DOMAIN c.rows
            /\ \E g \in Visited(c) \ {f} : c.docs[g].id = c.docs[f].id
    /\ \A r \in DOMAIN R :
         \/ r \in DOMAIN c.rows /\ Tells(R[r], c.rows[r])
         \/ \E f \in Visited(c) : R[r].name = c.docs[f].name /\ MayHave(c, f, r)
    /\ \A r \in c.seen : r \in DOMAIN R /\ \E f \in Visited(c) : R[r].name = c.docs[f].name
    /\ \A r \in DOMAIN R \ DOMAIN c.rows : r \in c.seen /\ \A f \in DOMAIN c.docs : c.docs[f].id # r
    /\ c.todo # {} => DOMAIN c.rows \subseteq DOMAIN R
Updated(c, R) ==
    \A x \in DOMAIN c.resync :
      /\ x \in DOMAIN R \cap c.seen /\ Tells(R[x], c.resync[x])
      /\ \E f \in Visited(c) : /\ c.docs[f].name = R[x].name
                               /\ c.docs[f].id = x \/ \A g \in DOMAIN c.docs : c.docs[g].id # x
InLoop(c, R, F) == SameFiles(c, F) /\ Apart(c.docs, c.rows) /\ Followed(c, R) /\ Updated(c, R)

\* The files are rewritten: J is still to write, W is written next, where the
\* old file was.
Agrees(R, F, f) == \E r \in DOMAIN R : /\ R[r].name = F[f].name
                                       /\ PKept[F[f].text] \in {R[r].text, PKept[R[r].text]}
Twin(F, W, f) == /\ F[f].id # None
                 /\ \/ \E g \in DOMAIN F \ {f} : F[g].id = F[f].id
                    \/ \E d \in W : d.id = F[f].id
Flagged(F) == {f \in DOMAIN F : F[f].def}
FlagKept(J, R, F) ==
    Flagged(F) # {} => LET id == F[FirstOf(F, Flagged(F))].id
                       IN  (id \in DOMAIN R => R[id].def) /\ \A d \in J : d.id # id
Rewriting(J, W, u, R, F) ==
    /\ W \subseteq J
    /\ \A f \in DOMAIN F : Agrees(R, F, f) \/ Twin(F, W, f)
    /\ \A r \in DOMAIN R : \/ \E f \in DOMAIN F : F[f].name = R[r].name
                           \/ \E d \in W : d.name = R[r].name
    /\ \A f \in DOMAIN F, r \in DOMAIN R :
         R[r].name = F[f].name => r = F[f].id \/ F[f].id \notin DOMAIN R
    /\ \A d \in J : /\ d.id \in DOMAIN R /\ Tells(R[d.id], d) /\ ~d.def
                    /\ Slug[d.name] \in DOMAIN F =>
                         F[Slug[d.name]].id = d.id /\ F[Slug[d.name]].name = d.name
    /\ \A d, e \in J : Slug[d.name] = Slug[e.name] => d.id = e.id
    /\ u \/ FlagKept(J, R, F)
JobsOf(resync, F) == {Doc(x, resync[x]) : x \in {y \in DOMAIN resync :
                        ~resync[y].def /\ \E f \in DOMAIN F : F[f].id = y}}

Unhindered(c, R, F) ==
    /\ c.at \in {"rows", "docs", "write", "rename", "sync", "end"}
    /\ c.at = "rows" => SameFiles(c, F) /\ Apart(c.docs, R)
    /\ c.at = "docs" => InLoop(c, R, F)
    /\ c.at = "write" /\ c.then.at = "docs" =>
         /\ InLoop(c.then, R, F)
         /\ \A d \in c.jobs : Slug[d.name] \in DOMAIN F /\ \A f \in DOMAIN F : F[f].id # d.id
    /\ c.at = "write" /\ c.then.at # "docs" =>
         c.then.at = "end" /\ Rewriting(c.jobs, {}, c.then.unflagged, R, F)
    /\ c.at = "rename" => c.then.at = "end" /\ Rewriting(c.jobs, {c.doc}, c.then.unflagged, R, F)
    /\ c.at = "sync" => Rewriting(JobsOf(c.resync, F), {}, c.unflagged, R, F)
    /\ c.at = "end" => Rewriting({}, {}, c.unflagged, R, F)
UnhinderedRight == \A p \in prAlone : Unhindered(prPc[p], prRows, prFiles)

ProfileInv == ProfileTypes /\ UnhinderedRight /\ ProfilesAgree

-----------------------------------------------------------------------------
(* Rows, files and documents.                                               *)

\* There is a first file: the least name among those flagged, or else of all.
LEMMA FirstBefore ==
    ASSUME ProfileAssumption, NEW docs, NEW S, S # {},
           \A f \in S : docs[f].name \in PNames /\ docs[f].def \in BOOLEAN
    PROVE  \E f \in S : \A g \in S \ {f} :
             \/ docs[f].def /\ ~docs[g].def
             \/ docs[f].def = docs[g].def /\ docs[f].name <= docs[g].name
<1> DEFINE Less == {q \in Nat \X Nat : q[1] < q[2]}
           least(T) == \E f \in T : \A g \in T : docs[f].name <= docs[g].name
<1>1. \A f \in S : docs[f].name \in Nat
  BY DEF ProfileAssumption
<1>2. ASSUME NEW T \in SUBSET S, T # {} PROVE least(T)
  <2> DEFINE N == {docs[f].name : f \in T}
  <2>1. IsWellFoundedOn(Less, Nat)
    BY NatLessThanWellFounded DEF OpToRel
  <2>2. N \subseteq Nat /\ N # {}
    BY <1>1, <1>2
  <2>3. PICK x \in N : \A y \in N : ~ (<<y, x>> \in Less)
    BY <2>1, <2>2, WFMin
  <2>4. ASSUME NEW y \in N PROVE x <= y
    <3>1. <<y, x>> \in Nat \X Nat
      BY <2>2
    <3>2. ~ (y < x)
      BY <2>3, <3>1
    <3> QED BY <2>2, <3>2, SMTT(30), ZenonT(60), Z3T(60)
  <2>5. PICK f \in T : docs[f].name = x
    BY <2>3
  <2> QED BY <2>4, <2>5
<1> HIDE DEF least
<1> DEFINE F == {f \in S : docs[f].def}
           before(f, g) == \/ docs[f].def /\ ~docs[g].def
                           \/ docs[f].def = docs[g].def /\ docs[f].name <= docs[g].name
<1>3. \E f \in S : \A g \in S \ {f} : before(f, g)
  <2>1. CASE F # {}
    <3>1. least(F)
      BY <1>2, <2>1
    <3> QED BY <3>1 DEF least
  <2>2. CASE F = {}
    <3>1. PICK f \in S : \A g \in S : docs[f].name <= docs[g].name
      BY <1>2 DEF least
    <3>2. \A g \in S : docs[f].def = docs[g].def
      BY <2>2
    <3> QED BY <3>1, <3>2
  <2> QED BY <2>1, <2>2
<1> QED BY <1>3

LEMMA FirstIs ==
    ASSUME ProfileAssumption, NEW docs, NEW S, S # {},
           \A f \in S : docs[f].name \in PNames /\ docs[f].def \in BOOLEAN
    PROVE  FirstOf(docs, S) \in S
BY FirstBefore DEF FirstOf

\* The first of the flagged files stays the first when others lose the flag.
LEMMA FirstStays ==
    ASSUME ProfileAssumption, NEW F, NEW ids, ArePrompts(F, ids), NEW G,
           NEW S, S \subseteq Flagged(F), NEW T, T \subseteq S, FirstOf(F, S) \in T,
           \A f \in T : G[f].name = F[f].name /\ G[f].def = F[f].def
    PROVE  FirstOf(G, T) = FirstOf(F, S)
<1> DEFINE w == FirstOf(F, S)
<1>1. \A f \in S : F[f].def /\ F[f].name \in Nat /\ Slug[F[f].name] = f
  BY DEF Flagged, ArePrompts, IsPrompt, ProfileAssumption
<1>2. w \in S /\ \A g \in S \ {w} : F[w].name <= F[g].name
  <2>1. \E f \in S : \A g \in S \ {f} :
          \/ F[f].def /\ ~F[g].def
          \/ F[f].def = F[g].def /\ F[f].name <= F[g].name
    <3>1. FirstOf(F, S) \in S
      OBVIOUS
    <3>2. \A f \in S : F[f].name \in PNames /\ F[f].def \in BOOLEAN
      BY DEF Flagged, ArePrompts, IsPrompt
    <3> QED BY <3>1, <3>2, FirstBefore
  <2>2. \A g \in S \ {w} : \/ F[w].def /\ ~F[g].def
                           \/ F[w].def = F[g].def /\ F[w].name <= F[g].name
    BY <2>1 DEF FirstOf
  <2> QED BY <1>1, <2>2
<1> HIDE DEF w
<1> DEFINE first(f) == \A g \in T \ {f} :
                         \/ G[f].def /\ ~G[g].def
                         \/ G[f].def = G[g].def /\ G[f].name <= G[g].name
<1>3. w \in T /\ first(w)
  BY <1>1, <1>2 DEF w
<1>4. ASSUME NEW v \in T, first(v) PROVE v = w
  <2>1. SUFFICES ASSUME v # w PROVE FALSE
    OBVIOUS
  <2>2. G[v].name <= G[w].name /\ F[w].name <= F[v].name
    BY <1>1, <1>2, <1>3, <1>4, <2>1
  <2>3. F[v].name = F[w].name
    BY <1>1, <1>2, <1>3, <2>2
  <2> QED BY <1>1, <1>2, <2>1, <2>3
<1> HIDE DEF first
<1>5. FirstOf(G, T) = CHOOSE f \in T : first(f)
  BY DEF FirstOf, first
<1> QED BY <1>3, <1>4, <1>5 DEF w

LEMMA WithRow ==
    ASSUME NEW ids \in Nat, NEW more \in Nat, ids <= more, NEW R, IsIndex(R, ids),
           NEW k \in 1..more, NEW row, IsProfile(row), \A r \in DOMAIN R \ {k} : R[r].name # row.name
    PROVE  IsIndex(With(R, k, row), more)
<1> DEFINE Q == With(R, k, row)
<1>1. /\ DOMAIN Q = DOMAIN R \cup {k} /\ Q[k] = row /\ \A r \in DOMAIN R \ {k} : Q[r] = R[r]
  BY DEF With
<1> HIDE DEF Q
<1>2. DOMAIN Q \subseteq 1..more
  BY <1>1 DEF IsIndex
<1>3. \A r \in DOMAIN Q : IsProfile(Q[r])
  BY <1>1 DEF IsIndex
<1>4. \A r, s \in DOMAIN Q : Q[r].name = Q[s].name => r = s
  BY <1>1 DEF IsIndex
<1> QED BY <1>2, <1>3, <1>4 DEF IsIndex, Q

LEMMA WithFile ==
    ASSUME NEW ids, NEW F, ArePrompts(F, ids), NEW d, IsPrompt(d, ids), Slug[d.name] # None
    PROVE  ArePrompts(With(F, Slug[d.name], d), ids)
BY DEF With, ArePrompts

LEMMA WithoutSome ==
    ASSUME NEW S, NEW R, NEW ids
    PROVE  /\ IsIndex(R, ids) => IsIndex(Without(R, S), ids)
           /\ ArePrompts(R, ids) => ArePrompts(Without(R, S), ids)
<1> DEFINE Q == Without(R, S)
<1>1. DOMAIN Q = DOMAIN R \ S /\ \A r \in DOMAIN Q : Q[r] = R[r]
  BY DEF Without
<1> HIDE DEF Q
<1>2. IsIndex(R, ids) => IsIndex(Q, ids)
  BY <1>1 DEF IsIndex
<1>3. ArePrompts(R, ids) => ArePrompts(Q, ids)
  BY <1>1 DEF ArePrompts
<1> QED BY <1>2, <1>3 DEF Q

\* The default flag is all that SetDefaultProfile changes.
LEMMA DefaultIs ==
    ASSUME NEW R, NEW k
    PROVE  /\ DOMAIN WithDefault(R, k) = DOMAIN R
           /\ \A r \in DOMAIN R : /\ WithDefault(R, k)[r].name = R[r].name
                                  /\ WithDefault(R, k)[r].text = R[r].text
                                  /\ WithDefault(R, k)[r].def = (r = k)
           /\ \A ids : IsIndex(R, ids) => IsIndex(WithDefault(R, k), ids)
<1> DEFINE Q == WithDefault(R, k)
<1>1. DOMAIN Q = DOMAIN R
      /\ \A r \in DOMAIN R : Q[r] = [name |-> R[r].name, text |-> R[r].text, def |-> (r = k)]
  BY DEF WithDefault
<1> HIDE DEF Q
<1>2. \A r \in DOMAIN R : Q[r].name = R[r].name /\ Q[r].text = R[r].text /\ Q[r].def = (r = k)
  BY <1>1
<1>3. ASSUME NEW ids, IsIndex(R, ids) PROVE IsIndex(Q, ids)
  <2>1. ASSUME NEW r \in DOMAIN R PROVE IsProfile(Q[r])
    <3>1. PICK b \in BOOLEAN : Q[r] = [name |-> R[r].name, text |-> R[r].text, def |-> b]
      BY <1>1
    <3> QED BY <1>3, <3>1 DEF IsProfile, IsIndex
  <2> QED BY <1>1, <1>2, <1>3, <2>1 DEF IsIndex
<1> QED BY <1>1, <1>2, <1>3 DEF Q

LEMMA MorePrompts ==
    ASSUME NEW i \in Nat, NEW j \in Nat, i <= j
    PROVE  /\ \A d : IsPrompt(d, i) => IsPrompt(d, j)
           /\ \A F : ArePrompts(F, i) => ArePrompts(F, j)
           /\ \A R : IsIndex(R, i) => IsIndex(R, j)
           /\ \A u : AreUpdates(u, i) => AreUpdates(u, j)
<1>1. 0..i \subseteq 0..j /\ 1..i \subseteq 1..j
  OBVIOUS
<1>2. \A d : IsPrompt(d, i) => IsPrompt(d, j)
  BY <1>1 DEF IsPrompt
<1>3. \A F : ArePrompts(F, i) => ArePrompts(F, j)
  BY <1>2 DEF ArePrompts
<1> QED BY <1>1, <1>2, <1>3 DEF IsIndex, AreUpdates

LEMMA DocOfRow ==
    ASSUME NEW ids \in Nat, NEW i \in 0..ids, NEW row, row.name \in PNames, row.def \in BOOLEAN
    PROVE  /\ IsPrompt(Doc(i, row), ids)
           /\ Doc(i, row).id = i /\ Doc(i, row).name = row.name /\ Doc(i, row).text = row.text
           /\ Doc(i, row).def = row.def
BY DEF IsPrompt, Doc

LEMMA ReadIs ==
    ASSUME NEW d, NEW ids, IsPrompt(d, ids)
    PROVE  /\ IsPrompt(ReadPrompt(d), ids) /\ ReadPrompt(d).id = d.id /\ ReadPrompt(d).name = d.name
           /\ ReadPrompt(d).text = PKept[d.text] /\ ReadPrompt(d).def = d.def
BY DEF IsPrompt, ReadPrompt, Doc

-----------------------------------------------------------------------------
(* The steps of a request.                                                  *)

LEMMA MoreRemembered ==
    ASSUME NEW i \in Nat, NEW j \in Nat, i <= j, NEW c, Remembers(c, i)
    PROVE  Remembers(c, j)
<1>1. \A e : GoesOn(e, i) => GoesOn(e, j)
  BY MorePrompts DEF GoesOn, LoopKnows
<1> QED BY <1>1, MorePrompts DEF Remembers

\* As long as rows and files stay, so does their agreement.
LEMMA PStillAgree ==
    ASSUME ProfilesAgree, prRows' = prRows, prFiles' = prFiles,
           prSettled' = prSettled \/ prSettled' = "no"
    PROVE  ProfilesAgree'
<1>1. FlagFollowed => FlagFollowed'
  BY DEF FlagFollowed
<1> QED BY <1>1 DEF ProfilesAgree, ReadPrompt

\* A step of p: from what it does to rows and files and where it leaves p,
\* that the invariant goes on.
LEMMA ProfileTurn ==
    ASSUME ProfileInv, NEW p \in PProcs, NEW rec, prPc' = [prPc EXCEPT ![p] = rec],
           NEW rows, NEW files,
           Save(p, rows, files),
           prIds' \in Nat, prIds <= prIds', Remembers(rec, prIds'),
           IsIndex(rows, prIds'), ArePrompts(files, prIds'),
           p \in prAlone => Unhindered(rec, rows, files)
    PROVE  ProfileInv'
<1>1. /\ prIds \in Nat /\ prPc = [q \in PProcs |-> prPc[q]] /\ prAlone \subseteq PProcs
      /\ \A q \in PProcs : Remembers(prPc[q], prIds)
      /\ \A q \in prAlone : Unhindered(prPc[q], prRows, prFiles)
      /\ ProfilesAgree
  BY DEF ProfileInv, ProfileTypes, UnhinderedRight
<1>2. /\ prRows' = rows /\ prFiles' = files /\ prAlone' \subseteq prAlone
      /\ \/ rows = prRows /\ files = prFiles /\ prSettled' = prSettled
         \/ prAlone' \subseteq {p} /\ prSettled' = "no"
  BY DEF Save
<1>3. prPc' = [q \in PProcs |-> prPc'[q]] /\ prPc'[p] = rec
      /\ \A q \in PProcs : q # p => prPc'[q] = prPc[q]
  BY <1>1
<1>4. \A q \in PProcs : Remembers(prPc'[q], prIds')
  BY <1>1, <1>3, MoreRemembered
<1>5. ASSUME NEW q \in prAlone' PROVE Unhindered(prPc'[q], prRows', prFiles')
  <2>1. CASE q = p
    BY <2>1, <1>2, <1>3
  <2>2. CASE q # p
    BY <2>2, <1>1, <1>2, <1>3
  <2> QED BY <2>1, <2>2
<1>6. ProfilesAgree'
  <2>1. CASE rows = prRows /\ files = prFiles /\ prSettled' = prSettled
    BY <2>1, <1>1, <1>2, PStillAgree
  <2>2. CASE prSettled' = "no"
    BY <2>2 DEF ProfilesAgree
  <2> QED BY <1>2, <2>1, <2>2
<1>7. IsIndex(prRows', prIds') /\ ArePrompts(prFiles', prIds') /\ prAlone' \subseteq PProcs
  BY <1>1, <1>2
<1>8. ProfileTypes'
  BY <1>3, <1>4, <1>7 DEF ProfileTypes
<1> QED BY <1>5, <1>6, <1>8 DEF ProfileInv, UnhinderedRight

\* A step of p that touches neither rows nor files.
LEMMA ProfileTurnOnly ==
    ASSUME ProfileInv, NEW p \in PProcs, NEW rec, prPc' = [prPc EXCEPT ![p] = rec],
           NoWrite, prIds' = prIds, Remembers(rec, prIds),
           p \in prAlone => Unhindered(rec, prRows, prFiles)
    PROVE  ProfileInv'
<1>1. prIds \in Nat /\ IsIndex(prRows, prIds) /\ ArePrompts(prFiles, prIds)
  BY DEF ProfileInv, ProfileTypes
<1>2. /\ prIds' \in Nat /\ prIds <= prIds' /\ Remembers(rec, prIds')
      /\ IsIndex(prRows, prIds') /\ ArePrompts(prFiles, prIds')
  BY <1>1
<1>3. Save(p, prRows, prFiles)
  BY DEF Save, NoWrite
<1> QED BY <1>2, <1>3, ProfileTurn

LEMMA Hindered ==
    ASSUME ProfileInv, NEW p \in PProcs,
           prPc[p].at \notin {"rows", "docs", "write", "rename", "sync", "end"}
    PROVE  p \notin prAlone
BY DEF ProfileInv, UnhinderedRight, Unhindered

LEMMA NothingRemembered ==
    ASSUME NEW c, NEW ids, c.at \notin {"write", "rename", "create", "rows", "docs", "sync"}
    PROVE  Remembers(c, ids) /\ GoesOn(c, ids)
BY DEF Remembers, GoesOn, LoopKnows

\* Where WritePrompt begins: with documents to write or without.
LEMMA WriteRemembered ==
    ASSUME NEW docs, NEW then, NEW ids, \A d \in docs : IsPrompt(d, ids), GoesOn(then, ids)
    PROVE  Remembers(Write(docs, then), ids)
<1>1. CASE docs = {}
  <2>1. Write(docs, then) = then
    BY <1>1 DEF Write
  <2> QED BY <2>1 DEF Remembers, GoesOn
<1>2. CASE docs # {}
  <2> DEFINE c == [at |-> "write", jobs |-> docs, then |-> then]
  <2>1. Write(docs, then) = c /\ c.at = "write" /\ c.jobs = docs /\ c.then = then
    BY <1>2 DEF Write
  <2>2. Remembers(c, ids)
    BY <1>2, <2>1 DEF Remembers
  <2> QED BY <2>1, <2>2
<1> QED BY <1>1, <1>2

LEMMA CreateProfileKeeps ==
    ASSUME ProfileInv, NEW p \in PProcs, CreateProfile(p)
    PROVE  ProfileInv'
<1> DEFINE rec == [at |-> "create", def |-> prRows = Nothing]
<1>1. p \notin prAlone
  BY Hindered DEF CreateProfile, Rest
<1>2. Remembers(rec, prIds)
  <2>1. rec.at = "create" /\ rec.def \in BOOLEAN
    OBVIOUS
  <2> HIDE DEF rec
  <2> QED BY <2>1 DEF Remembers, GoesOn, LoopKnows
<1>3. prPc' = [prPc EXCEPT ![p] = rec] /\ NoWrite /\ prIds' = prIds
  BY DEF CreateProfile, Jump
<1> HIDE DEF rec
<1> QED BY <1>1, <1>2, <1>3, ProfileTurnOnly

LEMMA RestRemembered == \A ids : Remembers(Rest, ids) /\ GoesOn(Rest, ids)
BY NothingRemembered DEF Rest

\* store.CreateProfile keeps the table a table.
LEMMA InsertedIs ==
    ASSUME prIds \in Nat, IsIndex(prRows, prIds), NEW n \in PNames, NEW t, NEW def \in BOOLEAN,
           ~Taken(n, None)
    PROVE  /\ IsIndex(Inserted(n, t, def), prIds + 1)
           /\ DOMAIN Inserted(n, t, def) = DOMAIN prRows \cup {prIds + 1}
           /\ prIds + 1 \notin DOMAIN prRows
           /\ Inserted(n, t, def)[prIds + 1].name = n /\ Inserted(n, t, def)[prIds + 1].text = t
           /\ \A r \in DOMAIN prRows : Tells(Inserted(n, t, def)[r], prRows[r])
<1> DEFINE row == [name |-> n, text |-> t, def |-> def]
           Q == With(prRows, prIds + 1, row)
<1>1. \A r \in DOMAIN prRows : prRows[r].name # n
  BY DEF Taken, None, IsIndex
<1>2. IsProfile(row) /\ row.name = n /\ row.text = t /\ row.def = def
  BY DEF IsProfile
<1>3. prIds + 1 \notin DOMAIN prRows
  BY DEF IsIndex
<1>4. DOMAIN Q = DOMAIN prRows \cup {prIds + 1} /\ Q[prIds + 1] = row
      /\ \A r \in DOMAIN prRows : Q[r] = prRows[r]
  BY <1>3 DEF With
<1>5. Inserted(n, t, def) = IF def THEN WithDefault(Q, prIds + 1) ELSE Q
  BY DEF Inserted
<1> HIDE DEF row
<1>6. IsIndex(Q, prIds + 1)
  <2>1. /\ prIds + 1 \in Nat /\ prIds <= prIds + 1 /\ prIds + 1 \in 1..(prIds + 1)
        /\ \A r \in DOMAIN prRows \ {prIds + 1} : prRows[r].name # row.name
    BY <1>1, <1>2
  <2> QED BY <1>2, <2>1, WithRow
<1> HIDE DEF Q
<1>7. CASE def
  BY <1>2, <1>3, <1>4, <1>5, <1>6, <1>7, DefaultIs DEF Tells
<1>8. CASE ~def
  BY <1>2, <1>3, <1>4, <1>5, <1>6, <1>8 DEF Tells
<1> QED BY <1>7, <1>8

LEMMA InsertProfileKeeps ==
    ASSUME ProfileInv, NEW p \in PProcs, NEW n \in PNames, NEW t, InsertProfile(p, n, t)
    PROVE  ProfileInv'
<1> DEFINE c == prPc[p]
           rows == Inserted(n, t, c.def)
           row == [name |-> n, text |-> t, def |-> c.def]
           rec == Write({Doc(prIds + 1, row)}, Rest)
<1>1. p \notin prAlone
  BY Hindered DEF InsertProfile
<1>2. /\ prIds \in Nat /\ IsIndex(prRows, prIds) /\ ArePrompts(prFiles, prIds) /\ c.def \in BOOLEAN
  BY DEF InsertProfile, ProfileInv, ProfileTypes, Remembers, GoesOn
<1>3. CASE Taken(n, None)
  BY <1>1, <1>3, RestRemembered, ProfileTurnOnly DEF InsertProfile, Jump
<1>4. CASE ~Taken(n, None)
  <2>1. /\ prIds' = prIds + 1 /\ Save(p, rows, prFiles) /\ prPc' = [prPc EXCEPT ![p] = rec]
    BY <1>4 DEF InsertProfile, Jump
  <2>2. IsIndex(rows, prIds') /\ ArePrompts(prFiles, prIds')
    BY <1>2, <1>4, <2>1, InsertedIs, MorePrompts
  <2>3. IsPrompt(Doc(prIds + 1, row), prIds')
    BY <1>2, <2>1, DocOfRow
  <2> HIDE DEF row
  <2>4. Remembers(rec, prIds')
    BY <2>3, RestRemembered, WriteRemembered
  <2>5. prIds' \in Nat /\ prIds <= prIds'
    BY <1>2, <2>1
  <2> HIDE DEF rec, rows
  <2> QED BY <1>1, <2>1, <2>2, <2>4, <2>5, ProfileTurn
<1> QED BY <1>3, <1>4

LEMMA ReadProfileKeeps ==
    ASSUME ProfileInv, NEW p \in PProcs, NEW op \in {"update", "delete"}, NEW id, ReadProfile(p, op, id)
    PROVE  ProfileInv'
<1> DEFINE rec == [at |-> op, id |-> id, def |-> prRows[id].def]
<1>1. p \notin prAlone
  BY Hindered DEF ReadProfile, Rest
<1>2. prPc' = [prPc EXCEPT ![p] = rec] /\ NoWrite /\ prIds' = prIds /\ rec.at = op
  BY DEF ReadProfile, Jump
<1> HIDE DEF rec
<1> QED BY <1>1, <1>2, NothingRemembered, ProfileTurnOnly

\* An update leaves the table a table when the name is free.
LEMMA RenewedIs ==
    ASSUME prIds \in Nat, IsIndex(prRows, prIds), NEW k \in DOMAIN prRows, NEW n \in PNames, NEW t,
           ~Taken(n, k)
    PROVE  /\ IsIndex(With(prRows, k, Renewed(k, n, t)), prIds) /\ IsProfile(Renewed(k, n, t))
           /\ Renewed(k, n, t).name = n /\ Renewed(k, n, t).text = t
           /\ DOMAIN With(prRows, k, Renewed(k, n, t)) = DOMAIN prRows
           /\ With(prRows, k, Renewed(k, n, t))[k] = Renewed(k, n, t)
           /\ \A r \in DOMAIN prRows : r # k => With(prRows, k, Renewed(k, n, t))[r] = prRows[r]
<1> DEFINE row == Renewed(k, n, t)
<1>1. IsProfile(row) /\ row.name = n /\ row.text = t
  BY DEF Renewed, IsProfile, IsIndex
<1>2. k \in 1..prIds /\ \A r \in DOMAIN prRows \ {k} : prRows[r].name # n
  BY DEF Taken, IsIndex
<1> HIDE DEF row
<1>3. IsIndex(With(prRows, k, row), prIds)
  BY <1>1, <1>2, WithRow
<1> QED BY <1>1, <1>3 DEF With, row

LEMMA UpdateProfileKeeps ==
    ASSUME ProfileInv, NEW p \in PProcs, NEW n \in PNames, NEW t, NEW b \in BOOLEAN,
           UpdateProfile(p, n, t, b)
    PROVE  ProfileInv'
<1> DEFINE c == prPc[p]
           row == Renewed(c.id, n, t)
           rec == [at |-> IF b /\ ~c.def THEN "default" ELSE "mirror", doc |-> Doc(c.id, row)]
<1>1. p \notin prAlone /\ prIds' = prIds
  BY Hindered DEF UpdateProfile
<1>2. /\ prIds \in Nat /\ IsIndex(prRows, prIds) /\ ArePrompts(prFiles, prIds)
  BY DEF ProfileInv, ProfileTypes
<1>3. CASE c.id \notin DOMAIN prRows \/ Taken(n, c.id)
  BY <1>1, <1>3, RestRemembered, ProfileTurnOnly DEF UpdateProfile, Jump
<1>4. CASE ~ (c.id \notin DOMAIN prRows \/ Taken(n, c.id))
  <2>1. /\ Save(p, With(prRows, c.id, row), prFiles) /\ prPc' = [prPc EXCEPT ![p] = rec]
    BY <1>4 DEF UpdateProfile, Jump
  <2>2. IsIndex(With(prRows, c.id, row), prIds)
    BY <1>2, <1>4, RenewedIs
  <2>3. rec.at \in {"default", "mirror"}
    OBVIOUS
  <2> HIDE DEF rec, row, c
  <2>4. Remembers(rec, prIds)
    BY <2>3, NothingRemembered
  <2>5. prIds' \in Nat /\ prIds <= prIds' /\ Remembers(rec, prIds') /\ ArePrompts(prFiles, prIds')
        /\ IsIndex(With(prRows, c.id, row), prIds')
    BY <1>1, <1>2, <2>2, <2>4
  <2> QED BY <1>1, <2>1, <2>5, ProfileTurn
<1> QED BY <1>3, <1>4

LEMMA SetDefaultKeeps ==
    ASSUME ProfileInv, NEW p \in PProcs, SetDefault(p)
    PROVE  ProfileInv'
<1> DEFINE c == prPc[p]
           rows == WithDefault(prRows, c.doc.id)
           rec == [at |-> "mirror", doc |-> Doc(c.doc.id, rows[c.doc.id])]
<1>1. p \notin prAlone /\ prIds' = prIds
  BY Hindered DEF SetDefault
<1>2. /\ prIds \in Nat /\ IsIndex(prRows, prIds) /\ ArePrompts(prFiles, prIds)
  BY DEF ProfileInv, ProfileTypes
<1>3. CASE c.doc.id \notin DOMAIN prRows
  BY <1>1, <1>3, RestRemembered, ProfileTurnOnly DEF SetDefault, Jump
<1>4. CASE c.doc.id \in DOMAIN prRows
  <2>1. /\ Save(p, rows, prFiles) /\ prPc' = [prPc EXCEPT ![p] = rec] /\ rec.at = "mirror"
    BY <1>4 DEF SetDefault, Jump
  <2>2. IsIndex(rows, prIds)
    BY <1>2, DefaultIs
  <2> HIDE DEF rec, rows, c
  <2>3. Remembers(rec, prIds)
    BY <2>1, NothingRemembered
  <2>4. prIds' \in Nat /\ prIds <= prIds' /\ Remembers(rec, prIds') /\ ArePrompts(prFiles, prIds')
        /\ IsIndex(rows, prIds')
    BY <1>1, <1>2, <2>2, <2>3
  <2> QED BY <1>1, <2>1, <2>4, ProfileTurn
<1> QED BY <1>3, <1>4

LEMMA MirrorAllKeeps ==
    ASSUME ProfileInv, NEW p \in PProcs, MirrorAll(p)
    PROVE  ProfileInv'
<1> DEFINE docs == {Doc(r, prRows[r]) : r \in DOMAIN prRows}
           then == [at |-> "follow", doc |-> prPc[p].doc]
           rec == Write(docs, then)
<1>1. p \notin prAlone /\ prIds' = prIds /\ NoWrite /\ prPc' = [prPc EXCEPT ![p] = rec]
  BY Hindered DEF MirrorAll, Jump
<1>2. prIds \in Nat /\ IsIndex(prRows, prIds)
  BY DEF ProfileInv, ProfileTypes
<1>3. \A d \in docs : IsPrompt(d, prIds)
  BY <1>2, DocOfRow DEF IsIndex, IsProfile
<1>4. GoesOn(then, prIds)
  BY NothingRemembered
<1> HIDE DEF docs, then
<1>5. Remembers(rec, prIds)
  BY <1>3, <1>4, WriteRemembered
<1> HIDE DEF rec
<1> QED BY <1>1, <1>5, ProfileTurnOnly

LEMMA FollowsKeeps ==
    ASSUME ProfileInv, NEW p \in PProcs, Follow(p)
    PROVE  ProfileInv'
<1>1. p \notin prAlone
  BY Hindered DEF Follow
<1> QED BY <1>1, RestRemembered, ProfileTurnOnly DEF Follow, Jump

LEMMA DeleteProfileKeeps ==
    ASSUME ProfileInv, NEW p \in PProcs, DeleteProfile(p)
    PROVE  ProfileInv'
<1> DEFINE c == prPc[p]
           rows == Without(prRows, {c.id})
           rec == [c EXCEPT !.at = "unlink"]
<1>1. p \notin prAlone /\ prIds' = prIds
  BY Hindered DEF DeleteProfile
<1>2. /\ prIds \in Nat /\ IsIndex(prRows, prIds) /\ ArePrompts(prFiles, prIds)
  BY DEF ProfileInv, ProfileTypes
<1>3. CASE c.id \notin DOMAIN prRows
  BY <1>1, <1>3, RestRemembered, ProfileTurnOnly DEF DeleteProfile, Jump
<1>4. CASE c.id \in DOMAIN prRows
  <2>1. /\ Save(p, rows, prFiles) /\ prPc' = [prPc EXCEPT ![p] = rec]
    BY <1>4 DEF DeleteProfile, Deleted, Jump
  <2>2. rec.at = "unlink"
    OBVIOUS
  <2>3. IsIndex(rows, prIds)
    BY <1>2, WithoutSome
  <2> HIDE DEF rec, rows, c
  <2>4. Remembers(rec, prIds)
    BY <2>2, NothingRemembered
  <2>5. prIds' \in Nat /\ prIds <= prIds' /\ Remembers(rec, prIds') /\ ArePrompts(prFiles, prIds')
        /\ IsIndex(rows, prIds')
    BY <1>1, <1>2, <2>3, <2>4
  <2> QED BY <1>1, <2>1, <2>5, ProfileTurn
<1> QED BY <1>3, <1>4

LEMMA UnlinkPromptKeeps ==
    ASSUME ProfileInv, NEW p \in PProcs, UnlinkPrompt(p)
    PROVE  ProfileInv'
<1> DEFINE S == {f \in DOMAIN prFiles : prFiles[f].id = prPc[p].id}
           files == Without(prFiles, S)
<1>1. p \notin prAlone /\ prIds' = prIds
  BY Hindered DEF UnlinkPrompt
<1>2. /\ prIds \in Nat /\ IsIndex(prRows, prIds) /\ ArePrompts(prFiles, prIds)
  BY DEF ProfileInv, ProfileTypes
<1>3. Save(p, prRows, files) /\ prPc' = [prPc EXCEPT ![p] = Rest]
  BY DEF UnlinkPrompt, Jump
<1>4. ArePrompts(files, prIds)
  BY <1>2, WithoutSome
<1> HIDE DEF files
<1>5. prIds' \in Nat /\ prIds <= prIds' /\ Remembers(Rest, prIds') /\ IsIndex(prRows, prIds')
      /\ ArePrompts(files, prIds')
  BY <1>1, <1>2, <1>4, RestRemembered
<1> QED BY <1>1, <1>3, <1>5, ProfileTurn

LEMMA ResolveAgentKeeps ==
    ASSUME ProfileInv, NEW p \in PProcs, ResolveAgent(p)
    PROVE  ProfileInv'
<1>1. /\ prIds' = prIds /\ prRows' = prRows /\ prFiles' = prFiles /\ prPc' = prPc
      /\ prAlone' = prAlone /\ prSettled' = prSettled
  BY DEF ResolveAgent, NoWrite
<1>2. ProfilesAgree'
  BY <1>1, PStillAgree DEF ProfileInv
<1>3. ProfileTypes'
  BY <1>1 DEF ProfileInv, ProfileTypes
<1> QED BY <1>1, <1>2, <1>3 DEF ProfileInv, UnhinderedRight

\* After a change by hand or a restart nothing is promised.
LEMMA Disturbed ==
    ASSUME ProfileTypes', prAlone' = {}, prSettled' = "no"
    PROVE  ProfileInv'
BY DEF ProfileInv, UnhinderedRight, ProfilesAgree

LEMMA HandEditPromptKeeps ==
    ASSUME ProfileInv, NEW n \in PNames, NEW t, NEW b \in BOOLEAN, HandEditPrompt(n, t, b)
    PROVE  ProfileInv'
<1> DEFINE s == Slug[n]
           old == IF s \in DOMAIN prFiles THEN prFiles[s].id ELSE None
           d == [id |-> old, name |-> n, text |-> t, def |-> b]
<1>1. /\ prFiles' = With(prFiles, s, d) /\ s # None /\ prAlone' = {} /\ prSettled' = "no"
      /\ prRows' = prRows /\ prIds' = prIds /\ prPc' = prPc
  BY DEF HandEditPrompt
<1>2. prIds \in Nat /\ ArePrompts(prFiles, prIds)
  BY DEF ProfileInv, ProfileTypes
<1>3. old \in 0..prIds
  BY <1>2 DEF ArePrompts, IsPrompt, None
<1>4. IsPrompt(d, prIds) /\ d.name = n
  BY <1>3 DEF IsPrompt, Doc
<1> HIDE DEF d
<1>5. ArePrompts(prFiles', prIds)
  BY <1>1, <1>2, <1>4, WithFile
<1>6. ProfileTypes'
  BY <1>1, <1>5 DEF ProfileInv, ProfileTypes
<1> QED BY <1>1, <1>6, Disturbed

LEMMA HandDeletePromptKeeps ==
    ASSUME ProfileInv, NEW s, HandDeletePrompt(s)
    PROVE  ProfileInv'
<1>1. /\ prFiles' = Without(prFiles, {s}) /\ prAlone' = {} /\ prSettled' = "no"
      /\ prRows' = prRows /\ prIds' = prIds /\ prPc' = prPc
  BY DEF HandDeletePrompt
<1>2. ArePrompts(prFiles', prIds)
  BY <1>1, WithoutSome DEF ProfileInv, ProfileTypes
<1>3. ProfileTypes'
  BY <1>1, <1>2 DEF ProfileInv, ProfileTypes
<1> QED BY <1>1, <1>3, Disturbed

LEMMA SeedIs ==
    ASSUME ProfileAssumption
    PROVE  /\ IsProfile(Seed) /\ Seed.name \in PNames /\ Slug[Seed.name] # None /\ Seed.def
           /\ Seed.text = Min(PTexts)
BY DEF Seed, IsProfile, ProfileAssumption, None

\* A table of the seeded profile alone.
LEMMA SeededIs ==
    ASSUME ProfileAssumption, NEW ids \in Nat, NEW i \in 1..ids
    PROVE  /\ IsIndex(With(Nothing, i, Seed), ids) /\ IsPrompt(Doc(i, Seed), ids)
           /\ Doc(i, Seed).name = Seed.name
<1>1. DOMAIN With(Nothing, i, Seed) = {i} /\ With(Nothing, i, Seed)[i] = Seed
  BY DEF With, Nothing
<1> HIDE DEF Seed
<1>2. IsIndex(With(Nothing, i, Seed), ids)
  BY <1>1, SeedIs DEF IsIndex
<1>3. i \in 0..ids
  OBVIOUS
<1> QED BY <1>2, <1>3, SeedIs, DocOfRow DEF IsProfile

LEMMA RestartProfilesKeeps ==
    ASSUME ProfileAssumption, ProfileInv, Restart
    PROVE  ProfileInv'
<1> DEFINE s == Slug[Seed.name]
<1>1. /\ prIds \in Nat /\ IsIndex(prRows, prIds) /\ ArePrompts(prFiles, prIds)
  BY DEF ProfileInv, ProfileTypes
<1>2. /\ prPc' = [p \in PProcs |-> Rest] /\ prAlone' = {} /\ prSettled' = "no"
      /\ \A p \in PProcs : Remembers(prPc'[p], prIds')
  BY RestRemembered DEF Restart
<1>3. prIds' \in Nat /\ IsIndex(prRows', prIds') /\ ArePrompts(prFiles', prIds')
  <2>1. CASE prRows # Nothing
    BY <1>1, <2>1 DEF Restart
  <2>2. CASE prRows = Nothing
    <3> DEFINE d == Doc(prIds + 1, Seed)
    <3>1. /\ prIds' = prIds + 1 /\ prRows' = With(Nothing, prIds + 1, Seed)
          /\ prFiles' = IF s \in DOMAIN prFiles THEN prFiles ELSE With(prFiles, s, d)
      BY <2>2 DEF Restart
    <3>2. prIds' \in Nat /\ prIds + 1 \in 1..prIds' /\ prIds <= prIds'
      BY <1>1, <3>1
    <3>3. IsIndex(prRows', prIds') /\ IsPrompt(d, prIds') /\ d.name = Seed.name
      BY <3>1, <3>2, SeededIs
    <3>4. ArePrompts(prFiles, prIds')
      BY <1>1, <3>2, MorePrompts
    <3> HIDE DEF d
    <3>5. ArePrompts(With(prFiles, s, d), prIds')
      BY <3>3, <3>4, SeedIs, WithFile
    <3> QED BY <3>1, <3>2, <3>3, <3>4, <3>5
  <2> QED BY <2>1, <2>2
<1>4. prPc' = [p \in PProcs |-> prPc'[p]] /\ prAlone' \subseteq PProcs
  BY <1>2
<1>5. ProfileTypes'
  BY <1>2, <1>3, <1>4 DEF ProfileTypes
<1> QED BY <1>2, <1>5, Disturbed

LEMMA ProfilesBegin ==
    ASSUME ProfileAssumption, PInit
    PROVE  ProfileInv
<1> DEFINE d == Doc(1, Seed)
<1>1. /\ prIds = 1 /\ prRows = With(Nothing, 1, Seed) /\ prFiles = With(Nothing, Slug[Seed.name], d)
      /\ prPc = [p \in PProcs |-> Rest] /\ prAlone = {} /\ prSettled = "no"
  BY DEF PInit
<1>2. IsIndex(prRows, prIds) /\ IsPrompt(d, prIds) /\ d.name = Seed.name
  BY <1>1, SeededIs
<1> HIDE DEF d
<1>3. ArePrompts(Nothing, prIds)
  BY DEF ArePrompts, Nothing
<1>4. ArePrompts(prFiles, prIds)
  BY <1>1, <1>2, <1>3, SeedIs, WithFile
<1>5. \A p \in PProcs : Remembers(prPc[p], prIds)
  BY <1>1, RestRemembered
<1>6. prPc = [p \in PProcs |-> prPc[p]]
  BY <1>1
<1>7. ProfileTypes
  BY <1>1, <1>2, <1>4, <1>5, <1>6 DEF ProfileTypes
<1> QED BY <1>1, <1>7 DEF ProfileInv, UnhinderedRight, ProfilesAgree

-----------------------------------------------------------------------------
(* A reconcile: it lists files and rows, and ends.                          *)

LEMMA ListPromptsKeeps ==
    ASSUME ProfileInv, NEW p \in PProcs, ListPrompts(p)
    PROVE  ProfileInv'
<1> DEFINE docs == [f \in DOMAIN prFiles |-> ReadPrompt(prFiles[f])]
           rec == [at |-> "rows", docs |-> docs]
<1>1. /\ prPc' = [prPc EXCEPT ![p] = rec] /\ prRows' = prRows /\ prFiles' = prFiles
      /\ prSettled' = prSettled /\ prIds' = prIds
      /\ prAlone' = IF PCrossed THEN prAlone ELSE prAlone \cup {p}
      /\ rec.at = "rows" /\ rec.docs = docs /\ rec = [at |-> "rows", docs |-> rec.docs]
  BY DEF ListPrompts, Jump
<1>2. p \notin prAlone
  BY Hindered DEF ListPrompts, Rest
<1>3. /\ prIds \in Nat /\ ArePrompts(prFiles, prIds) /\ prPc = [q \in PProcs |-> prPc[q]]
      /\ \A q \in PProcs : Remembers(prPc[q], prIds)
      /\ \A q \in prAlone : Unhindered(prPc[q], prRows, prFiles)
      /\ prAlone \subseteq PProcs
  BY DEF ProfileInv, ProfileTypes, UnhinderedRight
<1>4. /\ DOMAIN docs = DOMAIN prFiles /\ \A f \in DOMAIN prFiles : docs[f] = ReadPrompt(prFiles[f])
      /\ ArePrompts(docs, prIds)
      /\ \A f \in DOMAIN docs : docs[f].name = prFiles[f].name /\ docs[f].id = prFiles[f].id
  BY <1>3, ReadIs DEF ArePrompts
<1> HIDE DEF docs, rec
<1>5. Remembers(rec, prIds)
  BY <1>1, <1>4 DEF Remembers, GoesOn, LoopKnows
<1>6. ~PCrossed => Unhindered(rec, prRows, prFiles)
  <2>1. SUFFICES ASSUME ~PCrossed PROVE SameFiles(rec, prFiles) /\ Apart(docs, prRows)
    BY <1>1 DEF Unhindered
  <2>2. SameFiles(rec, prFiles)
    BY <1>1, <1>4 DEF SameFiles
  <2>3. Apart(docs, prRows)
    BY <1>4, <2>1 DEF Apart, PCrossed
  <2> QED BY <2>2, <2>3
<1>7. prPc' = [q \in PProcs |-> prPc'[q]] /\ prPc'[p] = rec
      /\ \A q \in PProcs : q # p => prPc'[q] = prPc[q]
  BY <1>1, <1>3
<1>8. ASSUME NEW q \in prAlone' PROVE Unhindered(prPc'[q], prRows', prFiles')
  <2>1. CASE q = p
    BY <2>1, <1>1, <1>2, <1>6, <1>7
  <2>2. CASE q # p
    BY <2>2, <1>1, <1>3, <1>7
  <2> QED BY <2>1, <2>2
<1>9. ProfilesAgree'
  BY <1>1, PStillAgree DEF ProfileInv
<1>10. ProfileTypes'
  BY <1>1, <1>3, <1>5, <1>7 DEF ProfileInv, ProfileTypes
<1> QED BY <1>8, <1>9, <1>10 DEF ProfileInv, UnhinderedRight

\* What a document of the loop says of itself.
LEMMA VisitingIs ==
    ASSUME NEW docs, NEW rows, NEW todo, NEW seen, NEW resync,
           NEW c, c = Visiting(docs, rows, todo, seen, resync)
    PROVE  /\ c.at = "docs" /\ c.docs = docs /\ c.rows = rows /\ c.todo = todo /\ c.seen = seen
           /\ c.resync = resync /\ c = Visiting(c.docs, c.rows, c.todo, c.seen, c.resync)
BY DEF Visiting

LEMMA ListProfilesKeeps ==
    ASSUME ProfileInv, NEW p \in PProcs, ListProfiles(p)
    PROVE  ProfileInv'
<1> DEFINE c == prPc[p]
           rec == Visiting(c.docs, prRows, DOMAIN c.docs, {}, Nothing)
<1>1. prPc' = [prPc EXCEPT ![p] = rec] /\ NoWrite /\ prIds' = prIds /\ c.at = "rows"
  BY DEF ListProfiles, Jump
<1>2. /\ IsIndex(prRows, prIds) /\ Remembers(c, prIds)
      /\ p \in prAlone => Unhindered(c, prRows, prFiles)
  BY DEF ProfileInv, ProfileTypes, UnhinderedRight
<1>3. ArePrompts(c.docs, prIds)
  BY <1>1, <1>2 DEF Remembers, GoesOn
<1>4. p \in prAlone => SameFiles(c, prFiles) /\ Apart(c.docs, prRows)
  BY <1>1, <1>2 DEF Unhindered
<1>5. /\ rec.at = "docs" /\ rec.docs = c.docs /\ rec.rows = prRows /\ rec.todo = DOMAIN c.docs
      /\ rec.seen = {} /\ rec.resync = Nothing
      /\ rec = Visiting(rec.docs, rec.rows, rec.todo, rec.seen, rec.resync)
  BY VisitingIs
<1> HIDE DEF rec, c
<1>6. DOMAIN Nothing = {}
  BY DEF Nothing
<1>7. Remembers(rec, prIds)
  <2>1. AreUpdates(rec.resync, prIds)
    BY <1>5, <1>6 DEF AreUpdates
  <2>2. LoopKnows(rec, prIds)
    BY <1>2, <1>3, <1>5, <2>1 DEF LoopKnows
  <2> QED BY <1>5, <2>2 DEF Remembers, GoesOn
<1>8. p \in prAlone => Unhindered(rec, prRows, prFiles)
  <2>1. SUFFICES ASSUME p \in prAlone PROVE InLoop(rec, prRows, prFiles)
    BY <1>5 DEF Unhindered
  <2>2. SameFiles(rec, prFiles) /\ Apart(rec.docs, rec.rows)
    BY <1>4, <1>5, <2>1 DEF SameFiles
  <2>3. Followed(rec, prRows)
    BY <1>5 DEF Followed, Visited, Tells
  <2>4. Updated(rec, prRows)
    BY <1>5, <1>6 DEF Updated
  <2> QED BY <2>2, <2>3, <2>4 DEF InLoop
<1> QED BY <1>1, <1>7, <1>8, ProfileTurnOnly

LEMMA EndKeeps ==
    ASSUME ProfileInv, NEW p \in PProcs, End(p)
    PROVE  ProfileInv'
<1> DEFINE u == prPc[p].unflagged
<1>1. /\ prPc' = [prPc EXCEPT ![p] = Rest] /\ prRows' = prRows /\ prFiles' = prFiles
      /\ prIds' = prIds /\ prAlone' = prAlone \ {p} /\ prPc[p].at = "end"
      /\ prSettled' = IF p \notin prAlone THEN "no" ELSE IF u THEN "unflagged" ELSE "wholly"
  BY DEF End, Jump
<1>2. /\ prPc = [q \in PProcs |-> prPc[q]] /\ prAlone \subseteq PProcs
      /\ \A q \in PProcs : Remembers(prPc[q], prIds)
      /\ \A q \in prAlone : Unhindered(prPc[q], prRows, prFiles)
  BY DEF ProfileInv, ProfileTypes, UnhinderedRight
<1>3. p \in prAlone => Rewriting({}, {}, u, prRows, prFiles)
  BY <1>1, <1>2 DEF Unhindered
<1>4. prPc' = [q \in PProcs |-> prPc'[q]] /\ prPc'[p] = Rest
      /\ \A q \in PProcs : q # p => prPc'[q] = prPc[q]
  BY <1>1, <1>2
<1>5. ProfilesAgree'
  <2>1. CASE p \notin prAlone
    BY <1>1, <2>1 DEF ProfilesAgree
  <2>2. CASE p \in prAlone
    <3> USE <1>3, <2>2
    <3> DEFINE single == \A f, g \in DOMAIN prFiles : f # g =>
                           prFiles[f].id # prFiles[g].id \/ prFiles[f].id = None
    <3>1. single => \A f \in DOMAIN prFiles : Agrees(prRows, prFiles, f)
      BY DEF Rewriting, Twin
    <3>2. \A r \in DOMAIN prRows : \E f \in DOMAIN prFiles : prRows[r].name = prFiles[f].name
      BY DEF Rewriting
    <3>3. prSettled' = "wholly" => FlagFollowed
      BY <1>1 DEF Rewriting, FlagKept, FlagFollowed, Flagged
    <3>4. \A f \in DOMAIN prFiles : Agrees(prRows, prFiles, f) => \E r \in DOMAIN prRows :
             /\ prRows[r].name = prFiles[f].name
             /\ ReadPrompt(prFiles[f]).text \in {prRows[r].text, PKept[prRows[r].text]}
      BY DEF Agrees, ReadPrompt
    <3>5. FlagFollowed => FlagFollowed'
      BY <1>1 DEF FlagFollowed
    <3> QED BY <1>1, <3>1, <3>2, <3>3, <3>4, <3>5 DEF ProfilesAgree, ReadPrompt
  <2> QED BY <2>1, <2>2
<1>6. ProfileTypes'
  BY <1>1, <1>2, <1>4, RestRemembered DEF ProfileInv, ProfileTypes
<1>7. UnhinderedRight'
  BY <1>1, <1>2, <1>4 DEF UnhinderedRight
<1> QED BY <1>5, <1>6, <1>7 DEF ProfileInv

-----------------------------------------------------------------------------
(* The files are rewritten.                                                 *)

\* What the first document to write is.
LEMMA FirstJob ==
    ASSUME NEW ids \in Nat, NEW jobs, jobs # {}, \A d \in jobs : IsPrompt(d, ids)
    PROVE  (CHOOSE j \in jobs : \A i \in jobs : j.id <= i.id) \in jobs
<1> DEFINE Less == {q \in Nat \X Nat : q[1] < q[2]}
           I == {d.id : d \in jobs}
<1>1. IsWellFoundedOn(Less, Nat)
  BY NatLessThanWellFounded DEF OpToRel
<1>2. I \subseteq Nat /\ I # {}
  BY DEF IsPrompt
<1>3. PICK x \in I : \A y \in I : ~ (<<y, x>> \in Less)
  BY <1>1, <1>2, WFMin
<1>4. ASSUME NEW y \in I PROVE x <= y
  <2>1. <<y, x>> \in Nat \X Nat
    BY <1>2
  <2>2. ~ (y < x)
    BY <1>3, <2>1
  <2> QED BY <1>2, <2>2, SMTT(30), ZenonT(60), Z3T(60)
<1>5. PICK j \in jobs : j.id = x
  BY <1>3
<1>6. \A i \in jobs : j.id <= i.id
  BY <1>4, <1>5
<1> QED BY <1>6

LEMMA WriteUnhindered ==
    ASSUME NEW docs, NEW then, NEW R, NEW F,
           \/ then.at = "end" /\ Rewriting(docs, {}, then.unflagged, R, F)
           \/ /\ then.at = "docs" /\ InLoop(then, R, F)
              /\ \A d \in docs : Slug[d.name] \in DOMAIN F /\ \A f \in DOMAIN F : F[f].id # d.id
    PROVE  Unhindered(Write(docs, then), R, F)
<1>1. CASE docs = {}
  <2>1. Write(docs, then) = then
    BY <1>1 DEF Write
  <2> QED BY <1>1, <2>1 DEF Unhindered
<1>2. CASE docs # {}
  <2> DEFINE c == [at |-> "write", jobs |-> docs, then |-> then]
  <2>1. Write(docs, then) = c /\ c.at = "write" /\ c.jobs = docs /\ c.then = then
    BY <1>2 DEF Write
  <2> HIDE DEF c
  <2> QED BY <2>1 DEF Unhindered
<1> QED BY <1>1, <1>2

\* The flag that counts stays where it is when other files are taken away or
\* written without a flag.
LEMMA FlagStays ==
    ASSUME ProfileAssumption, NEW ids, NEW F, ArePrompts(F, ids), NEW J, NEW K, K \subseteq J, NEW R,
           FlagKept(J, R, F), NEW G, Flagged(G) \subseteq Flagged(F),
           \A f \in Flagged(G) : G[f] = F[f],
           \A f \in Flagged(F) \ Flagged(G) : \E d \in J : F[f].id = d.id
    PROVE  FlagKept(K, R, G)
<1> DEFINE w == FirstOf(F, Flagged(F))
           T == Flagged(G)
<1>1. SUFFICES ASSUME Flagged(G) # {}
               PROVE  LET id == G[FirstOf(G, Flagged(G))].id
                      IN  (id \in DOMAIN R => R[id].def) /\ \A d \in K : d.id # id
  BY DEF FlagKept
<1>2. Flagged(F) # {} /\ \A f \in Flagged(F) : F[f].name \in PNames /\ F[f].def \in BOOLEAN
  BY <1>1 DEF Flagged, ArePrompts, IsPrompt
<1>3. w \in Flagged(F)
  BY <1>2, FirstIs
<1>4. (F[w].id \in DOMAIN R => R[F[w].id].def) /\ \A d \in J : d.id # F[w].id
  BY <1>2 DEF FlagKept
<1> HIDE DEF w
<1>5. w \in T
  BY <1>3, <1>4
<1>6. \A f \in T : G[f].name = F[f].name /\ G[f].def = F[f].def
  OBVIOUS
<1> HIDE DEF T
<1>7. FirstOf(G, T) = w
  BY <1>5, <1>6, FirstStays DEF w, T
<1>8. G[w] = F[w]
  BY <1>5 DEF T
<1> QED BY <1>4, <1>7, <1>8 DEF T

\* WritePrompt removes the old file.
LEMMA OldTaken ==
    ASSUME ProfileAssumption, NEW ids, NEW F, ArePrompts(F, ids), NEW R, NEW u, NEW J, NEW d \in J,
           Rewriting(J, {}, u, R, F), NEW o \in DOMAIN F, F[o].id = d.id
    PROVE  Rewriting(J, {d}, u, R, Without(F, {o}))
<1> DEFINE G == Without(F, {o})
<1>1. DOMAIN G = DOMAIN F \ {o} /\ \A f \in DOMAIN G : G[f] = F[f]
  BY DEF Without
<1> HIDE DEF G
<1>2. d.id \in DOMAIN R /\ R[d.id].name = d.name
  BY DEF Rewriting, Tells
<1>3. ASSUME NEW f \in DOMAIN G PROVE Agrees(R, G, f) \/ Twin(G, {d}, f)
  <2>1. Agrees(R, F, f) => Agrees(R, G, f)
    BY <1>1, <1>3 DEF Agrees
  <2>2. Twin(F, {}, f) => Twin(G, {d}, f)
    BY <1>1, <1>3 DEF Twin
  <2> QED BY <1>1, <2>1, <2>2 DEF Rewriting
<1>4. ASSUME NEW r \in DOMAIN R
      PROVE  \/ \E f \in DOMAIN G : G[f].name = R[r].name
             \/ \E e \in {d} : e.name = R[r].name
  <2>1. PICK f \in DOMAIN F : F[f].name = R[r].name
    BY DEF Rewriting
  <2>2. f = o => r = d.id
    BY <1>2, <2>1 DEF Rewriting
  <2> QED BY <1>1, <1>2, <2>1, <2>2
<1>5. u \/ FlagKept(J, R, G)
  <2>1. SUFFICES ASSUME ~u PROVE FlagKept(J, R, G)
    OBVIOUS
  <2>2. FlagKept(J, R, F)
    BY <2>1 DEF Rewriting
  <2>3. /\ Flagged(G) \subseteq Flagged(F) /\ \A f \in Flagged(G) : G[f] = F[f]
        /\ \A f \in Flagged(F) \ Flagged(G) : \E e \in J : F[f].id = e.id
    BY <1>1 DEF Flagged
  <2> QED BY <2>2, <2>3, FlagStays
<1>6. /\ \A f \in DOMAIN G, r \in DOMAIN R :
           R[r].name = G[f].name => r = G[f].id \/ G[f].id \notin DOMAIN R
      /\ \A e \in J : Slug[e.name] \in DOMAIN G =>
                       G[Slug[e.name]].id = e.id /\ G[Slug[e.name]].name = e.name
  BY <1>1 DEF Rewriting
<1>7. Rewriting(J, {d}, u, R, G)
  BY <1>1, <1>3, <1>4, <1>5, <1>6 DEF Rewriting
<1> QED BY <1>7 DEF G

\* WritePrompt writes the file under the slug of its name.
LEMMA NewWritten ==
    ASSUME ProfileAssumption, NEW ids, NEW R, IsIndex(R, ids), NEW F, ArePrompts(F, ids),
           NEW u, NEW J, NEW d \in J, Rewriting(J, {d}, u, R, F)
    PROVE  Rewriting(J \ {d}, {}, u, R, With(F, Slug[d.name], d))
<1> DEFINE s == Slug[d.name]
           G == With(F, s, d)
<1>1. DOMAIN G = DOMAIN F \cup {s} /\ G[s] = d /\ \A f \in DOMAIN F \ {s} : G[f] = F[f]
  BY DEF With
<1> HIDE DEF G
<1>2. /\ d.id \in DOMAIN R /\ R[d.id].name = d.name /\ R[d.id].text = d.text /\ ~d.def
      /\ s \in DOMAIN F => F[s].id = d.id /\ F[s].name = d.name
  BY DEF Rewriting, Tells
<1> HIDE DEF s
<1>3. d.id # None
  BY <1>2 DEF IsIndex, None
<1>4. ASSUME NEW f \in DOMAIN G PROVE Agrees(R, G, f) \/ Twin(G, {}, f)
  <2>1. CASE f = s
    BY <1>1, <1>2, <2>1 DEF Agrees
  <2>2. CASE f # s
    <3>1. f \in DOMAIN F /\ G[f] = F[f]
      BY <1>1, <2>2
    <3>2. Agrees(R, F, f) => Agrees(R, G, f)
      BY <3>1 DEF Agrees
    <3>3. ASSUME Twin(F, {d}, f) PROVE Twin(G, {}, f)
      <4>1. F[f].id # None
        BY <3>3 DEF Twin
      <4>2. CASE F[f].id = d.id
        BY <1>1, <2>2, <3>1, <4>1, <4>2 DEF Twin
      <4>3. CASE F[f].id # d.id
        <5>1. PICK g \in DOMAIN F \ {f} : F[g].id = F[f].id
          BY <3>3, <4>3 DEF Twin
        <5>2. g # s
          BY <1>2, <4>3, <5>1
        <5>3. g \in DOMAIN G \ {f} /\ G[g].id = G[f].id
          BY <1>1, <3>1, <5>1, <5>2
        <5> QED BY <3>1, <4>1, <5>3 DEF Twin
      <4> QED BY <4>2, <4>3
    <3> QED BY <3>1, <3>2, <3>3 DEF Rewriting
  <2> QED BY <2>1, <2>2
<1>5. ASSUME NEW r \in DOMAIN R PROVE \E f \in DOMAIN G : G[f].name = R[r].name
  <2>1. CASE \E f \in DOMAIN F : F[f].name = R[r].name
    BY <1>1, <1>2, <2>1
  <2>2. CASE d.name = R[r].name
    BY <1>1, <2>2
  <2> QED BY <2>1, <2>2 DEF Rewriting
<1>6. ASSUME NEW f \in DOMAIN G, NEW r \in DOMAIN R, R[r].name = G[f].name
      PROVE  r = G[f].id \/ G[f].id \notin DOMAIN R
  <2>1. CASE f = s
    BY <1>1, <1>2, <1>6, <2>1 DEF IsIndex
  <2>2. CASE f # s
    BY <1>1, <1>6, <2>2 DEF Rewriting
  <2> QED BY <2>1, <2>2
<1>7. ASSUME NEW e \in J \ {d}
      PROVE  /\ e.id \in DOMAIN R /\ Tells(R[e.id], e) /\ ~e.def
             /\ Slug[e.name] \in DOMAIN G =>
                  G[Slug[e.name]].id = e.id /\ G[Slug[e.name]].name = e.name
  <2>1. /\ e.id \in DOMAIN R /\ Tells(R[e.id], e) /\ ~e.def
        /\ Slug[e.name] \in DOMAIN F =>
             F[Slug[e.name]].id = e.id /\ F[Slug[e.name]].name = e.name
    BY DEF Rewriting
  <2>2. CASE Slug[e.name] = s
    <3>1. e.id = d.id
      BY <2>2 DEF Rewriting, s
    <3>2. e.name = d.name
      BY <1>2, <2>1, <3>1 DEF Tells
    <3> QED BY <1>1, <2>1, <2>2, <3>1, <3>2
  <2>3. CASE Slug[e.name] # s
    BY <1>1, <2>1, <2>3
  <2> QED BY <2>2, <2>3
<1>8. \A a, e \in J \ {d} : Slug[a.name] = Slug[e.name] => a.id = e.id
  BY DEF Rewriting
<1>9. u \/ FlagKept(J \ {d}, R, G)
  <2>1. SUFFICES ASSUME ~u PROVE FlagKept(J \ {d}, R, G)
    OBVIOUS
  <2>2. FlagKept(J, R, F)
    BY <2>1 DEF Rewriting
  <2>3. /\ Flagged(G) \subseteq Flagged(F) /\ \A f \in Flagged(G) : G[f] = F[f]
        /\ \A f \in Flagged(F) \ Flagged(G) : \E e \in J : F[f].id = e.id
    BY <1>1, <1>2 DEF Flagged
  <2>4. J \ {d} \subseteq J
    OBVIOUS
  <2> QED BY <2>2, <2>3, <2>4, FlagStays
<1>10. {} \subseteq J \ {d}
  OBVIOUS
<1> QED BY <1>4, <1>5, <1>6, <1>7, <1>8, <1>9, <1>10 DEF Rewriting, G, s

\* A document that has no slug or finds its slug taken is not written.
LEMMA OneLess ==
    ASSUME NEW R, NEW F, NEW u, NEW J, NEW d, Rewriting(J, {}, u, R, F)
    PROVE  Rewriting(J \ {d}, {}, u, R, F)
<1>1. FlagKept(J, R, F) => FlagKept(J \ {d}, R, F)
  BY DEF FlagKept
<1> QED BY <1>1 DEF Rewriting

LEMMA OneToWrite ==
    ASSUME NEW R, NEW F, NEW u, NEW J, NEW d \in J, Rewriting(J, {}, u, R, F)
    PROVE  Rewriting(J, {d}, u, R, F)
<1>1. \A f \in DOMAIN F : Twin(F, {}, f) => Twin(F, {d}, f)
  BY DEF Twin
<1> QED BY <1>1 DEF Rewriting

LEMMA TakeOldKeeps ==
    ASSUME ProfileAssumption, ProfileInv, NEW p \in PProcs, TakeOld(p)
    PROVE  ProfileInv'
<1> DEFINE c == prPc[p]
           d == CHOOSE j \in c.jobs : \A i \in c.jobs : j.id <= i.id
           s == Slug[d.name]
           old == {f \in DOMAIN prFiles : prFiles[f].id = d.id}
           clash == old = {} /\ s \in DOMAIN prFiles
           J == c.jobs
           e == c.then
           rec == [at |-> "rename", jobs |-> J, then |-> e, doc |-> d]
<1>1. c.at = "write" /\ prIds' = prIds
  BY DEF TakeOld
<1>2. /\ prIds \in Nat /\ IsIndex(prRows, prIds) /\ ArePrompts(prFiles, prIds) /\ Remembers(c, prIds)
      /\ p \in prAlone => Unhindered(c, prRows, prFiles)
  BY DEF ProfileInv, ProfileTypes, UnhinderedRight
<1>3. J # {} /\ (\A i \in J : IsPrompt(i, prIds)) /\ GoesOn(e, prIds)
  BY <1>1, <1>2 DEF Remembers
<1>4. d \in J
  BY <1>2, <1>3, FirstJob
<1>5. ASSUME p \in prAlone
      PROVE  \/ e.at = "end" /\ Rewriting(J, {}, e.unflagged, prRows, prFiles)
             \/ /\ e.at = "docs" /\ InLoop(e, prRows, prFiles)
                /\ \A i \in J : Slug[i.name] \in DOMAIN prFiles /\ \A f \in DOMAIN prFiles : prFiles[f].id # i.id
  BY <1>1, <1>2, <1>5 DEF Unhindered
<1>6. \/ (s = None \/ clash) /\ NoWrite /\ prPc' = [prPc EXCEPT ![p] = Write(J \ {d}, e)]
      \/ /\ s # None /\ ~clash /\ prPc' = [prPc EXCEPT ![p] = rec]
         /\ \/ old = {} /\ NoWrite
            \/ \E f \in old : Save(p, prRows, Without(prFiles, {f}))
  BY DEF TakeOld, Jump
<1>7. p \in prAlone /\ e.at = "docs" => clash
  BY <1>4, <1>5
<1> HIDE DEF d
<1>8. CASE (s = None \/ clash) /\ NoWrite /\ prPc' = [prPc EXCEPT ![p] = Write(J \ {d}, e)]
  <2>1. Remembers(Write(J \ {d}, e), prIds)
    BY <1>3, WriteRemembered
  <2>2. ASSUME p \in prAlone PROVE Unhindered(Write(J \ {d}, e), prRows, prFiles)
    <3>1. CASE e.at = "end"
      <4>1. Rewriting(J \ {d}, {}, e.unflagged, prRows, prFiles)
        BY <1>5, <2>2, <3>1, OneLess
      <4> QED BY <3>1, <4>1, WriteUnhindered
    <3>2. CASE e.at = "docs"
      <4>1. /\ InLoop(e, prRows, prFiles)
            /\ \A i \in J \ {d} : Slug[i.name] \in DOMAIN prFiles /\ \A f \in DOMAIN prFiles : prFiles[f].id # i.id
        BY <1>5, <2>2, <3>2
      <4> QED BY <3>2, <4>1, WriteUnhindered
    <3> QED BY <1>5, <2>2, <3>1, <3>2
  <2> QED BY <1>1, <1>8, <2>1, <2>2, ProfileTurnOnly
<1>9. CASE s # None /\ ~clash /\ prPc' = [prPc EXCEPT ![p] = rec]
  <2>1. /\ rec.at = "rename" /\ rec.jobs = J /\ rec.then = e /\ rec.doc = d
        /\ rec = [at |-> "rename", jobs |-> rec.jobs, then |-> rec.then, doc |-> rec.doc]
    OBVIOUS
  <2> HIDE DEF rec
  <2>2. Remembers(rec, prIds)
    BY <1>3, <1>4, <1>9, <2>1 DEF Remembers
  <2>3. p \in prAlone => e.at = "end" /\ Rewriting(J, {}, e.unflagged, prRows, prFiles)
    BY <1>5, <1>7, <1>9
  <2>4. CASE old = {} /\ NoWrite
    <3>1. p \in prAlone => Unhindered(rec, prRows, prFiles)
      BY <1>4, <2>1, <2>3, OneToWrite DEF Unhindered
    <3> QED BY <1>1, <1>9, <2>2, <2>4, <3>1, ProfileTurnOnly
  <2>5. ASSUME NEW f \in old, Save(p, prRows, Without(prFiles, {f})) PROVE ProfileInv'
    <3> DEFINE files == Without(prFiles, {f})
    <3>1. p \in prAlone => Rewriting(J, {d}, e.unflagged, prRows, files)
      BY <1>2, <1>4, <2>3, <2>5, OldTaken
    <3>2. ArePrompts(files, prIds)
      BY <1>2, WithoutSome
    <3>3. Save(p, prRows, files)
      BY <2>5
    <3> HIDE DEF files
    <3>4. p \in prAlone => Unhindered(rec, prRows, files)
      BY <2>1, <2>3, <3>1 DEF Unhindered
    <3>5. /\ prIds' \in Nat /\ prIds <= prIds' /\ Remembers(rec, prIds') /\ IsIndex(prRows, prIds')
          /\ ArePrompts(files, prIds')
      BY <1>1, <1>2, <2>2, <3>2
    <3> QED BY <1>9, <3>3, <3>4, <3>5, ProfileTurn
  <2> QED BY <1>6, <1>9, <2>4, <2>5
<1> QED BY <1>6, <1>8, <1>9

LEMMA WriteNewKeeps ==
    ASSUME ProfileAssumption, ProfileInv, NEW p \in PProcs, WriteNew(p)
    PROVE  ProfileInv'
<1> DEFINE c == prPc[p]
           d == c.doc
           J == c.jobs
           e == c.then
           files == With(prFiles, Slug[d.name], d)
           rec == Write(J \ {d}, e)
<1>1. /\ c.at = "rename" /\ prIds' = prIds /\ prPc' = [prPc EXCEPT ![p] = rec]
      /\ Save(p, prRows, files)
  BY DEF WriteNew, Jump
<1>2. /\ prIds \in Nat /\ IsIndex(prRows, prIds) /\ ArePrompts(prFiles, prIds) /\ Remembers(c, prIds)
      /\ p \in prAlone => Unhindered(c, prRows, prFiles)
  BY DEF ProfileInv, ProfileTypes, UnhinderedRight
<1>3. d \in J /\ Slug[d.name] # None /\ (\A i \in J : IsPrompt(i, prIds)) /\ GoesOn(e, prIds)
  BY <1>1, <1>2 DEF Remembers
<1>4. p \in prAlone => e.at = "end" /\ Rewriting(J, {d}, e.unflagged, prRows, prFiles)
  BY <1>1, <1>2 DEF Unhindered
<1>5. p \in prAlone => Rewriting(J \ {d}, {}, e.unflagged, prRows, files)
  BY <1>2, <1>3, <1>4, NewWritten
<1>6. ArePrompts(files, prIds)
  BY <1>2, <1>3, WithFile
<1>7. Remembers(rec, prIds)
  BY <1>3, WriteRemembered
<1> HIDE DEF files
<1>8. p \in prAlone => Unhindered(rec, prRows, files)
  BY <1>4, <1>5, WriteUnhindered
<1> HIDE DEF rec
<1>9. /\ prIds' \in Nat /\ prIds <= prIds' /\ Remembers(rec, prIds') /\ IsIndex(prRows, prIds')
      /\ ArePrompts(files, prIds')
  BY <1>1, <1>2, <1>6, <1>7
<1> QED BY <1>1, <1>8, <1>9, ProfileTurn

LEMMA ResyncKeeps ==
    ASSUME ProfileInv, NEW p \in PProcs, Resync(p)
    PROVE  ProfileInv'
<1> DEFINE c == prPc[p]
           then == [at |-> "end", unflagged |-> c.unflagged]
           rec == Write(SyncJobs(c), then)
<1>1. c.at = "sync" /\ NoWrite /\ prIds' = prIds /\ prPc' = [prPc EXCEPT ![p] = rec]
  BY DEF Resync, Jump
<1>2. /\ prIds \in Nat /\ Remembers(c, prIds)
      /\ p \in prAlone => Unhindered(c, prRows, prFiles)
  BY DEF ProfileInv, ProfileTypes, UnhinderedRight
<1>3. AreUpdates(c.resync, prIds)
  BY <1>1, <1>2 DEF Remembers, GoesOn
<1>4. then.at = "end" /\ then.unflagged = c.unflagged
  OBVIOUS
<1> HIDE DEF then
<1>5. p \in prAlone => Rewriting(SyncJobs(c), {}, then.unflagged, prRows, prFiles)
  BY <1>1, <1>2, <1>4 DEF Unhindered, SyncJobs, JobsOf
<1>6. ASSUME NEW d \in SyncJobs(c) PROVE IsPrompt(d, prIds)
  <2>1. PICK x \in DOMAIN c.resync : d = Doc(x, c.resync[x])
    BY DEF SyncJobs
  <2>2. x \in 1..prIds /\ IsProfile(c.resync[x])
    BY <1>3 DEF AreUpdates
  <2>3. x \in 0..prIds /\ c.resync[x].name \in PNames /\ c.resync[x].def \in BOOLEAN
    BY <1>2, <2>2 DEF IsProfile
  <2> QED BY <1>2, <2>1, <2>3, DocOfRow
<1>7. Remembers(rec, prIds)
  BY <1>4, <1>6, NothingRemembered, WriteRemembered
<1>8. p \in prAlone => Unhindered(rec, prRows, prFiles)
  BY <1>4, <1>5, WriteUnhindered
<1> HIDE DEF rec
<1> QED BY <1>1, <1>7, <1>8, ProfileTurnOnly

LEMMA PruneProfilesKeeps ==
    ASSUME ProfileInv, NEW p \in PProcs, PruneProfiles(p)
    PROVE  ProfileInv'
<1> DEFINE c == prPc[p]
<1>1. c.at = "docs" /\ c.todo = {} /\ prIds' = prIds /\ prPc' = prPc
  BY DEF PruneProfiles
<1>2. PICK r \in Unseen(c) : Save(p, Without(prRows, {r}), prFiles)
  BY DEF PruneProfiles, Deleted
<1> DEFINE rows == Without(prRows, {r})
<1>3. /\ prIds \in Nat /\ IsIndex(prRows, prIds) /\ ArePrompts(prFiles, prIds) /\ Remembers(c, prIds)
      /\ p \in prAlone => Unhindered(c, prRows, prFiles)
      /\ prPc = [q \in PProcs |-> prPc[q]]
  BY DEF ProfileInv, ProfileTypes, UnhinderedRight
<1>4. prPc' = [prPc EXCEPT ![p] = c]
  BY <1>1, <1>3
<1>5. IsIndex(rows, prIds)
  BY <1>3, WithoutSome
<1>6. r \notin c.seen /\ DOMAIN rows = DOMAIN prRows \ {r} /\ \A k \in DOMAIN rows : rows[k] = prRows[k]
  BY DEF Unseen, Without
<1> HIDE DEF c, rows
<1>7. ASSUME p \in prAlone PROVE Unhindered(c, rows, prFiles)
  <2>1. InLoop(c, prRows, prFiles)
    BY <1>1, <1>3, <1>7 DEF Unhindered
  <2>2. Followed(c, rows)
    BY <1>1, <1>6, <2>1 DEF InLoop, Followed
  <2>3. Updated(c, rows)
    BY <1>6, <2>1 DEF InLoop, Updated
  <2> QED BY <1>1, <2>1, <2>2, <2>3 DEF Unhindered, InLoop
<1>8. /\ prIds' \in Nat /\ prIds <= prIds' /\ Remembers(c, prIds') /\ IsIndex(rows, prIds')
      /\ ArePrompts(prFiles, prIds') /\ Save(p, rows, prFiles)
  BY <1>1, <1>2, <1>3, <1>5 DEF rows
<1> QED BY <1>4, <1>7, <1>8, ProfileTurn

\* At the end of the loops the rows are those the files stand for; what is left
\* to write are the files of the rows that followed an edit.
LEMMA LoopsOver ==
    ASSUME ProfileAssumption, NEW ids, NEW R, IsIndex(R, ids), NEW F, ArePrompts(F, ids),
           NEW c, IsIndex(c.rows, ids), AreUpdates(c.resync, ids),
           InLoop(c, R, F), c.todo = {}, DOMAIN R \subseteq c.seen,
           NEW Q, DOMAIN Q = DOMAIN R, \A r \in DOMAIN R : Tells(Q[r], R[r]),
           NEW u, u \/ FlagKept(JobsOf(c.resync, F), Q, F)
    PROVE  Rewriting(JobsOf(c.resync, F), {}, u, Q, F)
<1> DEFINE J == JobsOf(c.resync, F)
<1>1. /\ DOMAIN F = DOMAIN c.docs /\ Visited(c) = DOMAIN F
      /\ \A f \in DOMAIN F : /\ c.docs[f].id = F[f].id /\ c.docs[f].name = F[f].name
                             /\ c.docs[f].text = PKept[F[f].text] /\ Slug[F[f].name] = f
  BY ReadIs DEF InLoop, SameFiles, ArePrompts, Visited
<1>2. Apart(c.docs, c.rows) /\ Followed(c, R) /\ Updated(c, R)
  BY DEF InLoop
<1>3. \A r \in DOMAIN R : Q[r].name = R[r].name /\ Q[r].text = R[r].text
  BY DEF Tells
<1>4. ASSUME NEW f \in DOMAIN F PROVE Agrees(Q, F, f) \/ Twin(F, {}, f)
  <2>1. CASE \E r \in DOMAIN R \cap c.seen : Tells(R[r], c.docs[f]) /\ MayHave(c, f, r)
    BY <1>1, <1>3, <1>4, <2>1 DEF Agrees, Tells
  <2>2. CASE /\ c.docs[f].id \in DOMAIN c.rows
             /\ \E g \in Visited(c) \ {f} : c.docs[g].id = c.docs[f].id
    <3>1. F[f].id # None
      BY <1>1, <2>2 DEF IsIndex, None
    <3> QED BY <1>1, <2>2, <3>1 DEF Twin
  <2> QED BY <1>1, <1>2, <2>1, <2>2 DEF Followed
<1>5. \A r \in DOMAIN R : \E f \in DOMAIN F : F[f].name = Q[r].name
  BY <1>1, <1>2, <1>3 DEF Followed
<1>6. \A r \in DOMAIN R \ DOMAIN c.rows : \A f \in DOMAIN F : F[f].id # r
  BY <1>1, <1>2 DEF Followed
<1>7. ASSUME NEW f \in DOMAIN F, NEW r \in DOMAIN R, R[r].name = F[f].name
      PROVE  r = F[f].id \/ F[f].id \notin DOMAIN R
  <2>1. CASE r \in DOMAIN c.rows /\ Tells(R[r], c.rows[r])
    <3>1. f \in DOMAIN c.docs /\ c.rows[r].name = c.docs[f].name
      BY <1>1, <1>7, <2>1 DEF Tells
    <3>2. r = c.docs[f].id \/ c.docs[f].id \notin DOMAIN c.rows
      BY <1>2, <2>1, <3>1 DEF Apart
    <3> QED BY <1>1, <1>6, <3>2
  <2>2. CASE \E g \in Visited(c) : R[r].name = c.docs[g].name /\ MayHave(c, g, r)
    <3>1. PICK g \in DOMAIN F : R[r].name = F[g].name /\ MayHave(c, g, r)
      BY <1>1, <2>2
    <3>2. g = f
      <4>1. Slug[F[g].name] = g /\ Slug[F[f].name] = f /\ F[g].name = F[f].name
        BY <1>1, <1>7, <3>1
      <4> QED BY <4>1
    <3> QED BY <1>1, <1>6, <3>1, <3>2 DEF MayHave
  <2> QED BY <1>2, <2>1, <2>2 DEF Followed
<1>8. ASSUME NEW d \in J
      PROVE  /\ d.id \in DOMAIN Q /\ Tells(Q[d.id], d) /\ ~d.def
             /\ Slug[d.name] \in DOMAIN F /\ F[Slug[d.name]].id = d.id /\ F[Slug[d.name]].name = d.name
  <2>1. PICK x \in DOMAIN c.resync : d = Doc(x, c.resync[x]) /\ ~c.resync[x].def
                                     /\ \E f \in DOMAIN F : F[f].id = x
    BY DEF JobsOf
  <2>2. d.id = x /\ d.name = c.resync[x].name /\ d.text = c.resync[x].text /\ d.def = c.resync[x].def
    BY <2>1 DEF Doc
  <2>3. /\ x \in DOMAIN R /\ Tells(R[x], c.resync[x])
        /\ \E f \in Visited(c) : /\ c.docs[f].name = R[x].name
                                 /\ c.docs[f].id = x \/ \A g \in DOMAIN c.docs : c.docs[g].id # x
    BY <1>2 DEF Updated
  <2>4. PICK f \in DOMAIN F : F[f].name = R[x].name /\ F[f].id = x
    BY <1>1, <2>1, <2>3
  <2> QED BY <1>1, <1>3, <2>1, <2>2, <2>3, <2>4 DEF Tells
<1>9. \A d, e \in J : Slug[d.name] = Slug[e.name] => d.id = e.id
  BY <1>8
<1> HIDE DEF J
<1>10. {} \subseteq J
  OBVIOUS
<1> QED BY <1>3, <1>4, <1>5, <1>7, <1>8, <1>9, <1>10 DEF Rewriting, J

LEMMA MoveDefaultKeeps ==
    ASSUME ProfileAssumption, ProfileInv, NEW p \in PProcs, MoveDefault(p)
    PROVE  ProfileInv'
<1> DEFINE c == prPc[p]
           flagged == {f \in DOMAIN c.docs : c.docs[f].def}
           want == c.docs[FirstOf(c.docs, flagged)].id
           moved == flagged # {} /\ want \in DOMAIN prRows
           u == moved /\ want \in DOMAIN c.resync /\ ~c.resync[want].def
           rows == IF moved THEN WithDefault(prRows, want) ELSE prRows
           rec == Syncing(c.resync, u)
<1>1. /\ c.at = "docs" /\ c.todo = {} /\ Unseen(c) = {} /\ prIds' = prIds
      /\ prPc' = [prPc EXCEPT ![p] = rec]
  BY DEF MoveDefault, Jump
<1>2. IF moved THEN Save(p, WithDefault(prRows, want), prFiles) ELSE NoWrite
  BY DEF MoveDefault
<1>3. Save(p, rows, prFiles)
  BY <1>2 DEF Save, NoWrite
<1>4. /\ prIds \in Nat /\ IsIndex(prRows, prIds) /\ ArePrompts(prFiles, prIds) /\ Remembers(c, prIds)
      /\ p \in prAlone => Unhindered(c, prRows, prFiles)
  BY DEF ProfileInv, ProfileTypes, UnhinderedRight
<1>5. IsIndex(c.rows, prIds) /\ AreUpdates(c.resync, prIds) /\ ArePrompts(c.docs, prIds)
  BY <1>1, <1>4 DEF Remembers, GoesOn, LoopKnows
<1>6. rec.at = "sync" /\ rec.resync = c.resync /\ rec.unflagged = u
      /\ rec = Syncing(rec.resync, rec.unflagged)
  BY DEF Syncing
<1>7. /\ IsIndex(rows, prIds) /\ DOMAIN rows = DOMAIN prRows
      /\ \A r \in DOMAIN prRows : Tells(rows[r], prRows[r])
      /\ moved => \A r \in DOMAIN prRows : rows[r].def = (r = want)
  <2> DEFINE Q == WithDefault(prRows, want)
  <2>1. /\ IsIndex(Q, prIds) /\ DOMAIN Q = DOMAIN prRows
        /\ \A r \in DOMAIN prRows : Q[r].name = prRows[r].name /\ Q[r].text = prRows[r].text
                                    /\ Q[r].def = (r = want)
    <3> HIDE DEF want
    <3>1. DOMAIN Q = DOMAIN prRows
      BY DefaultIs
    <3>2. IsIndex(Q, prIds)
      BY <1>4, DefaultIs
    <3>3. \A r \in DOMAIN prRows : Q[r].name = prRows[r].name /\ Q[r].text = prRows[r].text
                                   /\ Q[r].def = (r = want)
      BY DefaultIs
    <3> QED BY <3>1, <3>2, <3>3
  <2>2. rows = IF moved THEN Q ELSE prRows
    OBVIOUS
  <2> HIDE DEF rows, Q, moved, want, c
  <2> QED BY <1>4, <2>1, <2>2 DEF Tells
<1> HIDE DEF rec, rows
<1>8. Remembers(rec, prIds)
  BY <1>5, <1>6 DEF Remembers, GoesOn, LoopKnows
<1>9. ASSUME p \in prAlone PROVE Unhindered(rec, rows, prFiles)
  <2>1. InLoop(c, prRows, prFiles)
    BY <1>1, <1>4, <1>9 DEF Unhindered
  <2>2. DOMAIN prRows \subseteq c.seen
    BY <1>1, <2>1 DEF Unseen, InLoop, Followed
  <2>3. /\ DOMAIN prFiles = DOMAIN c.docs
        /\ \A f \in DOMAIN prFiles : /\ c.docs[f].id = prFiles[f].id /\ c.docs[f].name = prFiles[f].name
                                     /\ c.docs[f].def = prFiles[f].def
    BY <1>4, <2>1, ReadIs DEF InLoop, SameFiles, ArePrompts
  <2>4. ASSUME ~u PROVE FlagKept(JobsOf(c.resync, prFiles), rows, prFiles)
    <3>1. flagged = Flagged(prFiles)
      BY <2>3 DEF Flagged
    <3> DEFINE w == FirstOf(prFiles, Flagged(prFiles))
    <3>2. SUFFICES ASSUME flagged # {}
                   PROVE  /\ prFiles[w].id \in DOMAIN rows => rows[prFiles[w].id].def
                          /\ \A d \in JobsOf(c.resync, prFiles) : d.id # prFiles[w].id
      BY <3>1 DEF FlagKept
    <3>3. w \in flagged
      <4>1. \A f \in Flagged(prFiles) : prFiles[f].name \in PNames /\ prFiles[f].def \in BOOLEAN
        BY <1>4 DEF Flagged, ArePrompts, IsPrompt
      <4> QED BY <3>1, <3>2, <4>1, FirstIs
    <3>4. FirstOf(c.docs, flagged) = w
      <4>1. \A f \in flagged : c.docs[f].name = prFiles[f].name /\ c.docs[f].def = prFiles[f].def
        BY <2>3
      <4> HIDE DEF flagged, w
      <4> QED BY <1>4, <3>1, <3>3, <4>1, FirstStays DEF w
    <3> HIDE DEF w
    <3>5. want = prFiles[w].id
      BY <2>3, <3>3, <3>4
    <3>6. want \in DOMAIN rows => moved
      BY <1>7, <3>2
    <3>7. want \in DOMAIN rows => rows[want].def
      BY <1>7, <3>6
    <3>8. ASSUME NEW d \in JobsOf(c.resync, prFiles) PROVE d.id # want
      <4>1. PICK x \in DOMAIN c.resync : d = Doc(x, c.resync[x]) /\ ~c.resync[x].def
        BY DEF JobsOf
      <4>2. d.id = x /\ x \in DOMAIN rows
        BY <1>7, <2>1, <4>1 DEF Doc, InLoop, Updated
      <4> QED BY <2>4, <3>6, <4>1, <4>2
    <3> HIDE DEF want
    <3> QED BY <3>5, <3>7, <3>8
  <2> HIDE DEF u
  <2>5. Rewriting(JobsOf(c.resync, prFiles), {}, u, rows, prFiles)
    BY <1>1, <1>4, <1>5, <1>7, <2>1, <2>2, <2>4, LoopsOver
  <2> QED BY <1>6, <2>5 DEF Unhindered
<1>10. /\ prIds' \in Nat /\ prIds <= prIds' /\ Remembers(rec, prIds') /\ IsIndex(rows, prIds')
       /\ ArePrompts(prFiles, prIds')
  BY <1>1, <1>4, <1>7, <1>8
<1> QED BY <1>1, <1>3, <1>9, <1>10, ProfileTurn

-----------------------------------------------------------------------------
(* One file of the loop.                                                    *)

LEMMA ProfileOfIs ==
    ASSUME NEW c, NEW ids, IsIndex(c.rows, ids), NEW d, NEW r, r = ProfileOf(c, d)
    PROVE  /\ r # None => /\ r \in DOMAIN c.rows
                          /\ IF d.id \in DOMAIN c.rows THEN r = d.id ELSE c.rows[r].name = d.name
           /\ r = None => d.id \notin DOMAIN c.rows /\ \A k \in DOMAIN c.rows : c.rows[k].name # d.name
<1> DEFINE same == {k \in DOMAIN c.rows : c.rows[k].name = d.name}
<1>1. None \notin DOMAIN c.rows
  BY DEF IsIndex, None
<1>2. CASE d.id \in DOMAIN c.rows
  BY <1>1, <1>2 DEF ProfileOf
<1>3. CASE d.id \notin DOMAIN c.rows
  <2>1. r = IF same = {} THEN None ELSE CHOOSE k \in same : TRUE
    BY <1>3 DEF ProfileOf
  <2>2. CASE same = {}
    BY <1>3, <2>1, <2>2
  <2>3. CASE same # {}
    <3>1. r \in same
      BY <2>1, <2>3
    <3> QED BY <1>1, <1>3, <3>1
  <2> QED BY <2>2, <2>3
<1> QED BY <1>2, <1>3

\* The loop stands before file f.
AtPrompt(c, f, R, F, ids) ==
    /\ ArePrompts(c.docs, ids) /\ IsIndex(c.rows, ids) /\ c.todo \subseteq DOMAIN c.docs /\ f \in c.todo
    /\ InLoop(c, R, F)
\* Where it stands afterwards.
Past(c, f, n) == /\ n.docs = c.docs /\ n.rows = c.rows /\ n.todo = c.todo \ {f}

LEMMA OneFileEach ==
    ASSUME NEW c, NEW f, NEW R, NEW F, NEW ids, AtPrompt(c, f, R, F, ids)
    PROVE  /\ \A g, h \in DOMAIN c.docs : c.docs[g].name = c.docs[h].name => g = h
           /\ f \in DOMAIN c.docs /\ f \notin Visited(c) /\ Visited(c) \subseteq DOMAIN c.docs
           /\ \A n : Past(c, f, n) => Visited(n) = Visited(c) \cup {f}
BY DEF AtPrompt, ArePrompts, Visited, Past

\* Nobody but the row of the file has the file's name.
LEMMA NameIsFree ==
    ASSUME NEW c, NEW f, NEW R, NEW F, NEW ids, AtPrompt(c, f, R, F, ids),
           NEW k \in DOMAIN R, R[k].name = c.docs[f].name
    PROVE  k = ProfileOf(c, c.docs[f])
<1> DEFINE r == ProfileOf(c, c.docs[f])
<1>1. /\ r # None => IF c.docs[f].id \in DOMAIN c.rows THEN r = c.docs[f].id
                     ELSE r \in DOMAIN c.rows /\ c.rows[r].name = c.docs[f].name
      /\ r = None => c.docs[f].id \notin DOMAIN c.rows
                     /\ \A j \in DOMAIN c.rows : c.rows[j].name # c.docs[f].name
  BY ProfileOfIs DEF AtPrompt
<1> HIDE DEF r
<1>2. Apart(c.docs, c.rows) /\ Followed(c, R) /\ f \in DOMAIN c.docs
  BY OneFileEach DEF AtPrompt, InLoop
<1>3. ~ \E g \in Visited(c) : R[k].name = c.docs[g].name /\ MayHave(c, g, k)
  BY OneFileEach
<1>4. k \in DOMAIN c.rows /\ c.rows[k].name = c.docs[f].name
  BY <1>2, <1>3 DEF Followed, Tells
<1>5. k = c.docs[f].id \/ c.docs[f].id \notin DOMAIN c.rows
  BY <1>2, <1>4 DEF Apart
<1>6. \A j \in DOMAIN c.rows : c.rows[j].name = c.rows[k].name => j = k
  BY <1>4 DEF AtPrompt, IsIndex
<1>7. k = r
  BY <1>1, <1>4, <1>5, <1>6
<1> QED BY <1>7 DEF r

\* A file of an unknown name is adopted.
LEMMA AdoptedGoesOn ==
    ASSUME NEW ids \in Nat, NEW c, NEW f, NEW R, NEW F, AtPrompt(c, f, R, F, ids),
           ProfileOf(c, c.docs[f]) = None,
           NEW Q, DOMAIN Q = DOMAIN R \cup {ids + 1}, Tells(Q[ids + 1], c.docs[f]),
           \A r \in DOMAIN R : Tells(Q[r], R[r]),
           NEW n, Past(c, f, n), n.seen = c.seen \cup {ids + 1}, n.resync = c.resync
    PROVE  InLoop(n, Q, F)
<1> DEFINE d == c.docs[f]
           i == ids + 1
<1>1. /\ SameFiles(c, F) /\ Apart(c.docs, c.rows) /\ Followed(c, R) /\ Updated(c, R)
  BY DEF AtPrompt, InLoop
<1>2. d.id \notin DOMAIN c.rows
  BY ProfileOfIs DEF AtPrompt
<1>3. /\ n.docs = c.docs /\ n.rows = c.rows /\ n.todo = c.todo \ {f}
      /\ Visited(n) = Visited(c) \cup {f} /\ f \in DOMAIN c.docs
      /\ \A g, r : MayHave(n, g, r) = MayHave(c, g, r)
  BY OneFileEach DEF Past, MayHave
<1>4. i \notin DOMAIN c.rows /\ \A g \in DOMAIN c.docs : c.docs[g].id # i
  BY DEF AtPrompt, IsIndex, ArePrompts, IsPrompt
<1>5. MayHave(c, f, i)
  BY <1>2, <1>4 DEF MayHave
<1>6. i \in DOMAIN Q /\ i \in n.seen /\ Q[i].name = d.name
  BY DEF Tells
<1>7. \A r \in DOMAIN R : r \in DOMAIN Q /\ Q[r].name = R[r].name /\ Q[r].text = R[r].text
  BY DEF Tells
<1> HIDE DEF i
<1>8. ASSUME NEW g \in Visited(n)
      PROVE  \/ \E r \in DOMAIN Q \cap n.seen : Tells(Q[r], n.docs[g]) /\ MayHave(n, g, r)
             \/ /\ n.docs[g].id \in DOMAIN n.rows
                /\ \E h \in Visited(n) \ {g} : n.docs[h].id = n.docs[g].id
  <2>1. CASE g = f
    BY <1>3, <1>5, <1>6, <2>1 DEF i
  <2>2. CASE g \in Visited(c)
    <3>1. CASE \E r \in DOMAIN R \cap c.seen : Tells(R[r], c.docs[g]) /\ MayHave(c, g, r)
      BY <1>3, <1>7, <3>1 DEF Tells
    <3>2. CASE /\ c.docs[g].id \in DOMAIN c.rows
               /\ \E h \in Visited(c) \ {g} : c.docs[h].id = c.docs[g].id
      BY <1>3, <3>2
    <3> QED BY <1>1, <2>2, <3>1, <3>2 DEF Followed
  <2> QED BY <1>3, <2>1, <2>2
<1>9. ASSUME NEW r \in DOMAIN Q
      PROVE  \/ r \in DOMAIN n.rows /\ Tells(Q[r], n.rows[r])
             \/ \E g \in Visited(n) : Q[r].name = n.docs[g].name /\ MayHave(n, g, r)
  <2>1. CASE r = i
    BY <1>3, <1>5, <1>6, <2>1
  <2>2. CASE r \in DOMAIN R
    BY <1>1, <1>3, <1>7, <2>2 DEF Followed, Tells
  <2> QED BY <2>1, <2>2 DEF i
<1>10. \A r \in n.seen : r \in DOMAIN Q /\ \E g \in Visited(n) : Q[r].name = n.docs[g].name
  BY <1>1, <1>3, <1>6, <1>7 DEF Followed, i
<1>11. \A r \in DOMAIN Q \ DOMAIN n.rows : r \in n.seen /\ \A g \in DOMAIN n.docs : n.docs[g].id # r
  BY <1>1, <1>3, <1>4, <1>6 DEF Followed, i
<1>12. n.todo # {} => DOMAIN n.rows \subseteq DOMAIN Q
  BY <1>1, <1>3 DEF Followed
<1>13. Followed(n, Q)
  BY <1>8, <1>9, <1>10, <1>11, <1>12 DEF Followed
<1>14. Updated(n, Q)
  BY <1>1, <1>3, <1>7 DEF Updated, Tells
<1>15. SameFiles(n, F) /\ Apart(n.docs, n.rows)
  BY <1>1, <1>3 DEF SameFiles
<1> QED BY <1>13, <1>14, <1>15 DEF InLoop

\* A row follows its file; it keeps the name it has only when another file with
\* its id was visited before.
LEMMA FollowedGoesOn ==
    ASSUME NEW ids \in Nat, NEW c, NEW f, NEW R, NEW F, AtPrompt(c, f, R, F, ids),
           NEW r, r = ProfileOf(c, c.docs[f]), r # None,
           NEW Q, DOMAIN Q = DOMAIN R, \A k \in DOMAIN R \ {r} : Q[k] = R[k],
           \/ Tells(Q[r], c.docs[f])
           \/ ~Tells(R[r], c.rows[r]) /\ Q[r].name \in {R[r].name, c.docs[f].name},
           NEW n, Past(c, f, n), n.seen = c.seen \cup {r},
           DOMAIN n.resync = DOMAIN c.resync \cup {r}, n.resync[r] = Q[r],
           \A x \in DOMAIN c.resync \ {r} : n.resync[x] = c.resync[x]
    PROVE  InLoop(n, Q, F)
<1> DEFINE d == c.docs[f]
<1>1. /\ SameFiles(c, F) /\ Apart(c.docs, c.rows) /\ Followed(c, R) /\ Updated(c, R)
  BY DEF AtPrompt, InLoop
<1>2. /\ r \in DOMAIN c.rows
      /\ IF d.id \in DOMAIN c.rows THEN r = d.id ELSE c.rows[r].name = d.name
  BY ProfileOfIs DEF AtPrompt
<1>3. /\ n.docs = c.docs /\ n.rows = c.rows /\ n.todo = c.todo \ {f}
      /\ Visited(n) = Visited(c) \cup {f} /\ f \in DOMAIN c.docs /\ f \notin Visited(c)
      /\ Visited(c) \subseteq DOMAIN c.docs
      /\ \A g, k : MayHave(n, g, k) = MayHave(c, g, k)
      /\ \A g, h \in DOMAIN c.docs : c.docs[g].name = c.docs[h].name => g = h
  BY OneFileEach DEF Past, MayHave
<1>4. r \in DOMAIN R
  BY <1>1, <1>2 DEF Followed, AtPrompt
<1>5. MayHave(c, f, r)
  BY <1>2 DEF MayHave
<1>7. d.id = r \/ \A g \in DOMAIN c.docs : c.docs[g].id # r
  BY <1>1, <1>2, <1>3 DEF Apart
<1>6. \/ Q[r].name = d.name /\ Q[r].text = d.text
      \/ \E g \in Visited(c) : /\ R[r].name = c.docs[g].name /\ MayHave(c, g, r)
                              /\ c.docs[g].id = r /\ d.id = r /\ Q[r].name \in {R[r].name, d.name}
  <2>1. CASE Tells(Q[r], d)
    BY <2>1 DEF Tells
  <2>2. CASE ~Tells(R[r], c.rows[r]) /\ Q[r].name \in {R[r].name, d.name}
    <3>1. PICK g \in Visited(c) : R[r].name = c.docs[g].name /\ MayHave(c, g, r)
      BY <1>1, <1>4, <2>2 DEF Followed
    <3>2. c.docs[g].id \in DOMAIN c.rows
      <4>1. SUFFICES ASSUME c.docs[g].id \notin DOMAIN c.rows PROVE FALSE
        OBVIOUS
      <4>2. c.rows[r].name = c.docs[g].name
        BY <1>2, <3>1, <4>1 DEF MayHave
      <4>3. \A h \in DOMAIN c.docs : c.docs[h].id # r
        BY <1>1, <1>2, <1>3, <4>1, <4>2 DEF Apart
      <4>4. c.rows[r].name = d.name
        BY <1>2, <1>3, <4>3
      <4> QED BY <1>3, <4>2, <4>4
    <3>3. c.docs[g].id = r
      BY <3>1, <3>2 DEF MayHave
    <3>4. d.id = r
      BY <1>3, <1>7, <3>3
    <3> QED BY <2>2, <3>1, <3>3, <3>4
  <2> QED BY <2>1, <2>2
<1>8. ASSUME NEW g \in Visited(n)
      PROVE  \/ \E k \in DOMAIN Q \cap n.seen : Tells(Q[k], n.docs[g]) /\ MayHave(n, g, k)
             \/ /\ n.docs[g].id \in DOMAIN n.rows
                /\ \E h \in Visited(n) \ {g} : n.docs[h].id = n.docs[g].id
  <2>1. CASE g = f
    <3>1. CASE Q[r].name = d.name /\ Q[r].text = d.text
      BY <1>3, <1>4, <1>5, <2>1, <3>1 DEF Tells
    <3>2. CASE \E h \in Visited(c) : c.docs[h].id = r /\ d.id = r
      BY <1>2, <1>3, <2>1, <3>2
    <3> QED BY <1>6, <3>1, <3>2
  <2>2. CASE g \in Visited(c)
    <3>1. ASSUME NEW k \in DOMAIN R \cap c.seen, Tells(R[k], c.docs[g]), MayHave(c, g, k), k # r
          PROVE  \E j \in DOMAIN Q \cap n.seen : Tells(Q[j], n.docs[g]) /\ MayHave(n, g, j)
      BY <1>3, <3>1
    <3>2. ASSUME r \in DOMAIN R \cap c.seen, Tells(R[r], c.docs[g]), MayHave(c, g, r)
          PROVE  /\ n.docs[g].id \in DOMAIN n.rows
                 /\ \E h \in Visited(n) \ {g} : n.docs[h].id = n.docs[g].id
      <4>1. g # f /\ g \in DOMAIN c.docs
        BY <1>3, <2>2
      <4>2. CASE c.docs[g].id \in DOMAIN c.rows
        <5>1. c.docs[g].id = r
          BY <3>2, <4>2 DEF MayHave
        <5>2. d.id = r
          BY <1>7, <4>1, <5>1
        <5> QED BY <1>3, <4>1, <4>2, <5>1, <5>2
      <4>3. CASE c.docs[g].id \notin DOMAIN c.rows
        <5>1. c.rows[r].name = c.docs[g].name
          BY <1>2, <3>2, <4>3 DEF MayHave
        <5>2. \A h \in DOMAIN c.docs : c.docs[h].id # r
          BY <1>1, <1>2, <4>1, <4>3, <5>1 DEF Apart
        <5>3. d.id # r
          BY <1>3, <5>2
        <5>4. c.rows[r].name = d.name
          BY <1>2, <5>3
        <5>5. g = f
          BY <1>3, <4>1, <5>1, <5>4
        <5> QED BY <4>1, <5>5
      <4> QED BY <4>2, <4>3
    <3>3. CASE /\ c.docs[g].id \in DOMAIN c.rows
               /\ \E h \in Visited(c) \ {g} : c.docs[h].id = c.docs[g].id
      BY <1>3, <3>3
    <3> QED BY <1>1, <2>2, <3>1, <3>2, <3>3 DEF Followed
  <2> QED BY <1>3, <2>1, <2>2
<1>9. ASSUME NEW k \in DOMAIN Q
      PROVE  \/ k \in DOMAIN n.rows /\ Tells(Q[k], n.rows[k])
             \/ \E g \in Visited(n) : Q[k].name = n.docs[g].name /\ MayHave(n, g, k)
  <2>1. CASE k = r
    BY <1>3, <1>5, <1>6, <2>1
  <2>2. CASE k # r
    BY <1>1, <1>3, <2>2 DEF Followed
  <2> QED BY <2>1, <2>2
<1>10. \A k \in n.seen : k \in DOMAIN Q /\ \E g \in Visited(n) : Q[k].name = n.docs[g].name
  BY <1>1, <1>3, <1>4, <1>6 DEF Followed
<1>11. \A k \in DOMAIN Q \ DOMAIN n.rows : k \in n.seen /\ \A g \in DOMAIN n.docs : n.docs[g].id # k
  BY <1>1, <1>3 DEF Followed
<1>12. n.todo # {} => DOMAIN n.rows \subseteq DOMAIN Q
  BY <1>1, <1>3 DEF Followed
<1>13. Followed(n, Q)
  BY <1>8, <1>9, <1>10, <1>11, <1>12 DEF Followed
<1>14. ASSUME NEW x \in DOMAIN n.resync
       PROVE  /\ x \in DOMAIN Q \cap n.seen /\ Tells(Q[x], n.resync[x])
              /\ \E g \in Visited(n) : /\ n.docs[g].name = Q[x].name
                                       /\ n.docs[g].id = x \/ \A h \in DOMAIN n.docs : n.docs[h].id # x
  <2>1. CASE x = r
    BY <1>3, <1>4, <1>6, <1>7, <2>1 DEF Tells
  <2>2. CASE x # r
    BY <1>1, <1>3, <2>2 DEF Updated
  <2> QED BY <2>1, <2>2
<1>15. Updated(n, Q)
  BY <1>14 DEF Updated
<1>16. SameFiles(n, F) /\ Apart(n.docs, n.rows)
  BY <1>1, <1>3 DEF SameFiles
<1> QED BY <1>13, <1>15, <1>16 DEF InLoop

\* A row that says what its file says is only counted as seen.
LEMMA SeenGoesOn ==
    ASSUME NEW ids \in Nat, NEW c, NEW f, NEW R, NEW F, AtPrompt(c, f, R, F, ids),
           NEW r, r = ProfileOf(c, c.docs[f]), r # None, Tells(c.rows[r], c.docs[f]),
           NEW n, Past(c, f, n), n.seen = c.seen \cup {r}, n.resync = c.resync
    PROVE  InLoop(n, R, F)
<1> DEFINE d == c.docs[f]
<1>1. /\ SameFiles(c, F) /\ Apart(c.docs, c.rows) /\ Followed(c, R) /\ Updated(c, R)
  BY DEF AtPrompt, InLoop
<1>2. /\ r \in DOMAIN c.rows /\ c.rows[r].name = d.name /\ c.rows[r].text = d.text
      /\ d.id \in DOMAIN c.rows => r = d.id
  BY ProfileOfIs DEF AtPrompt, Tells
<1>3. /\ n.docs = c.docs /\ n.rows = c.rows /\ n.todo = c.todo \ {f}
      /\ Visited(n) = Visited(c) \cup {f} /\ f \in DOMAIN c.docs /\ f \notin Visited(c)
      /\ Visited(c) \subseteq DOMAIN c.docs
      /\ \A g, k : MayHave(n, g, k) = MayHave(c, g, k)
      /\ \A g, h \in DOMAIN c.docs : c.docs[g].name = c.docs[h].name => g = h
  BY OneFileEach DEF Past, MayHave
<1>4. r \in DOMAIN R
  BY <1>1, <1>2 DEF Followed, AtPrompt
<1>5. MayHave(c, f, r)
  BY <1>2 DEF MayHave
<1>6. d.id = r \/ \A g \in DOMAIN c.docs : c.docs[g].id # r
  BY <1>1, <1>2, <1>3 DEF Apart
<1>7. \/ R[r].name = d.name /\ R[r].text = d.text
      \/ \E g \in Visited(c) : R[r].name = c.docs[g].name /\ c.docs[g].id = r /\ d.id = r
  <2>1. CASE Tells(R[r], c.rows[r])
    BY <1>2, <2>1 DEF Tells
  <2>2. ASSUME NEW g \in Visited(c), R[r].name = c.docs[g].name, MayHave(c, g, r)
        PROVE  c.docs[g].id = r /\ d.id = r
    <3>1. c.docs[g].id \in DOMAIN c.rows
      <4>1. SUFFICES ASSUME c.docs[g].id \notin DOMAIN c.rows PROVE FALSE
        OBVIOUS
      <4>2. c.rows[r].name = c.docs[g].name
        BY <1>2, <2>2, <4>1 DEF MayHave
      <4> QED BY <1>2, <1>3, <4>2
    <3>2. c.docs[g].id = r
      BY <2>2, <3>1 DEF MayHave
    <3> QED BY <1>3, <1>6, <3>2
  <2> QED BY <1>1, <1>4, <2>1, <2>2 DEF Followed
<1>8. ASSUME NEW g \in Visited(n)
      PROVE  \/ \E k \in DOMAIN R \cap n.seen : Tells(R[k], n.docs[g]) /\ MayHave(n, g, k)
             \/ /\ n.docs[g].id \in DOMAIN n.rows
                /\ \E h \in Visited(n) \ {g} : n.docs[h].id = n.docs[g].id
  <2>1. CASE g = f
    <3>1. CASE R[r].name = d.name /\ R[r].text = d.text
      BY <1>3, <1>4, <1>5, <2>1, <3>1 DEF Tells
    <3>2. CASE \E h \in Visited(c) : R[r].name = c.docs[h].name /\ c.docs[h].id = r /\ d.id = r
      BY <1>2, <1>3, <2>1, <3>2
    <3> QED BY <1>7, <3>1, <3>2
  <2>2. CASE g \in Visited(c)
    BY <1>1, <1>3, <2>2 DEF Followed
  <2> QED BY <1>3, <2>1, <2>2
<1>9. \A k \in DOMAIN R : \/ k \in DOMAIN n.rows /\ Tells(R[k], n.rows[k])
                          \/ \E g \in Visited(n) : R[k].name = n.docs[g].name /\ MayHave(n, g, k)
  BY <1>1, <1>3 DEF Followed
<1>10. \A k \in n.seen : k \in DOMAIN R /\ \E g \in Visited(n) : R[k].name = n.docs[g].name
  BY <1>1, <1>3, <1>4, <1>7 DEF Followed
<1>11. \A k \in DOMAIN R \ DOMAIN n.rows : k \in n.seen /\ \A g \in DOMAIN n.docs : n.docs[g].id # k
  BY <1>1, <1>3 DEF Followed
<1>12. n.todo # {} => DOMAIN n.rows \subseteq DOMAIN R
  BY <1>1, <1>3 DEF Followed
<1>13. Followed(n, R)
  BY <1>8, <1>9, <1>10, <1>11, <1>12 DEF Followed
<1>14. Updated(n, R)
  BY <1>1, <1>3 DEF Updated
<1>15. SameFiles(n, F) /\ Apart(n.docs, n.rows)
  BY <1>1, <1>3 DEF SameFiles
<1> QED BY <1>13, <1>14, <1>15 DEF InLoop

\* What follows a file of the loop, with its id stamped or not.
Stamping(d, id, then) == IF d.id = id THEN then ELSE Write({Doc(id, d)}, then)

LEMMA NextRemembered ==
    ASSUME NEW ids, NEW c, c.at = "docs", LoopKnows(c, ids), NEW f, NEW n, Past(c, f, n), n.at = "docs",
           n = Visiting(n.docs, n.rows, n.todo, n.seen, n.resync), AreUpdates(n.resync, ids)
    PROVE  GoesOn(n, ids)
<1>1. LoopKnows(n, ids)
  BY DEF LoopKnows, Past
<1> QED BY <1>1 DEF GoesOn

LEMMA StampedIs ==
    ASSUME NEW ids \in Nat, NEW d, NEW id \in 0..ids, d.name \in PNames, d.def \in BOOLEAN,
           NEW n, n.at = "docs", GoesOn(n, ids)
    PROVE  /\ Remembers(Stamping(d, id, n), ids)
           /\ \A R, F : /\ InLoop(n, R, F)
                        /\ \/ d.id = id
                           \/ Slug[d.name] \in DOMAIN F /\ \A g \in DOMAIN F : F[g].id # id
                        => Unhindered(Stamping(d, id, n), R, F)
<1>1. IsPrompt(Doc(id, d), ids) /\ Doc(id, d).id = id /\ Doc(id, d).name = d.name
  BY DocOfRow
<1> DEFINE e == Doc(id, d)
<1> HIDE DEF e
<1>2. IsPrompt(e, ids) /\ e.id = id /\ e.name = d.name
  BY <1>1 DEF e
<1>3. CASE d.id = id
  <2>1. Stamping(d, id, n) = n
    BY <1>3 DEF Stamping
  <2>2. Remembers(n, ids)
    BY DEF Remembers
  <2>3. \A R, F : InLoop(n, R, F) => Unhindered(n, R, F)
    BY DEF Unhindered
  <2> QED BY <2>1, <2>2, <2>3
<1>4. CASE d.id # id
  <2>1. Stamping(d, id, n) = Write({e}, n)
    BY <1>4 DEF Stamping, e
  <2>2. Remembers(Write({e}, n), ids)
    BY <1>2, WriteRemembered
  <2>3. ASSUME NEW R, NEW F, InLoop(n, R, F),
               Slug[d.name] \in DOMAIN F /\ \A g \in DOMAIN F : F[g].id # id
        PROVE  Unhindered(Write({e}, n), R, F)
    <3>1. \A i \in {e} : Slug[i.name] \in DOMAIN F /\ \A g \in DOMAIN F : F[g].id # i.id
      BY <1>2, <2>3
    <3> QED BY <2>3, <3>1, WriteUnhindered
  <2> QED BY <1>4, <2>1, <2>2, <2>3
<1> QED BY <1>3, <1>4

\* Where the id to stamp is not the one the file has, no file has it.
LEMMA StampIsNew ==
    ASSUME NEW ids, NEW c, NEW f, NEW R, NEW F, ArePrompts(F, ids), AtPrompt(c, f, R, F, ids),
           NEW r, r = ProfileOf(c, c.docs[f]), r # None
    PROVE  \/ c.docs[f].id = r
           \/ Slug[c.docs[f].name] \in DOMAIN F /\ \A g \in DOMAIN F : F[g].id # r
<1>1. /\ Apart(c.docs, c.rows) /\ DOMAIN F = DOMAIN c.docs /\ f \in DOMAIN c.docs
      /\ \A g \in DOMAIN F : c.docs[g].id = F[g].id
      /\ Slug[c.docs[f].name] = f
  BY ReadIs, OneFileEach DEF AtPrompt, InLoop, SameFiles, ArePrompts
<1>2. /\ r \in DOMAIN c.rows
      /\ IF c.docs[f].id \in DOMAIN c.rows THEN r = c.docs[f].id ELSE c.rows[r].name = c.docs[f].name
  BY ProfileOfIs DEF AtPrompt
<1> QED BY <1>1, <1>2 DEF Apart

\* The table after a file was adopted.
LEMMA AdoptedIs ==
    ASSUME prIds \in Nat, IsIndex(prRows, prIds), NEW d, d.name \in PNames, d.def \in BOOLEAN,
           ~Taken(d.name, None)
    PROVE  LET rows == Inserted(d.name, d.text, d.def)
               i == prIds + 1
           IN  /\ IsIndex(rows, i) /\ DOMAIN rows = DOMAIN prRows \cup {i}
               /\ rows[i].name = d.name /\ rows[i].text = d.text
               /\ \A k \in DOMAIN prRows : Tells(rows[k], prRows[k])
<1> DEFINE n == d.name
           t == d.text
           i == prIds + 1
<1>1. n \in PNames /\ ~Taken(n, None)
  OBVIOUS
<1>3. PICK b \in BOOLEAN : b = d.def
  OBVIOUS
<1> HIDE DEF n, t
<1> DEFINE rows == Inserted(n, t, b)
<1>2. /\ IsIndex(rows, i) /\ DOMAIN rows = DOMAIN prRows \cup {i}
      /\ rows[i].name = n /\ rows[i].text = t
      /\ \A k \in DOMAIN prRows : Tells(rows[k], prRows[k])
  <2>1. IsIndex(rows, i)
    BY <1>1, InsertedIs
  <2>2. DOMAIN rows = DOMAIN prRows \cup {i}
    BY DEF Inserted, With, WithDefault
  <2>3. rows[i].name = n /\ rows[i].text = t
    BY <1>1, InsertedIs
  <2>4. \A k \in DOMAIN prRows : Tells(rows[k], prRows[k])
    BY <1>1, InsertedIs
  <2> QED BY <2>1, <2>2, <2>3, <2>4
<1> QED BY <1>2, <1>3 DEF n, t

LEMMA ReconcilePromptKeeps ==
    ASSUME ProfileAssumption, ProfileInv, NEW p \in PProcs, ReconcilePrompt(p)
    PROVE  ProfileInv'
<1> DEFINE c == prPc[p]
           f == FirstOf(c.docs, c.todo)
           d == c.docs[f]
           r == ProfileOf(c, d)
           next(seen, resync) == Visiting(c.docs, c.rows, c.todo \ {f}, seen, resync)
           row == Synced(c, r, d)
           differs == Differs(c.rows[r], d)
           refused == r \in DOMAIN prRows => Taken(row.name, r)
           i == prIds + 1
<1>1. c.at = "docs" /\ c.todo # {}
  BY DEF ReconcilePrompt
<1>2. \/ /\ r = None /\ Taken(d.name, None)
         /\ prPc' = [prPc EXCEPT ![p] = next(c.seen, c.resync)] /\ NoWrite /\ prIds' = prIds
      \/ /\ r = None /\ ~Taken(d.name, None) /\ prIds' = i
         /\ Save(p, Inserted(d.name, d.text, d.def), prFiles)
         /\ prPc' = [prPc EXCEPT ![p] = Stamping(d, i, next(c.seen \cup {i}, c.resync))]
      \/ /\ r # None /\ differs /\ refused
         /\ prPc' = [prPc EXCEPT ![p] = next(c.seen \cup {r}, c.resync)] /\ NoWrite /\ prIds' = prIds
      \/ /\ r # None /\ differs /\ ~refused
         /\ Save(p, With(prRows, r, row), prFiles) /\ prIds' = prIds
         /\ prPc' = [prPc EXCEPT ![p] = Stamping(d, r, next(c.seen \cup {r}, With(c.resync, r, row)))]
      \/ /\ r # None /\ ~differs
         /\ prPc' = [prPc EXCEPT ![p] = Stamping(d, r, next(c.seen \cup {r}, c.resync))]
         /\ NoWrite /\ prIds' = prIds
  BY DEF ReconcilePrompt, Jump, Stamping
<1>3. /\ prIds \in Nat /\ IsIndex(prRows, prIds) /\ ArePrompts(prFiles, prIds) /\ Remembers(c, prIds)
      /\ p \in prAlone => Unhindered(c, prRows, prFiles)
  BY DEF ProfileInv, ProfileTypes, UnhinderedRight
<1>4. LoopKnows(c, prIds)
  BY <1>1, <1>3 DEF Remembers, GoesOn
<1>5. /\ ArePrompts(c.docs, prIds) /\ IsIndex(c.rows, prIds) /\ c.todo \subseteq DOMAIN c.docs
      /\ AreUpdates(c.resync, prIds)
  BY <1>1, <1>4 DEF LoopKnows
<1>6. f \in c.todo
  <2>1. \A g \in c.todo : c.docs[g].name \in PNames /\ c.docs[g].def \in BOOLEAN
    BY <1>5 DEF ArePrompts, IsPrompt
  <2> QED BY <1>1, <2>1, FirstIs
<1>7. p \in prAlone => AtPrompt(c, f, prRows, prFiles, prIds)
  BY <1>1, <1>3, <1>5, <1>6 DEF AtPrompt, Unhindered
<1>8. d.name \in PNames /\ d.def \in BOOLEAN /\ d.id \in 0..prIds
  BY <1>5, <1>6 DEF ArePrompts, IsPrompt
<1>9. r # None => r \in DOMAIN c.rows /\ r \in 0..prIds
  <2>1. r # None => r \in DOMAIN c.rows
    <3>1. r = ProfileOf(c, d)
      OBVIOUS
    <3> HIDE DEF r, d, c
    <3> QED BY <1>5, <3>1, ProfileOfIs
  <2> HIDE DEF r, c
  <2> QED BY <1>3, <1>5, <2>1 DEF IsIndex
<1> HIDE DEF f
<1>10. p \in prAlone => \A k \in DOMAIN prRows : prRows[k].name = d.name => k = r
  BY <1>7, NameIsFree
<1>11. CASE /\ r = None /\ Taken(d.name, None)
            /\ prPc' = [prPc EXCEPT ![p] = next(c.seen, c.resync)] /\ NoWrite /\ prIds' = prIds
  <2> DEFINE n == next(c.seen, c.resync)
  <2>1. GoesOn(n, prIds) /\ n.at = "docs"
    <3>1. /\ n.at = "docs" /\ Past(c, f, n) /\ n.resync = c.resync
          /\ n = Visiting(n.docs, n.rows, n.todo, n.seen, n.resync)
      BY VisitingIs DEF Past
    <3> HIDE DEF n, c
    <3> QED BY <1>1, <1>4, <1>5, <3>1, NextRemembered
  <2>2. p \notin prAlone
    BY <1>10, <1>11 DEF Taken
  <2> HIDE DEF n
  <2>3. Remembers(n, prIds)
    BY <2>1 DEF Remembers
  <2> QED BY <1>11, <2>2, <2>3, ProfileTurnOnly DEF n
<1>12. CASE /\ r # None /\ differs /\ refused
            /\ prPc' = [prPc EXCEPT ![p] = next(c.seen \cup {r}, c.resync)] /\ NoWrite /\ prIds' = prIds
  <2> DEFINE n == next(c.seen \cup {r}, c.resync)
  <2>1. GoesOn(n, prIds) /\ n.at = "docs"
    <3>1. /\ n.at = "docs" /\ Past(c, f, n) /\ n.resync = c.resync
          /\ n = Visiting(n.docs, n.rows, n.todo, n.seen, n.resync)
      BY VisitingIs DEF Past
    <3> HIDE DEF n, c
    <3> QED BY <1>1, <1>4, <1>5, <3>1, NextRemembered
  <2>2. ASSUME p \in prAlone PROVE FALSE
    <3>1. r \in DOMAIN prRows
      BY <1>1, <1>7, <1>9, <1>12, <2>2 DEF AtPrompt, InLoop, Followed
    <3>2. PICK k \in DOMAIN prRows \ {r} : prRows[k].name = row.name
      BY <1>12, <3>1 DEF Taken
    <3>3. row.name = prRows[r].name \/ row.name = d.name
      BY DEF Synced, Patch, Renewed
    <3>4. prRows[k].name # prRows[r].name
      BY <1>3, <3>1, <3>2 DEF IsIndex
    <3> QED BY <1>10, <2>2, <3>2, <3>3, <3>4
  <2> HIDE DEF n
  <2>3. Remembers(n, prIds)
    BY <2>1 DEF Remembers
  <2> QED BY <1>12, <2>2, <2>3, ProfileTurnOnly DEF n
<1>13. CASE /\ r # None /\ ~differs
            /\ prPc' = [prPc EXCEPT ![p] = Stamping(d, r, next(c.seen \cup {r}, c.resync))]
            /\ NoWrite /\ prIds' = prIds
  <2> DEFINE n == next(c.seen \cup {r}, c.resync)
  <2>1. /\ GoesOn(n, prIds) /\ n.at = "docs" /\ Past(c, f, n) /\ n.seen = c.seen \cup {r}
        /\ n.resync = c.resync
    <3>1. /\ n.at = "docs" /\ Past(c, f, n) /\ n.resync = c.resync /\ n.seen = c.seen \cup {r}
          /\ n = Visiting(n.docs, n.rows, n.todo, n.seen, n.resync)
      BY VisitingIs DEF Past
    <3> HIDE DEF n, c, r
    <3> QED BY <1>1, <1>4, <1>5, <3>1, NextRemembered
  <2> HIDE DEF n
  <2>2. Remembers(Stamping(d, r, n), prIds)
    BY <1>3, <1>8, <1>9, <1>13, <2>1, StampedIs
  <2>3. ASSUME p \in prAlone PROVE Unhindered(Stamping(d, r, n), prRows, prFiles)
    <3>1. Tells(c.rows[r], d)
      BY <1>13 DEF Tells, Differs
    <3>2. InLoop(n, prRows, prFiles)
      BY <1>3, <1>7, <1>13, <2>1, <2>3, <3>1, SeenGoesOn
    <3>3. \/ d.id = r
          \/ Slug[d.name] \in DOMAIN prFiles /\ \A g \in DOMAIN prFiles : prFiles[g].id # r
      BY <1>3, <1>7, <1>13, <2>3, StampIsNew
    <3> QED BY <1>3, <1>8, <1>9, <1>13, <2>1, <3>2, <3>3, StampedIs
  <2> QED BY <1>13, <2>2, <2>3, ProfileTurnOnly DEF n
<1>14. CASE /\ r # None /\ differs /\ ~refused
            /\ Save(p, With(prRows, r, row), prFiles) /\ prIds' = prIds
            /\ prPc' = [prPc EXCEPT ![p] = Stamping(d, r, next(c.seen \cup {r}, With(c.resync, r, row)))]
  <2> DEFINE rows == With(prRows, r, row)
             resync == With(c.resync, r, row)
             n == next(c.seen \cup {r}, resync)
  <2> DEFINE m == Patch(prRows[r].name, c.rows[r].name, d.name)
             t == Patch(prRows[r].text, c.rows[r].text, d.text)
  <2>1. /\ IsIndex(rows, prIds) /\ IsProfile(row) /\ row.name = m /\ row.text = t
        /\ DOMAIN rows = DOMAIN prRows /\ rows[r] = row
        /\ \A k \in DOMAIN prRows : k # r => rows[k] = prRows[k]
    <3>1. r \in DOMAIN prRows /\ row = Renewed(r, m, t) /\ ~Taken(row.name, r)
      BY <1>14 DEF Synced
    <3>2. m \in PNames
      BY <1>3, <1>8, <3>1 DEF IsIndex, IsProfile, Patch
    <3> HIDE DEF m, t, row
    <3>3. row.name = m
      BY <3>1 DEF Renewed
    <3> HIDE DEF r, d
    <3> QED BY <1>3, <3>1, <3>2, <3>3, RenewedIs
  <2>10. \/ m = d.name /\ t = d.text
         \/ ~Tells(prRows[r], c.rows[r]) /\ m \in {prRows[r].name, d.name}
    <3> HIDE DEF r, d, c
    <3> QED BY DEF Tells, Patch
  <2> HIDE DEF m, t
  <2>2. /\ DOMAIN resync = DOMAIN c.resync \cup {r} /\ resync[r] = row
        /\ \A x \in DOMAIN c.resync \ {r} : resync[x] = c.resync[x]
    BY DEF With
  <2> HIDE DEF rows, resync, row
  <2>3. r \in 1..prIds
    BY <1>3, <1>14 DEF IsIndex
  <2> HIDE DEF r
  <2>4. AreUpdates(resync, prIds)
    BY <1>5, <2>1, <2>2, <2>3 DEF AreUpdates
  <2>5. /\ GoesOn(n, prIds) /\ n.at = "docs" /\ Past(c, f, n) /\ n.seen = c.seen \cup {r}
        /\ n.resync = resync
    <3>1. /\ n.at = "docs" /\ Past(c, f, n) /\ n.resync = resync /\ n.seen = c.seen \cup {r}
          /\ n = Visiting(n.docs, n.rows, n.todo, n.seen, n.resync)
      BY VisitingIs DEF Past
    <3> HIDE DEF n, c
    <3> QED BY <1>1, <1>4, <2>4, <3>1, NextRemembered
  <2> HIDE DEF n
  <2>6. Remembers(Stamping(d, r, n), prIds)
    BY <1>3, <1>8, <1>9, <1>14, <2>5, StampedIs
  <2>7. ASSUME p \in prAlone PROVE Unhindered(Stamping(d, r, n), rows, prFiles)
    <3>1. /\ \A k \in DOMAIN prRows \ {r} : rows[k] = prRows[k]
          /\ \/ Tells(rows[r], d)
             \/ ~Tells(prRows[r], c.rows[r]) /\ rows[r].name \in {prRows[r].name, d.name}
      BY <2>1, <2>10 DEF Tells
    <3>2. /\ DOMAIN n.resync = DOMAIN c.resync \cup {r} /\ n.resync[r] = rows[r]
          /\ \A x \in DOMAIN c.resync \ {r} : n.resync[x] = c.resync[x]
      BY <2>1, <2>2, <2>5
    <3>3. r = ProfileOf(c, c.docs[f])
      BY DEF r
    <3> HIDE DEF d, c
    <3>4. InLoop(n, rows, prFiles)
      BY <1>3, <1>7, <1>14, <2>1, <2>5, <2>7, <3>1, <3>2, <3>3, FollowedGoesOn DEF d
    <3>5. \/ d.id = r
          \/ Slug[d.name] \in DOMAIN prFiles /\ \A g \in DOMAIN prFiles : prFiles[g].id # r
      BY <1>3, <1>7, <1>14, <2>7, <3>3, StampIsNew DEF d
    <3> QED BY <1>3, <1>8, <1>9, <1>14, <2>5, <3>4, <3>5, StampedIs
  <2>8. /\ prIds' \in Nat /\ prIds <= prIds' /\ Remembers(Stamping(d, r, n), prIds')
        /\ IsIndex(rows, prIds') /\ ArePrompts(prFiles, prIds')
    BY <1>3, <1>14, <2>1, <2>6
  <2>9. /\ prPc' = [prPc EXCEPT ![p] = Stamping(d, r, n)] /\ Save(p, rows, prFiles)
    BY <1>14 DEF n, resync, rows
  <2> QED BY <2>7, <2>8, <2>9, ProfileTurn
<1>15. CASE /\ r = None /\ ~Taken(d.name, None) /\ prIds' = i
            /\ Save(p, Inserted(d.name, d.text, d.def), prFiles)
            /\ prPc' = [prPc EXCEPT ![p] = Stamping(d, i, next(c.seen \cup {i}, c.resync))]
  <2> DEFINE rows == Inserted(d.name, d.text, d.def)
             n == next(c.seen \cup {i}, c.resync)
  <2>1. /\ IsIndex(rows, i) /\ DOMAIN rows = DOMAIN prRows \cup {i}
        /\ rows[i].name = d.name /\ rows[i].text = d.text
        /\ \A k \in DOMAIN prRows : Tells(rows[k], prRows[k])
    <3>1. ~Taken(d.name, None)
      BY <1>15
    <3> HIDE DEF d
    <3> QED BY <1>3, <1>8, <3>1, AdoptedIs
  <2> HIDE DEF rows, r
  <2>2. i \in Nat /\ prIds <= i /\ i \in 0..i /\ prIds' = i
    BY <1>3, <1>15
  <2>3. /\ LoopKnows(c, i) /\ AreUpdates(c.resync, i) /\ ArePrompts(prFiles, i)
    BY <1>3, <1>4, <1>5, <2>2, MorePrompts DEF LoopKnows
  <2>4. /\ GoesOn(n, i) /\ n.at = "docs" /\ Past(c, f, n) /\ n.seen = c.seen \cup {i}
        /\ n.resync = c.resync
    <3>1. /\ n.at = "docs" /\ Past(c, f, n) /\ n.resync = c.resync /\ n.seen = c.seen \cup {i}
          /\ n = Visiting(n.docs, n.rows, n.todo, n.seen, n.resync)
      BY VisitingIs DEF Past
    <3> HIDE DEF n, c, i
    <3> QED BY <1>1, <2>3, <3>1, NextRemembered
  <2> HIDE DEF n
  <2>5. Remembers(Stamping(d, i, n), i)
    BY <1>8, <2>2, <2>4, StampedIs
  <2>6. ASSUME p \in prAlone PROVE Unhindered(Stamping(d, i, n), rows, prFiles)
    <3>1. Tells(rows[i], d)
      BY <2>1 DEF Tells
    <3>2. ProfileOf(c, d) = None
      BY <1>15 DEF r
    <3> HIDE DEF c, d
    <3>3. InLoop(n, rows, prFiles)
      BY <1>3, <1>7, <2>1, <2>4, <2>6, <3>1, <3>2, AdoptedGoesOn DEF d
    <3>4. Slug[d.name] \in DOMAIN prFiles
      <4>1. DOMAIN prFiles = DOMAIN c.docs
        BY <1>7, <2>6 DEF AtPrompt, InLoop, SameFiles
      <4> QED BY <1>5, <1>6, <4>1 DEF ArePrompts, d
    <3>5. \A g \in DOMAIN prFiles : prFiles[g].id # i
      BY <1>3 DEF ArePrompts, IsPrompt
    <3> QED BY <1>8, <2>2, <2>4, <3>3, <3>4, <3>5, StampedIs
  <2>7. /\ prIds' \in Nat /\ prIds <= prIds' /\ Remembers(Stamping(d, i, n), prIds')
        /\ IsIndex(rows, prIds') /\ ArePrompts(prFiles, prIds')
    BY <2>1, <2>2, <2>3, <2>5
  <2>8. /\ prPc' = [prPc EXCEPT ![p] = Stamping(d, i, n)] /\ Save(p, rows, prFiles)
    BY <1>15 DEF n, rows
  <2> QED BY <2>6, <2>7, <2>8, ProfileTurn
<1> QED BY <1>2, <1>11, <1>12, <1>13, <1>14, <1>15

LEMMA ProfileInvGoesOn ==
    ASSUME ProfileAssumption, ProfileInv, [PNext]_pvars
    PROVE  ProfileInv'
<1>1. CASE UNCHANGED pvars
  <2>1. /\ prIds' = prIds /\ prRows' = prRows /\ prFiles' = prFiles /\ prPc' = prPc
        /\ prAlone' = prAlone /\ prSettled' = prSettled
    BY <1>1 DEF pvars
  <2>2. ProfilesAgree'
    BY <2>1, PStillAgree DEF ProfileInv
  <2>3. ProfileTypes'
    BY <2>1 DEF ProfileInv, ProfileTypes
  <2> QED BY <2>1, <2>2, <2>3 DEF ProfileInv, UnhinderedRight
<1>2. ASSUME NEW p \in PProcs, PStep(p) PROVE ProfileInv'
  BY <1>2, TakeOldKeeps, WriteNewKeeps, FollowsKeeps, SetDefaultKeeps, MirrorAllKeeps,
     DeleteProfileKeeps, UnlinkPromptKeeps, ListProfilesKeeps, ReconcilePromptKeeps,
     PruneProfilesKeeps, MoveDefaultKeeps, ResyncKeeps, EndKeeps, InsertProfileKeeps,
     UpdateProfileKeeps DEF PStep
<1>3. ASSUME NEW p \in PProcs, CreateProfile(p) \/ ResolveAgent(p) \/ ListPrompts(p) PROVE ProfileInv'
  BY <1>3, CreateProfileKeeps, ResolveAgentKeeps, ListPromptsKeeps
<1>4. ASSUME NEW p \in PProcs, NEW op \in {"update", "delete"}, NEW id, ReadProfile(p, op, id)
      PROVE  ProfileInv'
  BY <1>4, ReadProfileKeeps
<1>5. ASSUME NEW n \in PNames, NEW t, NEW b \in BOOLEAN, HandEditPrompt(n, t, b) PROVE ProfileInv'
  BY <1>5, HandEditPromptKeeps
<1>6. ASSUME NEW s, HandDeletePrompt(s) PROVE ProfileInv'
  BY <1>6, HandDeletePromptKeeps
<1>7. CASE Restart
  BY <1>7, RestartProfilesKeeps
<1> QED BY <1>1, <1>2, <1>3, <1>4, <1>5, <1>6, <1>7 DEF PNext

\* After a reconcile that nobody disturbed, files and rows say the same and the
\* file flagged default is the default, unless the reconcile took its flag: in
\* every state (reconcilePrompts, WritePrompt).
THEOREM ProfilesAgreeHolds == PSpec => []ProfilesAgree
<1>1. PInit => ProfileInv
  BY ProfileAssumption, ProfilesBegin
<1>2. ProfileInv /\ [PNext]_pvars => ProfileInv'
  BY ProfileAssumption, ProfileInvGoesOn
<1>3. ProfileInv => ProfilesAgree
  BY DEF ProfileInv
<1> QED BY <1>1, <1>2, <1>3, PTL DEF PSpec
=============================================================================
