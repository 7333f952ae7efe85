------------------------- MODULE RunSchedulerProofs -------------------------
(***************************************************************************)
(* Proofs about RunScheduler: its types, one run per chat, and the rows    *)
(* that runs leave in the store (no row is orphaned, no final status is    *)
(* overwritten), for every number of runs, chats, parallel calls, slots    *)
(* and crashes.                                                            *)
(***************************************************************************)
EXTENDS RunScheduler, FiniteSetTheorems, SequenceTheorems, WellFoundedInduction, TLAPS

\* The first position of an element, as removeWaiter's loop finds it.
LEMMA MinIsMember ==
    ASSUME NEW I \in SUBSET Nat, I # {}
    PROVE  Min(I) \in I /\ \A j \in I : Min(I) <= j
  <1> DEFINE Less == {ss \in Nat \X Nat : ss[1] < ss[2]}
  <1>1. IsWellFoundedOn(Less, Nat)
    BY NatLessThanWellFounded DEF OpToRel
  <1>2. PICK x \in I : \A y \in I : ~ (<<y, x>> \in Less)
    BY <1>1, WFMin
  <1>3. ASSUME NEW y \in I PROVE x <= y
    <2>1. <<y, x>> \in Nat \X Nat
      OBVIOUS
    <2>2. ~ (y < x)
      BY <1>2, <2>1
    <2> QED BY <2>2
  <1> HIDE DEF Less
  <1> QED BY <1>3 DEF Min

\* Removing a waiter from a queue (removeWaiter) leaves a queue.
LEMMA RemoveFirstType ==
    ASSUME NEW S, NEW q \in Seq(S), NEW e
    PROVE  RemoveFirst(q, e) \in Seq(S)
  <1> DEFINE I == {i \in 1..Len(q) : q[i] = e}
  <1>1. CASE I = {}
    BY <1>1 DEF RemoveFirst
  <1>2. CASE I # {}
    <2>1. Min(I) \in 1..Len(q)
      <3>1. I \in SUBSET Nat
        OBVIOUS
      <3>2. Min(I) \in I
        BY <1>2, <3>1, MinIsMember
      <3> QED BY <3>2
    <2>2. RemoveFirst(q, e) = SubSeq(q, 1, Min(I) - 1) \o SubSeq(q, Min(I) + 1, Len(q))
      BY <1>2 DEF RemoveFirst, RemoveAt, SelectInSeq
    <2>3. /\ SubSeq(q, 1, Min(I) - 1) \in Seq(S)
          /\ SubSeq(q, Min(I) + 1, Len(q)) \in Seq(S)
      <3> DEFINE m == Min(I)
      <3> HIDE DEF I, m
      <3>1. m \in 1..Len(q)
        BY <2>1 DEF m
      <3> SUFFICES SubSeq(q, 1, m - 1) \in Seq(S) /\ SubSeq(q, m + 1, Len(q)) \in Seq(S)
        BY DEF m
      <3> QED BY <3>1
    <2> QED BY <2>2, <2>3, ConcatProperties
  <1> QED BY <1>1, <1>2

\* What removeWaiter leaves of a queue without duplicates: everything else,
\* still without duplicates.
LEMMA RemoveFirstRest ==
    ASSUME NEW S, NEW q \in Seq(S), NEW e,
           \A i, j \in 1..Len(q) : q[i] = q[j] => i = j
    PROVE  LET s == RemoveFirst(q, e) IN
           /\ s \in Seq(S)
           /\ \A i \in 1..Len(s) : s[i] # e /\ \E j \in 1..Len(q) : s[i] = q[j]
           /\ \A i, j \in 1..Len(s) : s[i] = s[j] => i = j
           /\ q = <<>> => s = <<>>
  <1> DEFINE I == {i \in 1..Len(q) : q[i] = e}
             s == RemoveFirst(q, e)
  <1>1. CASE I = {}
    <2>1. s = q
      BY <1>1 DEF RemoveFirst
    <2> QED BY <1>1, <2>1
  <1>2. CASE I # {}
    <2>1. PICK m \in 1..Len(q) : q[m] = e
      BY <1>2
    <2>2. I = {m}
      BY <2>1
    <2>3. Min(I) = m
      BY <2>2 DEF Min
    <2>4. s = SubSeq(q, 1, m - 1) \o SubSeq(q, m + 1, Len(q))
      BY <1>2, <2>3 DEF RemoveFirst, RemoveAt, SelectInSeq
    <2> HIDE DEF s, I
    <2> DEFINE a == SubSeq(q, 1, m - 1)
               b == SubSeq(q, m + 1, Len(q))
    <2>5. a \in Seq(S) /\ Len(a) = m - 1 /\ \A i \in 1..(m - 1) : a[i] = q[i]
      OBVIOUS
    <2>6. b \in Seq(S) /\ Len(b) = Len(q) - m /\ \A i \in 1..(Len(q) - m) : b[i] = q[m + i]
      OBVIOUS
    <2>7. /\ s \in Seq(S)
          /\ Len(s) = Len(q) - 1
          /\ \A i \in 1..Len(s) : s[i] = IF i < m THEN q[i] ELSE q[i + 1]
      <3> HIDE DEF a, b
      <3>1. s = a \o b
        BY <2>4 DEF a, b
      <3>2. s \in Seq(S) /\ Len(s) = Len(q) - 1
        <4>1. a \o b \in Seq(S) /\ Len(a \o b) = Len(a) + Len(b)
          BY <2>5, <2>6, ConcatProperties, ZenonT(60)
        <4>2. Len(q) \in Nat
          OBVIOUS
        <4> QED BY <2>5, <2>6, <3>1, <4>1, <4>2
      <3>3. ASSUME NEW i \in 1..Len(s) PROVE s[i] = IF i < m THEN q[i] ELSE q[i + 1]
        <4>1. CASE i < m
          <5>1. i \in 1..Len(a) /\ s[i] = a[i]
            BY <2>5, <2>6, <3>1, <4>1
          <5> QED BY <2>5, <4>1, <5>1
        <4>2. CASE ~ (i < m)
          <5>1. s[i] = b[i - (m - 1)] /\ i - (m - 1) \in 1..(Len(q) - m)
            BY <2>5, <2>6, <3>1, <3>2, <4>2
          <5>2. b[i - (m - 1)] = q[m + (i - (m - 1))]
            BY <2>6, <5>1
          <5>3. m + (i - (m - 1)) = i + 1
            BY <3>2
          <5> QED BY <4>2, <5>1, <5>2, <5>3
        <4> QED BY <4>1, <4>2
      <3> QED BY <3>2, <3>3
    <2> QED BY <2>1, <2>7, SMTT(30), ZenonT(60), Z3T(60) DEF s
  <1> QED BY <1>1, <1>2

-----------------------------------------------------------------------------
(* Types.  The counters are only known to be integers until the slot       *)
(* accounting is established.                                              *)

\* The types of the semaphore's own variables.
SemaphoreTypes ==
    /\ acq \in [Waiters -> {"none", "queued", "granted", "held"}]
    /\ running \in Int
    /\ running <= MaxRun
    /\ resumeQ \in Seq(Waiters)
    /\ startQ \in Seq(Waiters)

\* The types of the per-chat queues.
ChatTypes ==
    /\ chatActive \in [Chats -> Runs \cup {Null}]
    /\ chatQueue \in [Chats -> Seq(Runs)]

\* The types of the process and of the runs.
RunTypes ==
    /\ up \in BOOLEAN
    /\ stopping \in BOOLEAN
    /\ crashes \in 0..MaxCrashes
    /\ deleted \subseteq Chats
    /\ status \in [Runs -> RunStatus]
    /\ chatOf \in [Runs -> Chats \cup {Null}]
    /\ pc \in [Runs -> PCs]
    /\ ctx \in [Runs -> {"live", "cancelled", "wall", "shutdown"}]
    /\ outcome \in [Runs -> {"none"} \cup Terminal]
    /\ turns \in [Runs -> 0..MaxTurns]
    /\ \A r \in Runs : pc[r] = "turn" => turns[r] < MaxTurns
    /\ \A r \in Runs : pc[r] = "finish" => outcome[r] \in Terminal
    /\ call \in [Runs \X Calls -> CallStates]
    /\ holdsSlot \in [Runs -> BOOLEAN]
    /\ acquiring \in [Runs -> BOOLEAN]
    /\ waiters \in [Runs -> Int]

TypeInv == RunTypes /\ SemaphoreTypes /\ ChatTypes

\* releaseLocked() preserves the types of the semaphore.
LEMMA ReleaseType ==
    ASSUME SemaphoreTypes, NEW acq0 \in [Waiters -> {"none", "queued", "granted", "held"}],
           ReleaseLocked(acq0)
    PROVE  SemaphoreTypes'
  <1> DEFINE q    == resumeQ \o startQ
             free == MaxRun - (running - 1)
             n    == IF Len(q) < free THEN Len(q) ELSE free
  <1>1. n \in Nat /\ n <= Len(q) /\ n <= MaxRun - (running - 1)
    BY SchedulerAssumption DEF SemaphoreTypes
  <1>2. /\ running' \in Int
        /\ running' <= MaxRun
        /\ acq' \in [Waiters -> {"none", "queued", "granted", "held"}]
    BY <1>1, SchedulerAssumption DEF ReleaseLocked, SemaphoreTypes
  <1>3. resumeQ' = SubSeq(resumeQ, n + 1, Len(resumeQ))
    BY DEF ReleaseLocked
  <1>4. startQ' = IF n > Len(resumeQ)
                    THEN SubSeq(startQ, n - Len(resumeQ) + 1, Len(startQ)) ELSE startQ
    BY DEF ReleaseLocked
  <1> HIDE DEF n
  <1>5. resumeQ' \in Seq(Waiters)
    BY <1>1, <1>3 DEF SemaphoreTypes
  <1>6. startQ' \in Seq(Waiters)
    BY <1>1, <1>4 DEF SemaphoreTypes
  <1> QED BY <1>2, <1>5, <1>6 DEF SemaphoreTypes
\* The cancelled arm of acquire() preserves the types of the semaphore.
LEMMA AbandonType ==
    ASSUME SemaphoreTypes, NEW w \in Waiters, AbandonAcquire(w)
    PROVE  SemaphoreTypes'
  <1>1. [acq EXCEPT ![w] = "none"] \in [Waiters -> {"none", "queued", "granted", "held"}]
    BY DEF SemaphoreTypes
  <1>2. CASE acq[w] = "granted"
    BY <1>1, <1>2, ReleaseType DEF AbandonAcquire
  <1>3. CASE acq[w] # "granted"
    <2>1. RemoveWaiter(resumeQ, w) \in Seq(Waiters) /\ RemoveWaiter(startQ, w) \in Seq(Waiters)
      BY RemoveFirstType DEF RemoveWaiter, SemaphoreTypes
    <2> QED BY <1>1, <1>3, <2>1 DEF AbandonAcquire, SemaphoreTypes
  <1> QED BY <1>2, <1>3

\* The initial state has the types.
LEMMA InitTypes == Init => TypeInv
  <1> SUFFICES ASSUME Init PROVE TypeInv
    OBVIOUS
  <1>1. RunTypes
    <2> USE SchedulerAssumption DEF Init, RunTypes, RunStatus, PCs, CallStates
    <2>1. call \in [Runs \X Calls -> CallStates] /\ waiters \in [Runs -> Int]
      OBVIOUS
    <2>2. acquiring \in [Runs -> BOOLEAN] /\ holdsSlot \in [Runs -> BOOLEAN]
      OBVIOUS
    <2>3. pc \in [Runs -> PCs] /\ status \in [Runs -> RunStatus]
      OBVIOUS
    <2>4. turns \in [Runs -> 0..MaxTurns] /\ crashes \in 0..MaxCrashes /\ deleted \subseteq Chats
      OBVIOUS
    <2> QED BY <2>1, <2>2, <2>3, <2>4
  <1>2. SemaphoreTypes
    BY SchedulerAssumption DEF Init, SemaphoreTypes
  <1>3. ChatTypes
    BY DEF Init, ChatTypes
  <1> QED BY <1>1, <1>2, <1>3 DEF TypeInv

\* TypeInv, which bounds Manager.running by AGENT_MAX_CONCURRENT_RUNS, is
\* preserved by every step of the scheduler.
LEMMA NextTypes == TypeInv /\ [Next]_vars => TypeInv'
  <1> SUFFICES ASSUME TypeInv, [Next]_vars PROVE TypeInv'
    OBVIOUS
  <1> USE SchedulerAssumption DEF TypeInv, process, slots, waits, chatQs
  <1>0. CASE UNCHANGED vars
    BY <1>0 DEF vars, RunTypes, SemaphoreTypes, ChatTypes
  <1>1. CASE Start
    <2>1. RunTypes'
      BY <1>1 DEF Start, RunTypes, Sweep, RunStatus, Unfinished, Terminal
    <2>2. SemaphoreTypes'
      BY <1>1 DEF Start, SemaphoreTypes
    <2>3. ChatTypes'
      BY <1>1 DEF Start, ChatTypes
    <2> QED BY <2>1, <2>2, <2>3
  <1>2. CASE Crash
    <2>1. RunTypes'
      <3> USE <1>2 DEF Crash, RunTypes, PCs, CallStates
      <3>1. up' = FALSE /\ stopping' = FALSE
        OBVIOUS
      <3>2. crashes' \in 0..MaxCrashes
        OBVIOUS
      <3>3. \A r \in Runs : pc'[r] \in {"none", "over"}
        OBVIOUS
      <3>4. call' \in [Runs \X Calls -> CallStates]
        OBVIOUS
      <3>5. waiters' \in [Runs -> Int]
        OBVIOUS
      <3>6. acquiring' \in [Runs -> BOOLEAN] /\ holdsSlot' \in [Runs -> BOOLEAN]
        OBVIOUS
      <3>7. pc' \in [Runs -> PCs] /\ status' \in [Runs -> RunStatus]
        OBVIOUS
      <3> QED BY <3>1, <3>2, <3>3, <3>4, <3>5, <3>6, <3>7
    <2>2. SemaphoreTypes'
      BY <1>2 DEF Crash, SemaphoreTypes
    <2>3. ChatTypes'
      BY <1>2 DEF Crash, ChatTypes
    <2> QED BY <2>1, <2>2, <2>3
  <1>3. CASE Shutdown
    <2>1. RunTypes'
      BY <1>3 DEF Shutdown, RunTypes
    <2>2. SemaphoreTypes'
      BY <1>3 DEF Shutdown, SemaphoreTypes
    <2>3. ChatTypes'
      BY <1>3 DEF Shutdown, ChatTypes
    <2> QED BY <2>1, <2>2, <2>3
  <1>s. ASSUME NEW c \in Chats, SoftDelete(c) PROVE TypeInv'
    <2>1. RunTypes'
      BY <1>s DEF SoftDelete, RunTypes, RunStatus, Terminal
    <2>2. SemaphoreTypes'
      BY <1>s DEF SoftDelete, SemaphoreTypes
    <2>3. ChatTypes'
      BY <1>s DEF SoftDelete, ChatTypes
    <2> QED BY <2>1, <2>2, <2>3
  <1>4. ASSUME NEW r \in Runs, NEW c \in Chats, Submit(r, c) PROVE TypeInv'
    <2>1. RunTypes'
      BY <1>4, ZenonT(60) DEF Submit, RunTypes, RunStatus, Unfinished, Terminal, PCs
    <2>2. SemaphoreTypes'
      BY <1>4 DEF Submit, SemaphoreTypes
    <2>3. ChatTypes'
      <3>1. Append(chatQueue[c], r) \in Seq(Runs)
        BY AppendProperties DEF ChatTypes
      <3> QED BY <1>4, <3>1, ZenonT(60) DEF Submit, ChatTypes
    <2> QED BY <2>1, <2>2, <2>3
  <1>5. ASSUME NEW r \in Runs, NEW c \in Chats, SubmitRefused(r, c) PROVE TypeInv'
    <2>1. RunTypes'
      BY <1>5 DEF SubmitRefused, RunTypes, RunStatus, Unfinished, Terminal, PCs
    <2>2. SemaphoreTypes'
      BY <1>5 DEF SubmitRefused, SemaphoreTypes
    <2>3. ChatTypes'
      BY <1>5 DEF SubmitRefused, ChatTypes
    <2> QED BY <2>1, <2>2, <2>3
  <1>6. ASSUME NEW r \in Runs, Cancel(r) PROVE TypeInv'
    <2>1. RunTypes'
      BY <1>6 DEF Cancel, RunTypes, PCs
    <2>2. SemaphoreTypes'
      BY <1>6 DEF Cancel, SemaphoreTypes
    <2>3. ChatTypes'
      <3>1. \A c \in Chats : RemoveFirst(chatQueue[c], r) \in Seq(Runs)
        BY RemoveFirstType DEF ChatTypes
      <3>2. CASE pc[r] = "chatQueue"
        <4>1. chatQueue' = [chatQueue EXCEPT ![chatOf[r]] = RemoveFirst(chatQueue[chatOf[r]], r)]
          BY <1>6, <3>2 DEF Cancel
        <4>2. CASE chatOf[r] \in Chats
          BY <1>6, <3>1, <4>1, <4>2 DEF Cancel, ChatTypes
        <4>3. CASE chatOf[r] \notin Chats
          BY <1>6, <4>1, <4>3 DEF Cancel, ChatTypes
        <4> QED BY <4>2, <4>3
      <3>3. CASE pc[r] # "chatQueue"
        BY <1>6, <3>3 DEF Cancel, ChatTypes
      <3> QED BY <3>2, <3>3
    <2> QED BY <2>1, <2>2, <2>3
  <1>7. ASSUME NEW r \in Runs, WallTimer(r) PROVE TypeInv'
    <2>1. RunTypes'
      BY <1>7 DEF WallTimer, RunTypes
    <2>2. SemaphoreTypes'
      BY <1>7 DEF WallTimer, SemaphoreTypes
    <2>3. ChatTypes'
      BY <1>7 DEF WallTimer, ChatTypes
    <2> QED BY <2>1, <2>2, <2>3
  <1>8. ASSUME NEW r \in Runs, MaterializeSubmitted(r) PROVE TypeInv'
    <2>1. RunTypes'
      BY <1>8 DEF MaterializeSubmitted, RunTypes, EndsWith, CauseOutcome, PCs, Terminal
    <2>2. SemaphoreTypes'
      BY <1>8 DEF MaterializeSubmitted, SemaphoreTypes
    <2>3. ChatTypes'
      BY <1>8 DEF MaterializeSubmitted, ChatTypes
    <2> QED BY <2>1, <2>2, <2>3
  <1>9. ASSUME NEW r \in Runs, MaterializePromoted(r) PROVE TypeInv'
    <2>1. RunTypes'
      BY <1>9 DEF MaterializePromoted, RunTypes, EndsWith, CauseOutcome, PCs, Terminal
    <2>2. SemaphoreTypes'
      BY <1>9 DEF MaterializePromoted, SemaphoreTypes
    <2>3. ChatTypes'
      BY <1>9 DEF MaterializePromoted, ChatTypes
    <2> QED BY <2>1, <2>2, <2>3
  <1>10. ASSUME NEW r \in Runs, CommandTurn(r) PROVE TypeInv'
    <2>1. RunTypes'
      BY <1>10 DEF CommandTurn, RunTypes, EndsWith, CauseOutcome, PCs, Terminal
    <2>2. SemaphoreTypes'
      BY <1>10 DEF CommandTurn, SemaphoreTypes
    <2>3. ChatTypes'
      BY <1>10 DEF CommandTurn, ChatTypes
    <2> QED BY <2>1, <2>2, <2>3
  <1>11. ASSUME NEW r \in Runs, LoopTop(r) PROVE TypeInv'
    <2>1. RunTypes'
      BY <1>11 DEF LoopTop, RunTypes, EndsWith, CauseOutcome, PCs, Terminal
    <2>2. SemaphoreTypes'
      BY <1>11 DEF LoopTop, SemaphoreTypes
    <2>3. ChatTypes'
      BY <1>11 DEF LoopTop, ChatTypes
    <2> QED BY <2>1, <2>2, <2>3
  <1>12. ASSUME NEW r \in Runs, Lookup(r) PROVE TypeInv'
    <2>1. RunTypes'
      BY <1>12 DEF Lookup, RunTypes, EndsWith, CauseOutcome, PCs, Terminal
    <2>2. SemaphoreTypes'
      BY <1>12 DEF Lookup, SemaphoreTypes
    <2>3. ChatTypes'
      BY <1>12 DEF Lookup, ChatTypes
    <2> QED BY <2>1, <2>2, <2>3
  <1>13. ASSUME NEW r \in Runs, Turn(r) PROVE TypeInv'
    <2>1. RunTypes'
      BY <1>13 DEF Turn, RunTypes, EndsWith, CauseOutcome, PCs, Terminal, CallStates
    <2>2. SemaphoreTypes'
      BY <1>13 DEF Turn, SemaphoreTypes
    <2>3. ChatTypes'
      BY <1>13 DEF Turn, ChatTypes
    <2> QED BY <2>1, <2>2, <2>3
  <1>14. ASSUME NEW r \in Runs, ToolsDone(r) PROVE TypeInv'
    <2>1. RunTypes'
      BY <1>14, SMTT(30), ZenonT(60), Z3T(60) DEF ToolsDone, RunTypes, EndsWith, CauseOutcome, PCs, Terminal, CallStates
    <2>2. SemaphoreTypes'
      BY <1>14 DEF ToolsDone, SemaphoreTypes
    <2>3. ChatTypes'
      BY <1>14 DEF ToolsDone, ChatTypes
    <2> QED BY <2>1, <2>2, <2>3
  <1>15. ASSUME NEW r \in Runs, Finish(r) PROVE TypeInv'
    <2>1. RunTypes'
      BY <1>15 DEF Finish, RunTypes, PCs, RunStatus, Unfinished, Terminal
    <2>2. SemaphoreTypes'
      BY <1>15 DEF Finish, SemaphoreTypes
    <2>3. ChatTypes'
      BY <1>15 DEF Finish, ChatTypes
    <2> QED BY <2>1, <2>2, <2>3
  <1>16. ASSUME NEW r \in Runs, FinishQueued(r) PROVE TypeInv'
    <2>1. RunTypes'
      BY <1>16 DEF FinishQueued, RunTypes, PCs, RunStatus, Unfinished, Terminal
    <2>2. SemaphoreTypes'
      BY <1>16 DEF FinishQueued, SemaphoreTypes
    <2>3. ChatTypes'
      BY <1>16 DEF FinishQueued, ChatTypes
    <2> QED BY <2>1, <2>2, <2>3
  <1>17. ASSUME NEW r \in Runs, Begin(r) PROVE TypeInv'
    <2>1. RunTypes'
      BY <1>17 DEF Begin, RunTypes, PCs, RunStatus, Unfinished, Terminal
    <2>2. SemaphoreTypes'
      BY <1>17 DEF Begin, SemaphoreTypes, Waiters, Threads
    <2>3. ChatTypes'
      BY <1>17 DEF Begin, ChatTypes
    <2> QED BY <2>1, <2>2, <2>3
  <1>18. ASSUME NEW r \in Runs, AcquireStart(r) PROVE TypeInv'
    <2>1. RunTypes'
      BY <1>18 DEF AcquireStart, RunTypes
    <2>2. SemaphoreTypes'
      <3>1. <<r, Main>> \in Waiters
        BY DEF Waiters, Threads
      <3>2. CASE TakeSlot(<<r, Main>>)
        BY <3>1, <3>2 DEF TakeSlot, SemaphoreTypes
      <3>3. CASE JoinStartQ(<<r, Main>>)
        BY <3>1, <3>3, AppendProperties DEF JoinStartQ, SemaphoreTypes
      <3> QED BY <1>18, <3>2, <3>3 DEF AcquireStart
    <2>3. ChatTypes'
      BY <1>18 DEF AcquireStart, ChatTypes
    <2> QED BY <2>1, <2>2, <2>3
  <1>19. ASSUME NEW r \in Runs, AbandonStart(r) PROVE TypeInv'
    <2>1. RunTypes'
      BY <1>19 DEF AbandonStart, RunTypes, EndsWith, CauseOutcome, PCs, Terminal
    <2>2. SemaphoreTypes'
      <3>1. <<r, Main>> \in Waiters
        BY DEF Waiters, Threads
      <3> QED BY <1>19, <3>1, AbandonType DEF AbandonStart
    <2>3. ChatTypes'
      BY <1>19 DEF AbandonStart, ChatTypes
    <2> QED BY <2>1, <2>2, <2>3
  <1>20. ASSUME NEW r \in Runs, FinishRelease(r) PROVE TypeInv'
    <2>1. RunTypes'
      BY <1>20 DEF FinishRelease, RunTypes, PCs
    <2>2. SemaphoreTypes'
      BY <1>20, ReleaseType DEF FinishRelease, SemaphoreTypes
    <2>3. ChatTypes'
      BY <1>20 DEF FinishRelease, ChatTypes
    <2> QED BY <2>1, <2>2, <2>3
  <1>21. ASSUME NEW r \in Runs, Promote(r) PROVE TypeInv'
    <2>1. RunTypes'
      BY <1>21, ZenonT(60) DEF Promote, RunTypes, PCs
    <2>2. SemaphoreTypes'
      BY <1>21 DEF Promote, SemaphoreTypes
    <2>3. ChatTypes'
      <3>1. \A c \in Chats : chatQueue[c] # <<>> =>
                /\ Head(chatQueue[c]) \in Runs
                /\ Tail(chatQueue[c]) \in Seq(Runs)
        BY HeadTailProperties DEF ChatTypes
      <3>2. CASE chatOf[r] \in Chats
        <4>1. CASE chatQueue[chatOf[r]] = <<>>
          <5>1. chatActive' = [chatActive EXCEPT ![chatOf[r]] = Null] /\ chatQueue' = chatQueue
            BY <1>21, <4>1 DEF Promote
          <5> QED BY <5>1 DEF ChatTypes
        <4>2. CASE chatQueue[chatOf[r]] # <<>>
          <5>1. /\ chatActive' = [chatActive EXCEPT ![chatOf[r]] = Head(chatQueue[chatOf[r]])]
                /\ chatQueue' = [chatQueue EXCEPT ![chatOf[r]] = Tail(chatQueue[chatOf[r]])]
            BY <1>21, <4>2 DEF Promote
          <5> QED BY <3>1, <3>2, <4>2, <5>1 DEF ChatTypes
        <4> QED BY <4>1, <4>2
      <3>3. CASE chatOf[r] \notin Chats
        BY <1>21, <3>3 DEF Promote, ChatTypes
      <3> QED BY <3>2, <3>3
    <2> QED BY <2>1, <2>2, <2>3
  <1>22. ASSUME NEW r \in Runs, NEW k \in Calls, CallStart(r, k) PROVE TypeInv'
    <2>1. RunTypes'
      BY <1>22 DEF CallStart, RunTypes, SetCall, CallStates
    <2>2. SemaphoreTypes'
      BY <1>22 DEF CallStart, SemaphoreTypes
    <2>3. ChatTypes'
      BY <1>22 DEF CallStart, ChatTypes
    <2> QED BY <2>1, <2>2, <2>3
  <1>23. ASSUME NEW r \in Runs, NEW k \in Calls, CallStep(r, k) PROVE TypeInv'
    <2>1. RunTypes'
      BY <1>23 DEF CallStep, RunTypes, SetCall, CallStates
    <2>2. SemaphoreTypes'
      BY <1>23 DEF CallStep, SemaphoreTypes
    <2>3. ChatTypes'
      BY <1>23 DEF CallStep, ChatTypes
    <2> QED BY <2>1, <2>2, <2>3
  <1>24. ASSUME NEW r \in Runs, NEW k \in Calls, EnterWait(r, k) PROVE TypeInv'
    <2>1. RunTypes'
      <3>1. call' \in [Runs \X Calls -> CallStates]
        BY <1>24 DEF EnterWait, RunTypes, SetCall, CallStates
      <3>2. waiters' \in [Runs -> Int] /\ holdsSlot' \in [Runs -> BOOLEAN]
        BY <1>24 DEF EnterWait, RunTypes
      <3>3. status' \in [Runs -> RunStatus]
        BY <1>24 DEF EnterWait, RunTypes, RunStatus, Unfinished
      <3>4. UNCHANGED <<process, chatOf, pc, ctx, outcome, turns, acquiring>>
        BY <1>24 DEF EnterWait
      <3> QED BY <3>1, <3>2, <3>3, <3>4 DEF RunTypes
    <2>2. SemaphoreTypes'
      BY <1>24, ReleaseType DEF EnterWait, SemaphoreTypes
    <2>3. ChatTypes'
      BY <1>24 DEF EnterWait, ChatTypes
    <2> QED BY <2>1, <2>2, <2>3
  <1>25. ASSUME NEW r \in Runs, NEW k \in Calls, LeaveWait(r, k) PROVE TypeInv'
    <2>1. RunTypes'
      <3> USE <1>25 DEF LeaveWait, RunTypes, AfterWait, SetCall, CallStates, RunStatus, Unfinished, Terminal
      <3>1. call' = [call EXCEPT ![<<r, k>>] = "run"] \/ call' = [call EXCEPT ![<<r, k>>] = "done"]
        OBVIOUS
      <3>2. call' \in [Runs \X Calls -> CallStates]
        BY <3>1
      <3>3. waiters' \in [Runs -> Int]
        OBVIOUS
      <3>4. acquiring' \in [Runs -> BOOLEAN] /\ holdsSlot' \in [Runs -> BOOLEAN]
        OBVIOUS
      <3>5. pc' \in [Runs -> PCs] /\ status' \in [Runs -> RunStatus]
        OBVIOUS
      <3> QED BY <3>1, <3>2, <3>3, <3>4, <3>5
    <2>2. SemaphoreTypes'
      BY <1>25 DEF LeaveWait, SemaphoreTypes
    <2>3. ChatTypes'
      BY <1>25 DEF LeaveWait, ChatTypes
    <2> QED BY <2>1, <2>2, <2>3
  <1>26. ASSUME NEW r \in Runs, NEW k \in Calls, LeaveWaitLast(r, k) PROVE TypeInv'
    <2>1. RunTypes'
      <3> USE <1>26 DEF LeaveWaitLast, RunTypes, SetCall, CallStates
      <3>1. call' \in [Runs \X Calls -> CallStates]
        BY SMTT(30), ZenonT(60), Z3T(60)
      <3>2. waiters' \in [Runs -> Int]
        OBVIOUS
      <3>3. acquiring' \in [Runs -> BOOLEAN] /\ holdsSlot' \in [Runs -> BOOLEAN]
        OBVIOUS
      <3>4. pc' \in [Runs -> PCs] /\ status' \in [Runs -> RunStatus]
        OBVIOUS
      <3> QED BY <3>1, <3>2, <3>3, <3>4
    <2>2. SemaphoreTypes'
      BY <1>26 DEF LeaveWaitLast, SemaphoreTypes
    <2>3. ChatTypes'
      BY <1>26 DEF LeaveWaitLast, ChatTypes
    <2> QED BY <2>1, <2>2, <2>3
  <1>27. ASSUME NEW r \in Runs, NEW k \in Calls, AcquireResume(r, k) PROVE TypeInv'
    <2>1. RunTypes'
      BY <1>27 DEF AcquireResume, RunTypes
    <2>2. SemaphoreTypes'
      <3>1. <<r, k>> \in Waiters
        BY DEF Waiters, Threads
      <3>2. CASE TakeSlot(<<r, k>>)
        BY <3>1, <3>2 DEF TakeSlot, SemaphoreTypes
      <3>3. CASE JoinResumeQ(<<r, k>>)
        BY <3>1, <3>3, AppendProperties DEF JoinResumeQ, SemaphoreTypes
      <3> QED BY <1>27, <3>2, <3>3 DEF AcquireResume
    <2>3. ChatTypes'
      BY <1>27 DEF AcquireResume, ChatTypes
    <2> QED BY <2>1, <2>2, <2>3
  <1>28. ASSUME NEW r \in Runs, NEW k \in Calls, Resume(r, k) PROVE TypeInv'
    <2>1. RunTypes'
      BY <1>28 DEF Resume, RunTypes, AfterWait, SetCall, CallStates, RunStatus, Unfinished, Terminal
    <2>2. SemaphoreTypes'
      <3>1. <<r, k>> \in Waiters
        BY DEF Waiters, Threads
      <3>2. [acq EXCEPT ![<<r, k>>] = "none"] \in [Waiters -> {"none", "queued", "granted", "held"}]
        BY <3>1 DEF SemaphoreTypes
      <3>3. CASE waiters[r] > 0 \/ Finished(r)
        <4>1. ReleaseLocked([acq EXCEPT ![<<r, k>>] = "none"])
          BY <1>28, <3>3 DEF Resume, RunTypes
        <4> QED BY <3>2, <4>1, ReleaseType
      <3>4. CASE ~ (waiters[r] > 0 \/ Finished(r))
        BY <1>28, <3>2, <3>4 DEF Resume, SemaphoreTypes
      <3> QED BY <3>3, <3>4
    <2>3. ChatTypes'
      BY <1>28 DEF Resume, ChatTypes
    <2> QED BY <2>1, <2>2, <2>3
  <1>29. ASSUME NEW r \in Runs, NEW k \in Calls, AbandonResume(r, k) PROVE TypeInv'
    <2>1. RunTypes'
      BY <1>29 DEF AbandonResume, RunTypes, AfterWait, SetCall, CallStates, RunStatus, Unfinished, Terminal
    <2>2. SemaphoreTypes'
      <3>1. <<r, k>> \in Waiters
        BY DEF Waiters, Threads
      <3> QED BY <1>29, <3>1, AbandonType DEF AbandonResume
    <2>3. ChatTypes'
      BY <1>29 DEF AbandonResume, ChatTypes
    <2> QED BY <2>1, <2>2, <2>3
  <1> QED BY <1>0, <1>1, <1>2, <1>3, <1>s, <1>4, <1>5, <1>6, <1>7, <1>8, <1>9, <1>10, <1>11, <1>12, <1>13, <1>14, <1>15, <1>16, <1>17, <1>18, <1>19, <1>20, <1>21, <1>22, <1>23, <1>24, <1>25, <1>26, <1>27, <1>28, <1>29 DEF Next, RunNext, CallNext

\* Type correctness of the scheduler; Manager.running never exceeds
\* AGENT_MAX_CONCURRENT_RUNS.
THEOREM TypesHold == Spec => []TypeInv
  BY InitTypes, NextTypes, PTL DEF Spec

-----------------------------------------------------------------------------
(* One run per chat.                                                       *)

\* A chat's queue holds distinct runs of that chat, none of them executing;
\* an executing run is its chat's active one; only an active run keeps a
\* queue alive.
ChatInv ==
    /\ \A c \in Chats : \A i \in 1..Len(chatQueue[c]) :
          pc[chatQueue[c][i]] = "chatQueue" /\ chatOf[chatQueue[c][i]] = c
    /\ \A c \in Chats : \A i, j \in 1..Len(chatQueue[c]) :
          chatQueue[c][i] = chatQueue[c][j] => i = j
    /\ \A r \in Runs : pc[r] \in Executing =>
          chatOf[r] \in Chats /\ chatActive[chatOf[r]] = r
    /\ \A c \in Chats : chatActive[c] = Null => chatQueue[c] = <<>>

\* A step of an executing run that stays executing and leaves the queues alone
\* preserves ChatInv.
LEMMA ChatInvExecuting ==
    ASSUME TypeInv, ChatInv, NEW r \in Runs, pc[r] \in Executing,
           NEW x \in Executing, pc' = [pc EXCEPT ![r] = x],
           UNCHANGED <<chatOf, chatActive, chatQueue>>
    PROVE  ChatInv'
  <1>1. \A c \in Chats : \A i \in 1..Len(chatQueue[c]) : chatQueue[c][i] \in Runs
    BY ElementOfSeq DEF TypeInv, ChatTypes
  <1>2. "chatQueue" \notin Executing
    BY DEF Executing
  <1>3. pc \in [Runs -> PCs]
    BY DEF TypeInv, RunTypes
  <1> QED BY <1>1, <1>2, <1>3 DEF ChatInv

\* A step that moves no run between the queues preserves ChatInv.
LEMMA ChatInvStutter ==
    ASSUME ChatInv, UNCHANGED <<pc, chatOf, chatActive, chatQueue>>
    PROVE  ChatInv'
  BY DEF ChatInv

\* submit() of a run preserves ChatInv.
LEMMA ChatInvSubmit ==
    ASSUME TypeInv, ChatInv, NEW r \in Runs, NEW c \in Chats, Submit(r, c)
    PROVE  ChatInv'
  <1>1. \A d \in Chats : \A i \in 1..Len(chatQueue[d]) :
          chatQueue[d][i] \in Runs /\ chatQueue[d][i] # r
    BY ElementOfSeq DEF TypeInv, ChatTypes, ChatInv, Submit
  <1>2. /\ pc \in [Runs -> PCs]
        /\ chatOf \in [Runs -> Chats \cup {Null}]
        /\ chatActive \in [Chats -> Runs \cup {Null}]
        /\ chatQueue \in [Chats -> Seq(Runs)]
        /\ Null \notin Runs
        /\ pc[r] = "none"
    BY SchedulerAssumption DEF TypeInv, RunTypes, ChatTypes, Submit
  <1>3. chatOf' = [chatOf EXCEPT ![r] = c]
    BY DEF Submit
  <1>4. CASE chatActive[c] # Null
    <2>1. /\ chatQueue' = [chatQueue EXCEPT ![c] = Append(chatQueue[c], r)]
          /\ pc' = [pc EXCEPT ![r] = "chatQueue"]
          /\ chatActive' = chatActive
      BY <1>4 DEF Submit
    <2>2. /\ Len(Append(chatQueue[c], r)) = Len(chatQueue[c]) + 1
          /\ \A i \in 1..Len(chatQueue[c]) : Append(chatQueue[c], r)[i] = chatQueue[c][i]
          /\ Append(chatQueue[c], r)[Len(chatQueue[c]) + 1] = r
          /\ Len(chatQueue[c]) \in Nat
      BY <1>2, AppendProperties
    <2>3. \A d \in Chats : \A i \in 1..Len(chatQueue'[d]) :
             pc'[chatQueue'[d][i]] = "chatQueue" /\ chatOf'[chatQueue'[d][i]] = d
      <3> SUFFICES ASSUME NEW d \in Chats, NEW i \in 1..Len(chatQueue'[d])
                   PROVE  pc'[chatQueue'[d][i]] = "chatQueue" /\ chatOf'[chatQueue'[d][i]] = d
        OBVIOUS
      <3>1. CASE d # c
        BY <1>1, <1>2, <1>3, <2>1, <3>1 DEF ChatInv
      <3>2. CASE d = c /\ i = Len(chatQueue[c]) + 1
        BY <1>2, <1>3, <2>1, <2>2, <3>2
      <3>3. CASE d = c /\ i # Len(chatQueue[c]) + 1
        <4>1. i \in 1..Len(chatQueue[c]) /\ chatQueue'[d][i] = chatQueue[c][i]
          BY <1>2, <2>1, <2>2, <3>3
        <4> QED BY <1>1, <1>2, <1>3, <2>1, <3>3, <4>1 DEF ChatInv
      <3> QED BY <3>1, <3>2, <3>3
    <2>4. \A d \in Chats : \A i, j \in 1..Len(chatQueue'[d]) :
             chatQueue'[d][i] = chatQueue'[d][j] => i = j
      <3> SUFFICES ASSUME NEW d \in Chats, NEW i \in 1..Len(chatQueue'[d]),
                          NEW j \in 1..Len(chatQueue'[d]), chatQueue'[d][i] = chatQueue'[d][j]
                   PROVE  i = j
        OBVIOUS
      <3>1. CASE d # c
        BY <1>2, <2>1, <3>1 DEF ChatInv
      <3>2. CASE d = c
        <4>1. chatQueue'[d] = Append(chatQueue[c], r)
          BY <1>2, <2>1, <3>2
        <4> QED BY <1>1, <2>2, <3>2, <4>1 DEF ChatInv
      <3> QED BY <3>1, <3>2
    <2>5. \A x \in Runs : pc'[x] \in Executing => chatOf'[x] \in Chats /\ chatActive'[chatOf'[x]] = x
      BY <1>2, <1>3, <2>1 DEF ChatInv, Executing
    <2>6. \A d \in Chats : chatActive'[d] = Null => chatQueue'[d] = <<>>
      BY <1>2, <1>4, <2>1 DEF ChatInv
    <2> QED BY <2>3, <2>4, <2>5, <2>6 DEF ChatInv
  <1>5. CASE chatActive[c] = Null
    <2>1. /\ chatQueue' = chatQueue
          /\ pc' = [pc EXCEPT ![r] = "submitted"]
          /\ chatActive' = [chatActive EXCEPT ![c] = r]
      BY <1>5 DEF Submit
    <2>2. \A x \in Runs : pc'[x] \in Executing => chatOf'[x] \in Chats /\ chatActive'[chatOf'[x]] = x
      <3> SUFFICES ASSUME NEW x \in Runs, pc'[x] \in Executing
                   PROVE  chatOf'[x] \in Chats /\ chatActive'[chatOf'[x]] = x
        OBVIOUS
      <3>1. CASE x = r
        BY <1>2, <1>3, <2>1, <3>1
      <3>2. CASE x # r
        <4>1. pc[x] \in Executing /\ chatOf'[x] = chatOf[x]
          BY <1>2, <1>3, <2>1, <3>2
        <4>2. chatOf[x] \in Chats /\ chatActive[chatOf[x]] = x
          BY <4>1 DEF ChatInv
        <4>3. chatOf[x] # c
          BY <1>2, <1>5, <4>2
        <4> QED BY <1>2, <2>1, <4>1, <4>2, <4>3
      <3> QED BY <3>1, <3>2
    <2> QED BY <1>1, <1>2, <1>3, <2>1, <2>2 DEF ChatInv
  <1> QED BY <1>4, <1>5

\* The promotion at the end of finish() preserves ChatInv.
LEMMA ChatInvPromote ==
    ASSUME TypeInv, ChatInv, NEW r \in Runs, Promote(r)
    PROVE  ChatInv'
  <1> DEFINE c == chatOf[r]
             q == chatQueue[c]
  <1>1. /\ pc[r] = "released"
        /\ c \in Chats
        /\ chatActive[c] = r
        /\ chatOf' = chatOf
    BY DEF Promote, ChatInv, Executing
  <1>2. /\ pc \in [Runs -> PCs]
        /\ chatOf \in [Runs -> Chats \cup {Null}]
        /\ chatActive \in [Chats -> Runs \cup {Null}]
        /\ chatQueue \in [Chats -> Seq(Runs)]
        /\ Null \notin Runs
    BY SchedulerAssumption DEF TypeInv, RunTypes, ChatTypes
  <1>3. \A d \in Chats : \A i \in 1..Len(chatQueue[d]) :
          chatQueue[d][i] \in Runs /\ chatQueue[d][i] # r
    BY <1>1, <1>2, ElementOfSeq DEF ChatInv
  <1>4. \A x \in Runs : x # r /\ pc[x] \in Executing => chatOf[x] # c
    BY <1>1 DEF ChatInv
  <1>5. CASE q = <<>>
    <2>1. /\ chatActive' = [chatActive EXCEPT ![c] = Null]
          /\ pc' = [pc EXCEPT ![r] = "over"]
          /\ chatQueue' = chatQueue
      BY <1>5 DEF Promote
    <2>2. \A x \in Runs : pc'[x] \in Executing => chatOf'[x] \in Chats /\ chatActive'[chatOf'[x]] = x
      BY <1>1, <1>2, <1>4, <2>1 DEF ChatInv, Executing
    <2>3. \A d \in Chats : chatActive'[d] = Null => chatQueue'[d] = <<>>
      BY <1>1, <1>2, <1>5, <2>1 DEF ChatInv
    <2> QED BY <1>1, <1>2, <1>3, <2>1, <2>2, <2>3 DEF ChatInv
  <1>6. CASE q # <<>>
    <2> DEFINE h == Head(q)
    <2>1. /\ chatActive' = [chatActive EXCEPT ![c] = h]
          /\ pc' = [pc EXCEPT ![r] = "over", ![h] = "promoted"]
          /\ chatQueue' = [chatQueue EXCEPT ![c] = Tail(q)]
      BY <1>6 DEF Promote
    <2>2. /\ h = q[1] /\ 1 \in 1..Len(q)
          /\ Len(Tail(q)) = Len(q) - 1
          /\ \A i \in 1..Len(Tail(q)) : Tail(q)[i] = q[i + 1] /\ i + 1 \in 1..Len(q)
      BY <1>1, <1>2, <1>6, HeadTailProperties
    <2>3. /\ h \in Runs /\ h # r /\ pc[h] = "chatQueue" /\ chatOf[h] = c
          /\ \A i \in 2..Len(q) : q[i] # h
      BY <1>1, <1>3, <2>2 DEF ChatInv
    <2> HIDE DEF h
    <2>4. \A d \in Chats : \A i \in 1..Len(chatQueue'[d]) :
             pc'[chatQueue'[d][i]] = "chatQueue" /\ chatOf'[chatQueue'[d][i]] = d
      <3> SUFFICES ASSUME NEW d \in Chats, NEW i \in 1..Len(chatQueue'[d])
                   PROVE  pc'[chatQueue'[d][i]] = "chatQueue" /\ chatOf'[chatQueue'[d][i]] = d
        OBVIOUS
      <3>1. CASE d # c
        <4>1. chatQueue'[d] = chatQueue[d] /\ i \in 1..Len(chatQueue[d])
          BY <1>2, <2>1, <3>1
        <4>2. /\ pc[chatQueue[d][i]] = "chatQueue" /\ chatOf[chatQueue[d][i]] = d
              /\ chatQueue[d][i] \in Runs /\ chatQueue[d][i] # r
          BY <1>3, <4>1 DEF ChatInv
        <4>3. chatQueue[d][i] # h
          BY <2>3, <3>1, <4>2
        <4> QED BY <1>1, <1>2, <2>1, <4>1, <4>2, <4>3
      <3>2. CASE d = c
        <4>1. chatQueue'[d] = Tail(q)
          BY <1>1, <1>2, <2>1, <3>2
        <4>2. chatQueue'[d][i] = q[i + 1] /\ i + 1 \in 2..Len(q)
          BY <2>2, <4>1
        <4>3. /\ pc[q[i + 1]] = "chatQueue" /\ chatOf[q[i + 1]] = c
              /\ q[i + 1] \in Runs /\ q[i + 1] # r /\ q[i + 1] # h
          BY <1>1, <1>3, <2>3, <4>2 DEF ChatInv
        <4> QED BY <1>1, <1>2, <2>1, <3>2, <4>2, <4>3
      <3> QED BY <3>1, <3>2
    <2>5. \A d \in Chats : \A i, j \in 1..Len(chatQueue'[d]) :
             chatQueue'[d][i] = chatQueue'[d][j] => i = j
      <3> SUFFICES ASSUME NEW d \in Chats, NEW i \in 1..Len(chatQueue'[d]),
                          NEW j \in 1..Len(chatQueue'[d]), chatQueue'[d][i] = chatQueue'[d][j]
                   PROVE  i = j
        OBVIOUS
      <3>1. CASE d # c
        BY <1>2, <2>1, <3>1 DEF ChatInv
      <3>2. CASE d = c
        <4>1. chatQueue'[d] = Tail(q)
          BY <1>1, <1>2, <2>1, <3>2
        <4>2. /\ q[i + 1] = q[j + 1] /\ i + 1 \in 1..Len(q) /\ j + 1 \in 1..Len(q)
              /\ i \in Int /\ j \in Int
          BY <2>2, <4>1
        <4>3. i + 1 = j + 1
          BY <1>1, <4>2 DEF ChatInv
        <4> QED BY <4>2, <4>3
      <3> QED BY <3>1, <3>2
    <2>6. \A x \in Runs : pc'[x] \in Executing => chatOf'[x] \in Chats /\ chatActive'[chatOf'[x]] = x
      <3> SUFFICES ASSUME NEW x \in Runs, pc'[x] \in Executing
                   PROVE  chatOf'[x] \in Chats /\ chatActive'[chatOf'[x]] = x
        OBVIOUS
      <3>1. CASE x = h
        BY <1>1, <1>2, <2>1, <2>3, <3>1
      <3>2. CASE x # h
        <4>1. x # r
          BY <1>2, <2>1, <2>3, <3>2 DEF Executing
        <4>2. pc[x] \in Executing
          BY <1>2, <2>1, <3>2, <4>1
        <4> QED BY <1>1, <1>2, <1>4, <2>1, <4>1, <4>2 DEF ChatInv
      <3> QED BY <3>1, <3>2
    <2>7. \A d \in Chats : chatActive'[d] = Null => chatQueue'[d] = <<>>
      BY <1>1, <1>2, <2>1, <2>3 DEF ChatInv
    <2> QED BY <2>4, <2>5, <2>6, <2>7 DEF ChatInv
  <1> QED BY <1>5, <1>6

\* cancelRunState() preserves ChatInv.
LEMMA ChatInvCancel ==
    ASSUME TypeInv, ChatInv, NEW r \in Runs, Cancel(r)
    PROVE  ChatInv'
  <1>1. CASE pc[r] # "chatQueue"
    BY <1>1, ChatInvStutter DEF Cancel
  <1>2. CASE pc[r] = "chatQueue"
    <2> DEFINE c == chatOf[r]
               s == RemoveFirst(chatQueue[c], r)
    <2>1. /\ chatQueue' = [chatQueue EXCEPT ![c] = s]
          /\ pc' = [pc EXCEPT ![r] = "dequeued"]
          /\ chatActive' = chatActive
          /\ chatOf' = chatOf
      BY <1>2 DEF Cancel
    <2>2. /\ pc \in [Runs -> PCs]
          /\ chatQueue \in [Chats -> Seq(Runs)]
          /\ \A d \in Chats : \A i \in 1..Len(chatQueue[d]) : chatQueue[d][i] \in Runs
      BY ElementOfSeq DEF TypeInv, RunTypes, ChatTypes
    <2>3. c \in Chats =>
            /\ \A i \in 1..Len(s) : s[i] # r /\ \E j \in 1..Len(chatQueue[c]) : s[i] = chatQueue[c][j]
            /\ \A i, j \in 1..Len(s) : s[i] = s[j] => i = j
            /\ chatQueue[c] = <<>> => s = <<>>
      BY <2>2, RemoveFirstRest DEF ChatInv
    <2> HIDE DEF s
    <2>4. \A d \in Chats : \A i \in 1..Len(chatQueue'[d]) :
             pc'[chatQueue'[d][i]] = "chatQueue" /\ chatOf'[chatQueue'[d][i]] = d
      <3> SUFFICES ASSUME NEW d \in Chats, NEW i \in 1..Len(chatQueue'[d])
                   PROVE  pc'[chatQueue'[d][i]] = "chatQueue" /\ chatOf'[chatQueue'[d][i]] = d
        OBVIOUS
      <3>1. CASE d # c
        <4>1. chatQueue'[d] = chatQueue[d]
          BY <2>1, <2>2, <3>1
        <4>2. chatOf[chatQueue[d][i]] = d /\ pc[chatQueue[d][i]] = "chatQueue" /\ chatQueue[d][i] \in Runs
          BY <2>2, <4>1 DEF ChatInv
        <4> QED BY <2>1, <2>2, <3>1, <4>1, <4>2
      <3>2. CASE d = c
        <4>1. chatQueue'[d] = s
          BY <2>1, <2>2, <3>2
        <4>2. PICK j \in 1..Len(chatQueue[c]) : s[i] = chatQueue[c][j] /\ s[i] # r
          BY <2>3, <3>2, <4>1
        <4>3. chatOf[s[i]] = c /\ pc[s[i]] = "chatQueue" /\ s[i] \in Runs
          BY <2>2, <3>2, <4>2 DEF ChatInv
        <4> QED BY <2>1, <2>2, <3>2, <4>1, <4>2, <4>3
      <3> QED BY <3>1, <3>2
    <2>5. \A d \in Chats : \A i, j \in 1..Len(chatQueue'[d]) :
             chatQueue'[d][i] = chatQueue'[d][j] => i = j
      <3> SUFFICES ASSUME NEW d \in Chats PROVE \A i, j \in 1..Len(chatQueue'[d]) :
                      chatQueue'[d][i] = chatQueue'[d][j] => i = j
        OBVIOUS
      <3>1. CASE d # c
        BY <2>1, <2>2, <3>1 DEF ChatInv
      <3>2. CASE d = c
        <4>1. chatQueue'[d] = s
          BY <2>1, <2>2, <3>2
        <4> QED BY <2>3, <3>2, <4>1
      <3> QED BY <3>1, <3>2
    <2>6. \A x \in Runs : pc'[x] \in Executing => chatOf'[x] \in Chats /\ chatActive'[chatOf'[x]] = x
      BY <2>1, <2>2 DEF ChatInv, Executing
    <2>7. \A d \in Chats : chatActive'[d] = Null => chatQueue'[d] = <<>>
      BY <2>1, <2>2, <2>3 DEF ChatInv
    <2> QED BY <2>4, <2>5, <2>6, <2>7 DEF ChatInv
  <1> QED BY <1>1, <1>2

\* ChatInv holds initially.
LEMMA InitChat == Init => ChatInv
  BY DEF Init, ChatInv, Executing

\* ChatInv is preserved by every step.
LEMMA NextChat == TypeInv /\ ChatInv /\ [Next]_vars => ChatInv'
  <1> SUFFICES ASSUME TypeInv, ChatInv, [Next]_vars PROVE ChatInv'
    OBVIOUS
  <1> USE DEF process, slots, waits, chatQs
  <1>0. CASE UNCHANGED vars
    BY <1>0, ChatInvStutter DEF vars
  <1>1. CASE Start
    BY <1>1, ChatInvStutter DEF Start
  <1>2. CASE Crash
    <2>1. \A c \in Chats : chatQueue'[c] = <<>>
      BY <1>2 DEF Crash
    <2>2. \A r \in Runs : pc'[r] \notin Executing
      BY <1>2 DEF Crash, Executing
    <2> QED BY <2>1, <2>2 DEF ChatInv
  <1>3. CASE Shutdown
    BY <1>3, ChatInvStutter DEF Shutdown
  <1>s. ASSUME NEW c \in Chats, SoftDelete(c) PROVE ChatInv'
    BY <1>s, ChatInvStutter DEF SoftDelete
  <1>4. ASSUME NEW r \in Runs, NEW c \in Chats, Submit(r, c) PROVE ChatInv'
    BY <1>4, ChatInvSubmit
  <1>5. ASSUME NEW r \in Runs, NEW c \in Chats, SubmitRefused(r, c) PROVE ChatInv'
    <2>1. \A d \in Chats : \A i \in 1..Len(chatQueue[d]) :
            chatQueue[d][i] \in Runs /\ chatQueue[d][i] # r
      BY <1>5, ElementOfSeq DEF TypeInv, ChatTypes, ChatInv, SubmitRefused
    <2> QED BY <1>5, <2>1 DEF SubmitRefused, ChatInv, Executing, TypeInv, RunTypes
  <1>6. ASSUME NEW r \in Runs, Cancel(r) PROVE ChatInv'
    BY <1>6, ChatInvCancel
  <1>7. ASSUME NEW r \in Runs, WallTimer(r) PROVE ChatInv'
    BY <1>7, ChatInvStutter DEF WallTimer
  <1>8. ASSUME NEW r \in Runs, MaterializeSubmitted(r) PROVE ChatInv'
    BY <1>8, ChatInvExecuting DEF MaterializeSubmitted, EndsWith, Executing
  <1>9. ASSUME NEW r \in Runs, MaterializePromoted(r) PROVE ChatInv'
    BY <1>9, ChatInvExecuting DEF MaterializePromoted, EndsWith, Executing
  <1>10. ASSUME NEW r \in Runs, Begin(r) PROVE ChatInv'
    BY <1>10, ChatInvExecuting DEF Begin, EndsWith, Executing
  <1>11. ASSUME NEW r \in Runs, AbandonStart(r) PROVE ChatInv'
    BY <1>11, ChatInvExecuting DEF AbandonStart, EndsWith, Executing
  <1>12. ASSUME NEW r \in Runs, CommandTurn(r) PROVE ChatInv'
    BY <1>12, ChatInvExecuting DEF CommandTurn, EndsWith, Executing
  <1>13. ASSUME NEW r \in Runs, LoopTop(r) PROVE ChatInv'
    BY <1>13, ChatInvExecuting DEF LoopTop, EndsWith, Executing
  <1>14. ASSUME NEW r \in Runs, Lookup(r) PROVE ChatInv'
    BY <1>14, ChatInvExecuting DEF Lookup, EndsWith, Executing
  <1>15. ASSUME NEW r \in Runs, Turn(r) PROVE ChatInv'
    BY <1>15, ChatInvExecuting DEF Turn, EndsWith, Executing
  <1>16. ASSUME NEW r \in Runs, ToolsDone(r) PROVE ChatInv'
    BY <1>16, ChatInvExecuting DEF ToolsDone, EndsWith, Executing
  <1>17. ASSUME NEW r \in Runs, Finish(r) PROVE ChatInv'
    BY <1>17, ChatInvExecuting DEF Finish, EndsWith, Executing
  <1>18. ASSUME NEW r \in Runs, FinishRelease(r) PROVE ChatInv'
    BY <1>18, ChatInvExecuting DEF FinishRelease, EndsWith, Executing
  <1>19. ASSUME NEW r \in Runs, AcquireStart(r) PROVE ChatInv'
    BY <1>19, ChatInvStutter DEF AcquireStart
  <1>20. ASSUME NEW r \in Runs, Promote(r) PROVE ChatInv'
    BY <1>20, ChatInvPromote
  <1>21. ASSUME NEW r \in Runs, FinishQueued(r) PROVE ChatInv'
    <2>1. \A d \in Chats : \A i \in 1..Len(chatQueue[d]) :
            chatQueue[d][i] \in Runs /\ chatQueue[d][i] # r
      BY <1>21, ElementOfSeq DEF TypeInv, ChatTypes, ChatInv, FinishQueued
    <2>2. /\ pc' = [pc EXCEPT ![r] = "over"] /\ pc \in [Runs -> PCs]
          /\ UNCHANGED <<chatOf, chatActive, chatQueue>>
      BY <1>21 DEF FinishQueued, TypeInv, RunTypes
    <2>3. \A x \in Runs : pc'[x] \in Executing => pc[x] \in Executing
      BY <2>2 DEF Executing
    <2> QED BY <2>1, <2>2, <2>3 DEF ChatInv
  <1>22. ASSUME NEW r \in Runs, NEW k \in Calls, CallNext(r, k) PROVE ChatInv'
    BY <1>22, ChatInvStutter DEF CallNext, CallStart, CallStep, EnterWait, LeaveWait,
       LeaveWaitLast, AcquireResume, Resume, AbandonResume
  <1> QED BY <1>0, <1>1, <1>2, <1>3, <1>s, <1>4, <1>5, <1>6, <1>7, <1>8, <1>9, <1>10, <1>11, <1>12, <1>13, <1>14, <1>15, <1>16, <1>17, <1>18, <1>19, <1>20, <1>21, <1>22 DEF Next, RunNext

\* R4: whatever is submitted, cancelled, finished, shut down or crashed in
\* whatever order, only a chat's active run executes and no run is left in
\* the queue of a chat without an active run.
THEOREM OneRunPerChatHolds == Spec => []OneRunPerChat
  <1>1. Init => TypeInv /\ ChatInv
    BY InitTypes, InitChat
  <1>2. TypeInv /\ ChatInv /\ [Next]_vars => (TypeInv /\ ChatInv)'
    BY NextTypes, NextChat
  <1>3. ChatInv => OneRunPerChat
    BY DEF ChatInv, OneRunPerChat
  <1> QED BY <1>1, <1>2, <1>3, PTL DEF Spec

-----------------------------------------------------------------------------
(* The rows of the runs.                                                   *)

\* Where a run still owes its row a final status.
Owing == {"chatQueue", "submitted", "promoted", "acquire", "loop", "lookup",
          "turn", "tools", "finish", "dequeued"}

\* The calls of a turn are over before the run goes on.
CallsInTurn == \A r \in Runs, k \in Calls : call[<<r, k>>] # "off" => pc[r] = "tools"

\* What the row of a run says, by where the run is.
RowInv ==
    /\ ~up => \A r \in Runs : pc[r] \in {"none", "over"}
    /\ \A r \in Runs :
          /\ pc[r] = "none" => status[r] = "none"
          /\ pc[r] \in {"recorded", "released"} => status[r] \in Terminal
          /\ up /\ pc[r] = "over" => status[r] \notin Unfinished
          /\ pc[r] \in Owing /\ chatOf[r] \notin deleted => status[r] \in Unfinished

\* Initially there are no rows.
LEMMA InitRows == Init => CallsInTurn /\ RowInv
  BY DEF Init, CallsInTurn, RowInv, Owing, Unfinished

\* The run's own goroutine waits for the calls of its turn (execTools).
LEMMA StepCalls == TypeInv /\ ChatInv /\ CallsInTurn /\ [Next]_vars => CallsInTurn'
  <1> SUFFICES ASSUME TypeInv, ChatInv, CallsInTurn, [Next]_vars PROVE CallsInTurn'
    OBVIOUS
  <1> USE DEF process, slots, waits, chatQs, TypeInv, RunTypes, CallsInTurn
  <1>1. CASE Start \/ Crash \/ Shutdown \/ UNCHANGED vars
    BY <1>1 DEF Start, Crash, Shutdown, vars
  <1>2. ASSUME NEW c \in Chats, SoftDelete(c) PROVE CallsInTurn'
    BY <1>2 DEF SoftDelete
  <1>3. ASSUME NEW r \in Runs, NEW c \in Chats, Submit(r, c) \/ SubmitRefused(r, c)
        PROVE  CallsInTurn'
    BY <1>3 DEF Submit, SubmitRefused
  <1>4. ASSUME NEW r \in Runs, Cancel(r) \/ WallTimer(r) PROVE CallsInTurn'
    BY <1>4 DEF Cancel, WallTimer
  <1>5. ASSUME NEW r \in Runs, \/ MaterializeSubmitted(r) \/ MaterializePromoted(r)
                               \/ AcquireStart(r) \/ Begin(r) \/ AbandonStart(r)
                               \/ CommandTurn(r) \/ LoopTop(r) \/ Lookup(r)
        PROVE  CallsInTurn'
    BY <1>5 DEF MaterializeSubmitted, MaterializePromoted, AcquireStart, Begin, AbandonStart,
                CommandTurn, LoopTop, Lookup, EndsWith
  <1>6. ASSUME NEW r \in Runs, Turn(r) PROVE CallsInTurn'
    BY <1>6 DEF Turn, EndsWith
  <1>7. ASSUME NEW r \in Runs, ToolsDone(r) PROVE CallsInTurn'
    BY <1>7 DEF ToolsDone, EndsWith
  <1>8. ASSUME NEW r \in Runs, Finish(r) \/ FinishRelease(r) \/ FinishQueued(r)
        PROVE  CallsInTurn'
    BY <1>8 DEF Finish, FinishRelease, FinishQueued
  <1>9. ASSUME NEW r \in Runs, Promote(r) PROVE CallsInTurn'
    <2> DEFINE q == chatQueue[chatOf[r]]
    <2>1. q # <<>> => Head(q) \in Runs /\ pc[Head(q)] = "chatQueue"
      <3>1. chatOf[r] \in Chats /\ q \in Seq(Runs)
        BY <1>9 DEF Promote, ChatInv, Executing, ChatTypes
      <3>2. ASSUME q # <<>> PROVE Head(q) = q[1] /\ 1 \in 1..Len(q) /\ q[1] \in Runs
        BY <3>1, <3>2
      <3> QED BY <3>1, <3>2 DEF ChatInv
    <2> QED BY <1>9, <2>1 DEF Promote
  <1>10. ASSUME NEW r \in Runs, NEW k \in Calls, CallNext(r, k) PROVE CallsInTurn'
    <2>1. call[<<r, k>>] # "off" /\ UNCHANGED pc
      BY <1>10 DEF CallNext, CallStart, CallStep, EnterWait, LeaveWait, LeaveWaitLast,
                   AcquireResume, Resume, AbandonResume
    <2>2. \E s : call' = [call EXCEPT ![<<r, k>>] = s]
      <3>1. call = [call EXCEPT ![<<r, k>>] = call[<<r, k>>]]
        OBVIOUS
      <3>2. CASE AcquireResume(r, k)
        BY <3>1, <3>2 DEF AcquireResume
      <3> QED BY <1>10, <3>2, Zenon DEF CallNext, CallStart, CallStep, EnterWait, LeaveWait,
                   LeaveWaitLast, Resume, AbandonResume, AfterWait, SetCall
    <2> QED BY <2>1, <2>2
  <1> QED BY <1>1, <1>2, <1>3, <1>4, <1>5, <1>6, <1>7, <1>8, <1>9, <1>10 DEF Next, RunNext

\* A step that writes no row and leaves every run where it is.
LEMMA RowsStay ==
    ASSUME RowInv, UNCHANGED <<up, deleted, status, chatOf, pc>>
    PROVE  RowInv' /\ UNCHANGED status
  BY DEF RowInv

\* What a step of one run may do to its row.
MovesRun(r) ==
    /\ UNCHANGED <<up, deleted, chatOf>>
    /\ \A x \in Runs \ {r} : pc'[x] = pc[x] /\ status'[x] = status[x]
    /\ pc'[r] \notin {"none", "recorded", "released", "over"}
    /\ pc[r] \in Owing
    /\ status'[r] \in Unfinished \cup {status[r]}

\* A run that goes on keeps its row unfinished.
LEMMA RowOfMover ==
    ASSUME TypeInv, RowInv, NEW r \in Runs, MovesRun(r)
    PROVE  /\ RowInv'
           /\ \A x \in Runs : status[x] \in Terminal /\ chatOf[x] \notin deleted => status'[x] = status[x]
  <1>1. Unfinished \cap Terminal = {}
    BY DEF Unfinished, Terminal
  <1>2. up
    BY DEF RowInv, MovesRun, Owing
  <1>3. status[r] \in Terminal => chatOf[r] \in deleted
    BY <1>1 DEF RowInv, MovesRun
  <1>4. RowInv'
    BY <1>2 DEF RowInv, MovesRun
  <1> QED BY <1>3, <1>4 DEF MovesRun

\* Every step keeps what the rows say and overwrites no final status.
RowsKept == /\ RowInv'
            /\ \A x \in Runs : status[x] \in Terminal /\ chatOf[x] \notin deleted
                                 => status'[x] = status[x]

LEMMA StepRows ==
    TypeInv /\ ChatInv /\ CallsInTurn /\ RowInv /\ [Next]_vars => RowsKept
  <1> SUFFICES ASSUME TypeInv, ChatInv, CallsInTurn, RowInv, [Next]_vars PROVE RowsKept
    OBVIOUS
  <1> USE DEF process, slots, waits, chatQs, RowsKept
  <1>a. /\ status \in [Runs -> RunStatus] /\ pc \in [Runs -> PCs]
        /\ chatOf \in [Runs -> Chats \cup {Null}] /\ up \in BOOLEAN
        /\ call \in [Runs \X Calls -> CallStates]
        /\ \A r \in Runs : pc[r] = "finish" => outcome[r] \in Terminal
    BY DEF TypeInv, RunTypes
  <1>b. Unfinished \cap Terminal = {} /\ "none" \notin Unfinished \cup Terminal
    BY DEF Unfinished, Terminal
  <1>1. CASE Start
    <2>1. \A r \in Runs : status'[r] = Sweep(status[r])
      BY <1>1 DEF Start
    <2>2. \A r \in Runs : status'[r] \notin Unfinished /\
                          (status[r] \notin Unfinished => status'[r] = status[r])
      BY <2>1 DEF Sweep, Unfinished
    <2> QED BY <1>1, <1>b, <2>2 DEF Start, RowInv, Owing
  <1>2. CASE Crash
    BY <1>2, <1>a DEF Crash, RowInv, Owing
  <1>3. CASE Shutdown \/ UNCHANGED vars
    BY <1>3, RowsStay DEF Shutdown, vars
  <1>4. ASSUME NEW c \in Chats, SoftDelete(c) PROVE RowsKept
    <2>1. \A r \in Runs : status'[r] = IF chatOf[r] = c /\ status[r] \in Unfinished
                                         THEN "cancelled" ELSE status[r]
      BY <1>4 DEF SoftDelete
    <2>2. "cancelled" \in Terminal
      BY DEF Terminal
    <2> QED BY <1>4, <1>b, <2>1, <2>2 DEF SoftDelete, RowInv
  <1>5. ASSUME NEW r \in Runs, NEW c \in Chats, Submit(r, c) PROVE RowsKept
    <2>1. /\ UNCHANGED <<up, deleted>> /\ up
          /\ \A x \in Runs \ {r} : pc'[x] = pc[x] /\ status'[x] = status[x] /\ chatOf'[x] = chatOf[x]
          /\ pc'[r] \in {"chatQueue", "submitted"} /\ status'[r] = "queued" /\ status[r] = "none"
      BY <1>5, <1>a DEF Submit, RowInv
    <2>2. "queued" \in Unfinished
      BY DEF Unfinished
    <2> QED BY <1>b, <2>1, <2>2 DEF RowInv
  <1>6. ASSUME NEW r \in Runs, NEW c \in Chats, SubmitRefused(r, c) PROVE RowsKept
    <2>1. /\ UNCHANGED <<up, deleted>> /\ up
          /\ \A x \in Runs \ {r} : pc'[x] = pc[x] /\ status'[x] = status[x] /\ chatOf'[x] = chatOf[x]
          /\ pc'[r] = "over" /\ status'[r] = "done" /\ status[r] = "none"
      BY <1>6, <1>a DEF SubmitRefused, RowInv
    <2>2. "done" \notin Unfinished
      BY DEF Unfinished
    <2> QED BY <1>b, <2>1, <2>2 DEF RowInv, Owing
  <1>7. ASSUME NEW r \in Runs, Cancel(r) PROVE RowsKept
    <2>1. CASE pc[r] = "chatQueue"
      <3>1. MovesRun(r)
        BY <1>7, <1>a, <2>1 DEF Cancel, MovesRun, Owing
      <3> QED BY <3>1, RowOfMover
    <2>2. CASE pc[r] # "chatQueue"
      BY <1>7, <2>2, RowsStay DEF Cancel
    <2> QED BY <2>1, <2>2
  <1>8. ASSUME NEW r \in Runs, WallTimer(r) \/ AcquireStart(r) PROVE RowsKept
    BY <1>8, RowsStay DEF WallTimer, AcquireStart
  <1>9. ASSUME NEW r \in Runs, \/ MaterializeSubmitted(r) \/ MaterializePromoted(r) \/ Begin(r)
                               \/ AbandonStart(r) \/ CommandTurn(r) \/ LoopTop(r) \/ Lookup(r)
                               \/ Turn(r) \/ ToolsDone(r)
        PROVE  RowsKept
    <2>1. MovesRun(r)
      BY <1>9, <1>a DEF MaterializeSubmitted, MaterializePromoted, Begin, AbandonStart, CommandTurn,
                        LoopTop, Lookup, Turn, ToolsDone, EndsWith, MovesRun, Owing, Unfinished
    <2> QED BY <2>1, RowOfMover
  <1>10. ASSUME NEW r \in Runs, Finish(r) PROVE RowsKept
    <2>1. /\ UNCHANGED <<up, deleted, chatOf>>
          /\ \A x \in Runs \ {r} : pc'[x] = pc[x] /\ status'[x] = status[x]
          /\ pc'[r] = "recorded" /\ pc[r] = "finish" /\ status'[r] \in Terminal
      BY <1>10, <1>a DEF Finish
    <2> QED BY <1>b, <2>1 DEF RowInv, Owing
  <1>11. ASSUME NEW r \in Runs, FinishRelease(r) PROVE RowsKept
    BY <1>11, <1>a, <1>b DEF FinishRelease, RowInv, Owing
  <1>12. ASSUME NEW r \in Runs, FinishQueued(r) PROVE RowsKept
    <2>1. /\ UNCHANGED <<up, deleted, chatOf>>
          /\ \A x \in Runs \ {r} : pc'[x] = pc[x] /\ status'[x] = status[x]
          /\ pc'[r] = "over" /\ pc[r] = "dequeued" /\ status'[r] = "cancelled"
      BY <1>12, <1>a DEF FinishQueued
    <2>2. "cancelled" \in Terminal
      BY DEF Terminal
    <2> QED BY <1>b, <2>1, <2>2 DEF RowInv, Owing
  <1>13. ASSUME NEW r \in Runs, Promote(r) PROVE RowsKept
    <2> DEFINE q == chatQueue[chatOf[r]]
    <2>1. chatOf[r] \in Chats /\ q \in Seq(Runs)
      BY <1>13 DEF Promote, ChatInv, Executing, TypeInv, ChatTypes
    <2>2. q # <<>> => Head(q) \in Runs /\ pc[Head(q)] = "chatQueue"
      <3>1. ASSUME q # <<>> PROVE Head(q) = q[1] /\ 1 \in 1..Len(q) /\ q[1] \in Runs
        BY <2>1, <3>1
      <3> QED BY <2>1, <3>1 DEF ChatInv
    <2>3. /\ UNCHANGED <<up, deleted, chatOf, status>>
          /\ pc'[r] = "over" /\ pc[r] = "released"
          /\ \A x \in Runs \ {r} :
                \/ pc'[x] = pc[x]
                \/ pc[x] = "chatQueue" /\ pc'[x] = "promoted"
      BY <1>13, <1>a, <2>2 DEF Promote
    <2> QED BY <1>b, <2>3 DEF RowInv, Owing
  <1>14. ASSUME NEW r \in Runs, NEW k \in Calls, CallNext(r, k) PROVE RowsKept
    <2>1. call[<<r, k>>] # "off" /\ UNCHANGED <<up, deleted, chatOf, pc>>
      BY <1>14 DEF CallNext, CallStart, CallStep, EnterWait, LeaveWait, LeaveWaitLast,
                   AcquireResume, Resume, AbandonResume
    <2>2. pc[r] = "tools"
      BY <2>1 DEF CallsInTurn
    <2>3. \/ UNCHANGED status
          \/ \E s \in Unfinished : status' = [status EXCEPT ![r] = s]
      <3>1. {"waiting", "running"} \subseteq Unfinished
        BY DEF Unfinished
      <3> QED BY <1>14, <3>1 DEF CallNext, CallStart, CallStep, EnterWait, LeaveWait,
                                 LeaveWaitLast, AcquireResume, Resume, AbandonResume
    <2>4. MovesRun(r)
      BY <1>a, <2>1, <2>2, <2>3 DEF MovesRun, Owing
    <2> QED BY <2>4, RowOfMover
  <1> QED BY <1>1, <1>2, <1>3, <1>4, <1>5, <1>6, <1>7, <1>8, <1>9, <1>10, <1>11, <1>12, <1>13,
             <1>14 DEF Next, RunNext

\* All that is needed of the scheduler to know its rows.
RecordInv == TypeInv /\ ChatInv /\ CallsInTurn /\ RowInv

LEMMA RecordInvHolds == Spec => []RecordInv
  <1>1. Init => RecordInv
    BY InitTypes, InitChat, InitRows DEF RecordInv
  <1>2. RecordInv /\ [Next]_vars => RecordInv'
    BY NextTypes, NextChat, StepCalls, StepRows DEF RecordInv, RowsKept
  <1> QED BY <1>1, <1>2, PTL DEF Spec

\* A3: while the hub is up every unfinished row belongs to a run the process
\* still knows (Start, finish, finishQueued), however often it died.
THEOREM NoOrphanRowHolds == Spec => []NoOrphanRow
  <1>1. RecordInv => NoOrphanRow
    BY DEF RecordInv, RowInv, NoOrphanRow, Unfinished
  <1> QED BY <1>1, RecordInvHolds, PTL

\* No late syncRun, cancel, finish or sweep overwrites a final status, unless
\* it was SoftDeleteAgent that made it final.
THEOREM FinalStatusIsFinalHolds == Spec => FinalStatusIsFinal
  <1>1. RecordInv /\ [Next]_vars =>
          [\A r \in Runs : status[r] \in Terminal /\ chatOf[r] \notin deleted
                             => status'[r] = status[r]]_vars
    BY StepRows DEF RecordInv, RowsKept
  <1> QED BY <1>1, RecordInvHolds, PTL DEF Spec, FinalStatusIsFinal

(*************************************************************************)
(* RunScheduler neither loses nor invents a concurrency slot, no turn is  *)
(* executed without one and nobody queues while one is free, for every    *)
(* number of runs, parallel calls and slots.                              *)
(*************************************************************************)

Owned == {"granted", "held"}
AcqType == [Waiters -> {"none", "queued", "granted", "held"}]

\* Who owns a slot, for what acquire() and holdsSlot say.
Owners(a, h) == {w \in Runs \X (Threads \cup {Null}) :
                   IF w[2] = Null THEN h[w[1]] ELSE a[w] \in Owned}

\* The queues of the semaphore hold distinct waiters that are marked queued,
\* calls in resumeQ and runs that start in startQ.
QueueInv ==
    /\ \A i \in 1..Len(resumeQ) : acq[resumeQ[i]] = "queued" /\ resumeQ[i][2] \in Calls
    /\ \A i, j \in 1..Len(resumeQ) : resumeQ[i] = resumeQ[j] => i = j
    /\ \A i \in 1..Len(startQ) : acq[startQ[i]] = "queued" /\ startQ[i][2] = Main
    /\ \A i, j \in 1..Len(startQ) : startQ[i] = startQ[j] => i = j

CountInv == running = Cardinality(SlotOwners)

SlotsInv == QueueInv /\ CountInv /\ NoIdleSlot

-----------------------------------------------------------------------------
(* Counting owners. *)

LEMMA OwnersAre == SlotOwners = Owners(acq, holdsSlot)
  BY DEF SlotOwners, Owners, Owned

LEMMA OwnersAreNext == SlotOwners' = Owners(acq', holdsSlot')
  BY DEF SlotOwners, Owners, Owned

LEMMA NamesDiffer == Null \notin Threads /\ Main \in Threads /\ Main \notin Calls
                     /\ Calls \subseteq Threads
  BY SchedulerAssumption DEF Threads

LEMMA OwnersFinite == \A a, h : IsFiniteSet(Owners(a, h)) /\ Cardinality(Owners(a, h)) \in Nat
  <1> TAKE a, h
  <1>1. IsFiniteSet(Threads \cup {Null})
    BY SchedulerAssumption, FS_AddElement DEF Threads
  <1>2. IsFiniteSet(Runs \X (Threads \cup {Null}))
    BY <1>1, SchedulerAssumption, FS_Product
  <1>3. Owners(a, h) \subseteq Runs \X (Threads \cup {Null})
    BY DEF Owners
  <1> QED BY <1>2, <1>3, FS_Subset, FS_CardinalityType

\* One owner more: a waiter is given a slot.
LEMMA OneMore ==
    ASSUME NEW a \in AcqType, NEW h, NEW w \in Waiters, a[w] \notin Owned, NEW s \in Owned
    PROVE  Cardinality(Owners([a EXCEPT ![w] = s], h)) = Cardinality(Owners(a, h)) + 1
  <1>1. w \in Runs \X (Threads \cup {Null}) /\ w[2] # Null
    BY NamesDiffer DEF Waiters
  <1>2. w \notin Owners(a, h)
    BY <1>1 DEF Owners
  <1>3. \A x \in Runs \X (Threads \cup {Null}) : x[2] # Null => x \in Waiters
    BY DEF Waiters
  <1>4. Owners([a EXCEPT ![w] = s], h) = Owners(a, h) \cup {w}
    BY <1>1, <1>3 DEF Owners, AcqType
  <1> QED BY <1>2, <1>4, OwnersFinite, FS_AddElement

\* One owner less: a waiter gives its slot back.
LEMMA OneLessWaiter ==
    ASSUME NEW a \in AcqType, NEW h, NEW w \in Waiters, a[w] \in Owned
    PROVE  Cardinality(Owners([a EXCEPT ![w] = "none"], h)) = Cardinality(Owners(a, h)) - 1
  <1>1. w \in Runs \X (Threads \cup {Null}) /\ w[2] # Null
    BY NamesDiffer DEF Waiters
  <1>2. w \in Owners(a, h)
    BY <1>1 DEF Owners
  <1>3. \A x \in Runs \X (Threads \cup {Null}) : x[2] # Null => x \in Waiters
    BY DEF Waiters
  <1>4. Owners([a EXCEPT ![w] = "none"], h) = Owners(a, h) \ {w}
    BY <1>1, <1>3 DEF Owners, AcqType, Owned
  <1> QED BY <1>2, <1>4, OwnersFinite, FS_RemoveElement

\* One owner less: a run gives its slot back; one more: it is handed one.
LEMMA OneLessRun ==
    ASSUME NEW a, NEW h \in [Runs -> BOOLEAN], NEW r \in Runs, h[r]
    PROVE  Cardinality(Owners(a, [h EXCEPT ![r] = FALSE])) = Cardinality(Owners(a, h)) - 1
  <1> DEFINE w == <<r, Null>>
  <1>1. w \in Runs \X (Threads \cup {Null}) /\ w[1] = r /\ w[2] = Null
    OBVIOUS
  <1>2. w \in Owners(a, h)
    BY <1>1 DEF Owners
  <1>3. \A x \in Runs \X (Threads \cup {Null}) : x[2] = Null /\ x[1] = r => x = w
    OBVIOUS
  <1>4. Owners(a, [h EXCEPT ![r] = FALSE]) = Owners(a, h) \ {w}
    BY <1>1, <1>3 DEF Owners
  <1> QED BY <1>2, <1>4, OwnersFinite, FS_RemoveElement

LEMMA OneMoreRun ==
    ASSUME NEW a, NEW h \in [Runs -> BOOLEAN], NEW r \in Runs, ~h[r]
    PROVE  Cardinality(Owners(a, [h EXCEPT ![r] = TRUE])) = Cardinality(Owners(a, h)) + 1
  <1> DEFINE w == <<r, Null>>
  <1>1. w \in Runs \X (Threads \cup {Null}) /\ w[1] = r /\ w[2] = Null
    OBVIOUS
  <1>2. w \notin Owners(a, h)
    BY <1>1 DEF Owners
  <1>3. \A x \in Runs \X (Threads \cup {Null}) : x[2] = Null /\ x[1] = r => x = w
    OBVIOUS
  <1>4. Owners(a, [h EXCEPT ![r] = TRUE]) = Owners(a, h) \cup {w}
    BY <1>1, <1>3 DEF Owners
  <1> QED BY <1>2, <1>4, OwnersFinite, FS_AddElement

-----------------------------------------------------------------------------
(* The operations of the semaphore. *)

\* What removing the head leaves of a queue.
LEMMA WithoutHead ==
    ASSUME NEW q \in Seq(Waiters), q # <<>>, NEW t, t = SubSeq(q, 2, Len(q)),
           \A i, j \in 1..Len(q) : q[i] = q[j] => i = j
    PROVE  /\ q[1] \in Waiters /\ Len(q) \in Nat /\ 1 \in 1..Len(q)
           /\ \A i \in 1..Len(t) : i + 1 \in 1..Len(q) /\ t[i] = q[i + 1] /\ t[i] # q[1]
           /\ \A i, j \in 1..Len(t) : t[i] = t[j] => i = j
  <1>1. Len(q) \in Nat /\ 1 \in 1..Len(q) /\ q[1] \in Waiters
    BY LenProperties, EmptySeq
  <1>2. Len(t) = Len(q) - 1 /\ \A i \in 1..Len(t) : i + 1 \in 1..Len(q) /\ t[i] = q[i + 1]
    <2>1. t = Tail(q)
      BY TailIsSubSeq
    <2>2. Len(t) = Len(q) - 1 /\ \A i \in 1..Len(t) : t[i] = q[i + 1]
      BY <2>1, HeadTailProperties
    <2> QED BY <1>1, <2>2
  <1> QED BY <1>1, <1>2

\* releaseLocked() keeps the queues in order and leaves no slot idle; the slot
\* that acq0 has no owner for is free or goes to a waiter that was queued.
LEMMA ReleaseHandsOver ==
    ASSUME SemaphoreTypes, QueueInv, NoIdleSlot, NEW acq0 \in AcqType,
           \A w \in Waiters : acq[w] = "queued" => acq0[w] = "queued",
           ReleaseLocked(acq0)
    PROVE  /\ QueueInv' /\ NoIdleSlot'
           /\ \/ acq' = acq0 /\ running' = running - 1
              \/ /\ running' = running
                 /\ \E w \in Waiters : acq0[w] = "queued" /\ acq' = [acq0 EXCEPT ![w] = "granted"]
  <1> DEFINE q    == resumeQ \o startQ
             free == MaxRun - (running - 1)
             n    == IF Len(q) < free THEN Len(q) ELSE free
  <1>t. /\ resumeQ \in Seq(Waiters) /\ startQ \in Seq(Waiters) /\ acq \in AcqType
        /\ running \in Int /\ running <= MaxRun /\ MaxRun \in Nat
        /\ Len(resumeQ) \in Nat /\ Len(startQ) \in Nat
    BY SchedulerAssumption, LenProperties DEF SemaphoreTypes, AcqType
  <1>q. q \in Seq(Waiters) /\ Len(q) = Len(resumeQ) + Len(startQ)
        /\ \A i \in 1..Len(q) : q[i] = IF i <= Len(resumeQ) THEN resumeQ[i]
                                       ELSE startQ[i - Len(resumeQ)]
    BY <1>t, ConcatProperties
  <1>r. /\ running' = running - 1 + n
        /\ acq' = [w \in Waiters |-> IF \E i \in 1..n : q[i] = w THEN "granted" ELSE acq0[w]]
        /\ resumeQ' = SubSeq(resumeQ, n + 1, Len(resumeQ))
        /\ startQ' = IF n > Len(resumeQ) THEN SubSeq(startQ, n - Len(resumeQ) + 1, Len(startQ))
                     ELSE startQ
    BY DEF ReleaseLocked
  <1>m. QueueInv => \A i \in 1..Len(resumeQ), j \in 1..Len(startQ) : resumeQ[i] # startQ[j]
    BY NamesDiffer DEF QueueInv
  <1>1. CASE resumeQ = <<>> /\ startQ = <<>>
    <2>1. n = 0
      <3>1. Len(q) = 0
        BY <1>1, <1>q
      <3> HIDE DEF q
      <3> QED BY <1>t, <3>1
    <2> HIDE DEF n, q
    <2>2. running' = running - 1 /\ acq' = acq0
      BY <1>t, <1>r, <2>1 DEF AcqType
    <2>3. resumeQ' = <<>> /\ startQ' = <<>>
      BY <1>1, <1>r, <2>1
    <2> QED BY <2>2, <2>3 DEF QueueInv, NoIdleSlot
  <1>2. CASE ~(resumeQ = <<>> /\ startQ = <<>>)
    <2>1. running = MaxRun
      BY <1>t, <1>2 DEF NoIdleSlot
    <2>2. n = 1
      <3>1. Len(q) >= 1
        BY <1>t, <1>q, <1>2, EmptySeq
      <3> HIDE DEF q
      <3> QED BY <1>t, <1>q, <2>1, <3>1
    <2> HIDE DEF n
    <2>3. running' = running /\ running' = MaxRun
      BY <1>t, <1>r, <2>1, <2>2
    <2>4. acq' = [acq0 EXCEPT ![q[1]] = "granted"]
      <3>1. acq' = [w \in Waiters |-> IF q[1] = w THEN "granted" ELSE acq0[w]]
        <4> HIDE DEF q
        <4> QED BY <1>r, <2>2
      <3> HIDE DEF q
      <3> QED BY <3>1 DEF AcqType
    <2>7. NoIdleSlot'
      BY <1>t, <2>3 DEF NoIdleSlot
    <2>5. CASE resumeQ # <<>>
      <3>1. /\ q[1] = resumeQ[1] /\ startQ' = startQ
            /\ resumeQ' = SubSeq(resumeQ, 2, Len(resumeQ))
        <4>1. Len(resumeQ) >= 1
          BY <1>t, <2>5, EmptySeq
        <4> QED BY <1>t, <1>q, <1>r, <2>2, <4>1
      <3> HIDE DEF q
      <3>2. /\ resumeQ[1] \in Waiters /\ 1 \in 1..Len(resumeQ)
            /\ \A i \in 1..Len(resumeQ') : i + 1 \in 1..Len(resumeQ) /\
                 resumeQ'[i] = resumeQ[i + 1] /\ resumeQ'[i] # resumeQ[1]
            /\ \A i, j \in 1..Len(resumeQ') : resumeQ'[i] = resumeQ'[j] => i = j
        BY <1>t, <2>5, <3>1, WithoutHead DEF QueueInv
      <3>3. acq0[resumeQ[1]] = "queued"
        BY <3>2 DEF QueueInv
      <3>4. \A i \in 1..Len(startQ) : startQ[i] \in Waiters /\ startQ[i] # resumeQ[1]
        BY <1>t, <1>m, <3>2, ElementOfSeq
      <3>5. \A i \in 1..Len(resumeQ) : resumeQ[i] \in Waiters
        BY <1>t, ElementOfSeq
      <3>6. QueueInv'
        BY <2>4, <3>1, <3>2, <3>4, <3>5, SMTT(30), ZenonT(60), Z3T(60) DEF QueueInv, AcqType
      <3> QED BY <2>3, <2>4, <2>7, <3>1, <3>2, <3>3, <3>6, Zenon
    <2>6. CASE resumeQ = <<>>
      <3>1. startQ # <<>> /\ Len(resumeQ) = 0
        BY <1>2, <2>6
      <3>2. q[1] = startQ[1] /\ resumeQ' = <<>> /\ startQ' = SubSeq(startQ, 2, Len(startQ))
        <4>1. Len(startQ) >= 1
          BY <1>t, <3>1, EmptySeq
        <4> QED BY <1>t, <1>q, <1>r, <2>2, <2>6, <3>1, <4>1
      <3> HIDE DEF q
      <3>3. /\ startQ[1] \in Waiters /\ 1 \in 1..Len(startQ)
            /\ \A i \in 1..Len(startQ') : i + 1 \in 1..Len(startQ) /\
                 startQ'[i] = startQ[i + 1] /\ startQ'[i] # startQ[1]
            /\ \A i, j \in 1..Len(startQ') : startQ'[i] = startQ'[j] => i = j
        BY <1>t, <3>1, <3>2, WithoutHead DEF QueueInv
      <3>4. acq0[startQ[1]] = "queued"
        BY <3>3 DEF QueueInv
      <3>5. \A i \in 1..Len(startQ) : startQ[i] \in Waiters
        BY <1>t, ElementOfSeq
      <3>6. QueueInv'
        BY <2>4, <3>2, <3>3, <3>5, SMTT(30), ZenonT(60), Z3T(60) DEF QueueInv, AcqType
      <3> QED BY <2>3, <2>4, <2>7, <3>2, <3>3, <3>4, <3>6, Zenon
    <2> QED BY <2>5, <2>6
  <1> QED BY <1>1, <1>2

\* A slot given back is free or has a new owner.
LEMMA ReleaseCounts ==
    ASSUME TypeInv, SlotsInv, NEW acq0 \in AcqType,
           \A w \in Waiters : acq[w] = "queued" => acq0[w] = "queued",
           Cardinality(Owners(acq0, holdsSlot')) = running - 1,
           ReleaseLocked(acq0)
    PROVE  SlotsInv' /\ \A w \in Waiters : acq'[w] = "none" <=> acq0[w] = "none"
  <1>1. /\ QueueInv' /\ NoIdleSlot'
        /\ \/ acq' = acq0 /\ running' = running - 1
           \/ /\ running' = running
              /\ \E w \in Waiters : acq0[w] = "queued" /\ acq' = [acq0 EXCEPT ![w] = "granted"]
    BY ReleaseHandsOver DEF TypeInv, SlotsInv
  <1>2. CASE acq' = acq0 /\ running' = running - 1
    BY <1>1, <1>2, OwnersAreNext DEF SlotsInv, CountInv
  <1>3. CASE /\ running' = running
             /\ \E w \in Waiters : acq0[w] = "queued" /\ acq' = [acq0 EXCEPT ![w] = "granted"]
    <2>1. PICK w \in Waiters : acq0[w] = "queued" /\ acq' = [acq0 EXCEPT ![w] = "granted"]
      BY <1>3
    <2>2. Cardinality(Owners(acq', holdsSlot')) = Cardinality(Owners(acq0, holdsSlot')) + 1
      BY <2>1, OneMore DEF Owned
    <2>3. CountInv'
      <3>1. running \in Int
        BY DEF TypeInv, SemaphoreTypes
      <3> QED BY <1>3, <2>2, <3>1, OwnersAreNext DEF CountInv
    <2> QED BY <1>1, <2>1, <2>3 DEF SlotsInv, AcqType
  <1> QED BY <1>1, <1>2, <1>3

\* acquire() takes a free slot or makes a new waiter queue.
LEMMA AcquireCounts ==
    ASSUME TypeInv, SlotsInv, NEW w \in Waiters, acq[w] = "none",
           \/ TakeSlot(w)
           \/ w[2] = Main /\ JoinStartQ(w)
           \/ w[2] \in Calls /\ JoinResumeQ(w),
           UNCHANGED holdsSlot
    PROVE  SlotsInv' /\ \A x \in Waiters : x # w => acq'[x] = acq[x]
  <1>t. /\ resumeQ \in Seq(Waiters) /\ startQ \in Seq(Waiters) /\ acq \in AcqType
        /\ running \in Int /\ running <= MaxRun /\ MaxRun \in Nat
        /\ Len(resumeQ) \in Nat /\ Len(startQ) \in Nat
    BY SchedulerAssumption, LenProperties DEF TypeInv, SemaphoreTypes, AcqType
  <1>u. /\ \A i \in 1..Len(resumeQ) : resumeQ[i] \in Waiters /\ resumeQ[i] # w
        /\ \A i \in 1..Len(startQ) : startQ[i] \in Waiters /\ startQ[i] # w
    BY <1>t, ElementOfSeq DEF SlotsInv, QueueInv
  <1>1. CASE TakeSlot(w)
    <2>1. acq' = [acq EXCEPT ![w] = "held"] /\ running' = running + 1
          /\ resumeQ' = resumeQ /\ startQ' = startQ /\ running < MaxRun
      BY <1>1 DEF TakeSlot
    <2>2. CountInv'
      <3>1. Cardinality(Owners(acq', holdsSlot)) = Cardinality(Owners(acq, holdsSlot)) + 1
        BY <1>t, <2>1, OneMore DEF Owned
      <3> QED BY <2>1, <3>1, OwnersAre, OwnersAreNext DEF SlotsInv, CountInv
    <2>3. QueueInv' /\ NoIdleSlot'
      BY <1>t, <1>u, <2>1 DEF SlotsInv, QueueInv, NoIdleSlot, AcqType
    <2> QED BY <1>t, <2>1, <2>2, <2>3 DEF SlotsInv, AcqType
  <1>2. CASE ~TakeSlot(w)
    <2>1. /\ acq' = [acq EXCEPT ![w] = "queued"] /\ running' = running /\ running >= MaxRun
          /\ \/ w[2] = Main /\ startQ' = Append(startQ, w) /\ resumeQ' = resumeQ
             \/ w[2] \in Calls /\ resumeQ' = Append(resumeQ, w) /\ startQ' = startQ
      BY <1>2 DEF JoinStartQ, JoinResumeQ
    <2>2. CountInv'
      <3>1. Owners(acq', holdsSlot') = Owners(acq, holdsSlot)
        <4>1. \A x : acq'[x] \in Owned <=> acq[x] \in Owned
          BY <1>t, <2>1 DEF AcqType, Owned
        <4> QED BY <4>1 DEF Owners
      <3> QED BY <2>1, <3>1, OwnersAre, OwnersAreNext DEF SlotsInv, CountInv
    <2>3. QueueInv'
      <3>1. CASE w[2] = Main /\ startQ' = Append(startQ, w) /\ resumeQ' = resumeQ
        <4>1. Len(startQ') = Len(startQ) + 1 /\ startQ'[Len(startQ) + 1] = w
              /\ \A i \in 1..Len(startQ) : startQ'[i] = startQ[i]
          BY <1>t, <3>1, AppendProperties
        <4>2. \A i \in 1..Len(startQ') : acq'[startQ'[i]] = "queued" /\ startQ'[i][2] = Main
          BY <1>t, <1>u, <2>1, <3>1, <4>1 DEF SlotsInv, QueueInv, AcqType
        <4>3. \A i, j \in 1..Len(startQ') : startQ'[i] = startQ'[j] => i = j
          <5>1. \A i, j \in 1..Len(startQ) : startQ[i] = startQ[j] => i = j
            BY DEF SlotsInv, QueueInv
          <5> QED BY <1>t, <1>u, <4>1, <5>1
        <4>4. \A i \in 1..Len(resumeQ') : acq'[resumeQ'[i]] = "queued" /\ resumeQ'[i][2] \in Calls
          BY <1>t, <1>u, <2>1, <3>1 DEF SlotsInv, QueueInv, AcqType
        <4>5. \A i, j \in 1..Len(resumeQ') : resumeQ'[i] = resumeQ'[j] => i = j
          BY <3>1 DEF SlotsInv, QueueInv
        <4> QED BY <4>2, <4>3, <4>4, <4>5, Zenon DEF QueueInv
      <3>2. CASE w[2] \in Calls /\ resumeQ' = Append(resumeQ, w) /\ startQ' = startQ
        <4>1. Len(resumeQ') = Len(resumeQ) + 1 /\ resumeQ'[Len(resumeQ) + 1] = w
              /\ \A i \in 1..Len(resumeQ) : resumeQ'[i] = resumeQ[i]
          BY <1>t, <3>2, AppendProperties
        <4>2. \A i \in 1..Len(resumeQ') : acq'[resumeQ'[i]] = "queued" /\ resumeQ'[i][2] \in Calls
          BY <1>t, <1>u, <2>1, <3>2, <4>1 DEF SlotsInv, QueueInv, AcqType
        <4>3. \A i, j \in 1..Len(resumeQ') : resumeQ'[i] = resumeQ'[j] => i = j
          <5>1. \A i, j \in 1..Len(resumeQ) : resumeQ[i] = resumeQ[j] => i = j
            BY DEF SlotsInv, QueueInv
          <5> QED BY <1>t, <1>u, <4>1, <5>1
        <4>4. \A i \in 1..Len(startQ') : acq'[startQ'[i]] = "queued" /\ startQ'[i][2] = Main
          BY <1>t, <1>u, <2>1, <3>2 DEF SlotsInv, QueueInv, AcqType
        <4>5. \A i, j \in 1..Len(startQ') : startQ'[i] = startQ'[j] => i = j
          BY <3>2 DEF SlotsInv, QueueInv
        <4> QED BY <4>2, <4>3, <4>4, <4>5, Zenon DEF QueueInv
      <3> QED BY <2>1, <3>1, <3>2
    <2>4. NoIdleSlot'
      BY <1>t, <2>1 DEF NoIdleSlot
    <2> QED BY <1>t, <2>1, <2>2, <2>3, <2>4 DEF SlotsInv, AcqType
  <1> QED BY <1>1, <1>2

\* An acquire() that was cancelled gives back what it was granted, or leaves
\* its queue.
LEMMA AbandonCounts ==
    ASSUME TypeInv, SlotsInv, NEW w \in Waiters, AbandonAcquire(w), UNCHANGED holdsSlot
    PROVE  /\ SlotsInv' /\ acq'[w] = "none"
           /\ \A x \in Waiters : x # w => (acq'[x] = "none" <=> acq[x] = "none")
  <1>t. /\ resumeQ \in Seq(Waiters) /\ startQ \in Seq(Waiters) /\ acq \in AcqType
        /\ running \in Int
    BY DEF TypeInv, SemaphoreTypes, AcqType
  <1>1. CASE acq[w] = "granted"
    <2> DEFINE acq0 == [acq EXCEPT ![w] = "none"]
    <2>1. /\ acq0 \in AcqType /\ acq0[w] = "none"
          /\ \A x \in Waiters : x # w => acq0[x] = acq[x]
      BY <1>t DEF AcqType
    <2>2. ReleaseLocked(acq0)
      BY <1>1 DEF AbandonAcquire
    <2>3. Cardinality(Owners(acq0, holdsSlot')) = running - 1
      BY <1>t, <1>1, OneLessWaiter, OwnersAre DEF SlotsInv, CountInv, Owned
    <2> HIDE DEF acq0
    <2>4. SlotsInv' /\ \A x \in Waiters : acq'[x] = "none" <=> acq0[x] = "none"
      BY <1>1, <2>1, <2>2, <2>3, ReleaseCounts
    <2> QED BY <2>1, <2>4
  <1>2. CASE acq[w] = "queued"
    <2>1. /\ acq' = [acq EXCEPT ![w] = "none"] /\ running' = running
          /\ resumeQ' = RemoveFirst(resumeQ, w) /\ startQ' = RemoveFirst(startQ, w)
      BY <1>2 DEF AbandonAcquire, RemoveWaiter
    <2>2. CountInv'
      <3>1. Owners(acq', holdsSlot') = Owners(acq, holdsSlot)
        <4>1. \A x : acq'[x] \in Owned <=> acq[x] \in Owned
          BY <1>t, <1>2, <2>1 DEF AcqType, Owned
        <4> QED BY <4>1 DEF Owners
      <3> QED BY <2>1, <3>1, OwnersAre, OwnersAreNext DEF SlotsInv, CountInv
    <2>3. /\ \A i \in 1..Len(resumeQ') : resumeQ'[i] # w /\ \E j \in 1..Len(resumeQ) : resumeQ'[i] = resumeQ[j]
          /\ \A i, j \in 1..Len(resumeQ') : resumeQ'[i] = resumeQ'[j] => i = j
          /\ resumeQ = <<>> => resumeQ' = <<>>
      BY <1>t, <2>1, RemoveFirstRest DEF SlotsInv, QueueInv
    <2>4. /\ \A i \in 1..Len(startQ') : startQ'[i] # w /\ \E j \in 1..Len(startQ) : startQ'[i] = startQ[j]
          /\ \A i, j \in 1..Len(startQ') : startQ'[i] = startQ'[j] => i = j
          /\ startQ = <<>> => startQ' = <<>>
      BY <1>t, <2>1, RemoveFirstRest DEF SlotsInv, QueueInv
    <2>5. \A x : x # w => acq'[x] = acq[x]
      BY <1>t, <2>1 DEF AcqType
    <2>6. QueueInv' /\ NoIdleSlot'
      BY <2>1, <2>3, <2>4, <2>5 DEF SlotsInv, QueueInv, NoIdleSlot
    <2> QED BY <1>t, <2>1, <2>2, <2>5, <2>6 DEF SlotsInv, AcqType
  <1> QED BY <1>1, <1>2 DEF AbandonAcquire

\* The slot of an acquire() that returned becomes the run's.
LEMMA HoldCounts ==
    ASSUME TypeInv, SlotsInv, NEW w \in Waiters, acq[w] \in Owned, ~holdsSlot[w[1]],
           acq' = [acq EXCEPT ![w] = "none"], holdsSlot' = [holdsSlot EXCEPT ![w[1]] = TRUE],
           UNCHANGED <<running, resumeQ, startQ>>
    PROVE  SlotsInv'
  <1>t. /\ resumeQ \in Seq(Waiters) /\ startQ \in Seq(Waiters) /\ acq \in AcqType
        /\ running \in Int /\ holdsSlot \in [Runs -> BOOLEAN] /\ w[1] \in Runs
    BY DEF TypeInv, SemaphoreTypes, RunTypes, AcqType, Waiters
  <1>1. Cardinality(Owners(acq', holdsSlot)) = Cardinality(Owners(acq, holdsSlot)) - 1
    BY <1>t, OneLessWaiter
  <1>2. Cardinality(Owners(acq', holdsSlot')) = Cardinality(Owners(acq', holdsSlot)) + 1
    BY <1>t, OneMoreRun
  <1>3. CountInv'
    BY <1>t, <1>1, <1>2, OwnersFinite, OwnersAre, OwnersAreNext DEF SlotsInv, CountInv
  <1>4. \A x : x # w => acq'[x] = acq[x]
    BY <1>t DEF AcqType
  <1>5. QueueInv' /\ NoIdleSlot'
    BY <1>4 DEF SlotsInv, QueueInv, NoIdleSlot, Owned
  <1> QED BY <1>3, <1>5 DEF SlotsInv

\* Nothing of the semaphore changes.
LEMMA SlotsKept ==
    ASSUME SlotsInv, UNCHANGED <<acq, running, resumeQ, startQ, holdsSlot>>
    PROVE  SlotsInv'
  BY DEF SlotsInv, QueueInv, CountInv, SlotOwners, NoIdleSlot

\* A run gives its slot away.
LEMMA GiveCounts ==
    ASSUME TypeInv, SlotsInv, NEW r \in Runs, holdsSlot' = [holdsSlot EXCEPT ![r] = FALSE],
           IF holdsSlot[r] THEN ReleaseLocked(acq) ELSE UNCHANGED slots
    PROVE  SlotsInv' /\ \A w \in Waiters : acq'[w] = "none" <=> acq[w] = "none"
  <1>t. acq \in AcqType /\ running \in Int /\ holdsSlot \in [Runs -> BOOLEAN]
    BY DEF TypeInv, SemaphoreTypes, RunTypes, AcqType
  <1>1. CASE holdsSlot[r]
    <2>1. Cardinality(Owners(acq, holdsSlot')) = running - 1
      BY <1>t, <1>1, OneLessRun, OwnersAre DEF SlotsInv, CountInv
    <2> QED BY <1>t, <1>1, <2>1, ReleaseCounts
  <1>2. CASE ~holdsSlot[r]
    <2>1. holdsSlot' = holdsSlot /\ UNCHANGED <<acq, running, resumeQ, startQ>>
      BY <1>t, <1>2 DEF slots
    <2> QED BY <2>1, SlotsKept
  <1> QED BY <1>1, <1>2

-----------------------------------------------------------------------------
(* Where the goroutines of a run are. *)

Left == {"gateLeft", "runLeft"}
Waiting == {"gateWait", "runWait"}
WaitsIn(c, r) == {k \in Calls : c[<<r, k>>] \in Waiting}

\* Only a run that starts and a call whose wait has ended acquire.
ThreadInv ==
    \A r \in Runs :
        /\ acq[<<r, Main>>] # "none" => pc[r] = "acquire"
        /\ \A k \in Calls : acq[<<r, k>>] # "none" => call[<<r, k>>] \in Left

\* rs.waiters counts the calls that wait, and rs.acquiring says that one call
\* is taking a slot back, which the run then does not hold.
WaitInv ==
    \A r \in Runs :
        /\ waiters[r] = Cardinality(WaitsIn(call, r))
        /\ acquiring[r] <=> \E k \in Calls : call[<<r, k>>] \in Left
        /\ \A j, k \in Calls : call[<<r, j>>] \in Left /\ call[<<r, k>>] \in Left => j = k

\* A run holds its slot from Begin to FinishRelease, except while its calls
\* wait or take it back, or after it was cancelled.
HoldInv ==
    \A r \in Runs :
        /\ acquiring[r] => ~holdsSlot[r]
        /\ pc[r] \notin {"loop", "lookup", "turn", "tools", "finish", "recorded"} => ~holdsSlot[r]
        /\ pc[r] \in {"lookup", "turn"} => holdsSlot[r]
        /\ pc[r] = "loop" => holdsSlot[r] \/ ctx[r] # "live"
        /\ pc[r] = "tools" => holdsSlot[r] \/ waiters[r] > 0 \/ acquiring[r] \/ ctx[r] # "live"

GoroutineInv == TypeInv /\ ChatInv /\ CallsInTurn /\ SlotsInv /\ ThreadInv /\ WaitInv /\ HoldInv

LEMMA InitSlots == Init => SlotsInv /\ ThreadInv /\ WaitInv /\ HoldInv
  <1> SUFFICES ASSUME Init PROVE SlotsInv /\ ThreadInv /\ WaitInv /\ HoldInv
    OBVIOUS
  <1>1. SlotsInv
    <2>1. \A w \in Waiters : acq[w] = "none"
      BY DEF Init
    <2>2. SlotOwners = {}
      <3>1. \A w \in Runs \X (Threads \cup {Null}) : w[2] # Null => w \in Waiters
        BY DEF Waiters
      <3> QED BY <2>1, <3>1 DEF Init, SlotOwners
    <2>3. CountInv
      BY <2>2, FS_EmptySet DEF Init, CountInv
    <2>4. QueueInv /\ NoIdleSlot
      BY DEF Init, QueueInv, NoIdleSlot
    <2> QED BY <2>3, <2>4 DEF SlotsInv
  <1>2. ThreadInv
    BY NamesDiffer DEF Init, ThreadInv, Waiters
  <1>3. WaitInv
    <2>1. \A r \in Runs : WaitsIn(call, r) = {}
      BY DEF Init, WaitsIn, Waiting
    <2> QED BY <2>1, FS_EmptySet DEF Init, WaitInv, Left
  <1>4. HoldInv
    BY DEF Init, HoldInv
  <1> QED BY <1>1, <1>2, <1>3, <1>4

\* finish() promotes a run that waited in the chat's queue.
LEMMA PromotedWaited ==
    ASSUME TypeInv, ChatInv, NEW r \in Runs, Promote(r)
    PROVE  /\ pc[r] = "released" /\ pc'[r] = "over"
           /\ \A x \in Runs \ {r} : pc'[x] = pc[x] \/ (pc[x] = "chatQueue" /\ pc'[x] = "promoted")
  <1> DEFINE q == chatQueue[chatOf[r]]
  <1>1. chatOf[r] \in Chats /\ q \in Seq(Runs) /\ pc \in [Runs -> PCs]
    BY DEF Promote, ChatInv, Executing, TypeInv, ChatTypes, RunTypes
  <1>2. q # <<>> => Head(q) \in Runs /\ pc[Head(q)] = "chatQueue"
    <2>1. ASSUME q # <<>> PROVE Head(q) = q[1] /\ 1 \in 1..Len(q) /\ q[1] \in Runs
      BY <1>1, <2>1
    <2> QED BY <1>1, <2>1 DEF ChatInv
  <1> QED BY <1>1, <1>2 DEF Promote

\* Outside a turn no call of a run acquires.
LEMMA NoCallAcquires ==
    ASSUME CallsInTurn, ThreadInv, NEW r \in Runs, pc[r] # "tools"
    PROVE  \A k \in Calls : acq[<<r, k>>] = "none" /\ call[<<r, k>>] = "off"
  BY DEF CallsInTurn, ThreadInv, Left

\* ThreadInv speaks of acq only as far as it is "none".
LEMMA ThreadsKept ==
    ASSUME ThreadInv, \A w \in Waiters : acq[w] = "none" => acq'[w] = "none",
           \A r \in Runs : pc[r] = "acquire" => pc'[r] = "acquire",
           \A r \in Runs, k \in Calls : call[<<r, k>>] \in Left => call'[<<r, k>>] \in Left
    PROVE  ThreadInv'
  <1>1. \A r \in Runs, t \in Threads : <<r, t>> \in Waiters
    BY DEF Waiters
  <1> QED BY <1>1, NamesDiffer DEF ThreadInv

SlotsAndThreads == SlotsInv' /\ ThreadInv'

\* A step of a run's goroutine that has nothing to do with slots.
LEMMA StepQuiet ==
    ASSUME GoroutineInv, NEW r \in Runs,
           \/ MaterializeSubmitted(r) \/ MaterializePromoted(r) \/ CommandTurn(r) \/ LoopTop(r)
           \/ Lookup(r) \/ Turn(r) \/ ToolsDone(r) \/ Finish(r) \/ Promote(r) \/ FinishQueued(r)
    PROVE  SlotsAndThreads
  <1> USE DEF GoroutineInv, SlotsAndThreads, slots, waits
  <1>t. pc \in [Runs -> PCs] /\ call \in [Runs \X Calls -> CallStates]
    BY DEF TypeInv, RunTypes
  <1>1. UNCHANGED <<acq, running, resumeQ, startQ, holdsSlot>>
    BY DEF MaterializeSubmitted, MaterializePromoted, CommandTurn, LoopTop, Lookup, Turn, ToolsDone,
           Finish, Promote, FinishQueued
  <1>2. SlotsInv'
    BY <1>1, SlotsKept
  <1>3. \A x \in Runs : pc[x] = "acquire" => pc'[x] = "acquire"
    <2>1. CASE Promote(r)
      BY <2>1, PromotedWaited
    <2> QED BY <1>t, <2>1 DEF MaterializeSubmitted, MaterializePromoted, CommandTurn, LoopTop, Lookup,
                Turn, ToolsDone, Finish, FinishQueued, EndsWith
  <1>4. \A x \in Runs, k \in Calls : call[<<x, k>>] \in Left => call'[<<x, k>>] \in Left
    <2>1. CASE Turn(r)
      <3>1. \A k \in Calls : call[<<r, k>>] \notin Left
        BY <2>1, NoCallAcquires DEF Turn, Left
      <3> QED BY <2>1, <3>1 DEF Turn
    <2>2. CASE ToolsDone(r)
      BY <2>2 DEF ToolsDone, Left
    <2> QED BY <2>1, <2>2 DEF MaterializeSubmitted, MaterializePromoted, CommandTurn, LoopTop, Lookup,
                Finish, Promote, FinishQueued
  <1> QED BY <1>1, <1>2, <1>3, <1>4, ThreadsKept

\* A step of a run's goroutine that takes a slot, gives it up or gives it back.
LEMMA StepTakesSlot ==
    ASSUME GoroutineInv, NEW r \in Runs,
           AcquireStart(r) \/ Begin(r) \/ AbandonStart(r) \/ FinishRelease(r)
    PROVE  SlotsAndThreads
  <1> USE DEF GoroutineInv, SlotsAndThreads, waits
  <1> DEFINE w == <<r, Main>>
  <1>t. /\ pc \in [Runs -> PCs] /\ acq \in AcqType
        /\ w \in Waiters /\ w[1] = r /\ w[2] = Main
        /\ \A x \in Waiters : x # w /\ x[1] = r => x[2] \in Calls /\ x = <<r, x[2]>>
        /\ \A x \in Runs, t \in Threads : <<x, t>> \in Waiters
    BY NamesDiffer DEF TypeInv, RunTypes, SemaphoreTypes, AcqType, Waiters, Threads
  <1>1. CASE AcquireStart(r)
    <2>1. /\ pc[r] = "acquire" /\ acq[w] = "none" /\ UNCHANGED <<pc, call, holdsSlot>>
          /\ TakeSlot(w) \/ JoinStartQ(w)
      BY <1>1 DEF AcquireStart
    <2> HIDE DEF w
    <2>2. SlotsInv' /\ \A x \in Waiters : x # w => acq'[x] = acq[x]
      BY <1>t, <2>1, AcquireCounts
    <2> QED BY <1>t, <2>1, <2>2, NamesDiffer DEF ThreadInv, w
  <1>2. CASE Begin(r)
    <2>1. /\ acq[w] \in Owned /\ acq' = [acq EXCEPT ![w] = "none"]
          /\ holdsSlot' = [holdsSlot EXCEPT ![w[1]] = TRUE] /\ UNCHANGED <<running, resumeQ, startQ>>
          /\ pc' = [pc EXCEPT ![r] = "loop"] /\ UNCHANGED call /\ pc[r] = "acquire"
      BY <1>2 DEF Begin, Owned
    <2>2. ~holdsSlot[w[1]]
      BY <2>1 DEF HoldInv
    <2> HIDE DEF w
    <2>3. SlotsInv'
      BY <1>t, <2>1, <2>2, HoldCounts
    <2>4. \A x \in Waiters : acq'[x] = IF x = w THEN "none" ELSE acq[x]
      BY <1>t, <2>1 DEF AcqType
    <2> QED BY <1>t, <2>1, <2>3, <2>4, NamesDiffer DEF ThreadInv, w
  <1>3. CASE AbandonStart(r)
    <2>1. /\ AbandonAcquire(w) /\ UNCHANGED <<holdsSlot, call>>
          /\ pc' = [pc EXCEPT ![r] = "finish"] /\ pc[r] = "acquire"
      BY <1>3 DEF AbandonStart, EndsWith
    <2> HIDE DEF w
    <2>2. /\ SlotsInv' /\ acq'[w] = "none"
          /\ \A x \in Waiters : x # w => (acq'[x] = "none" <=> acq[x] = "none")
      BY <1>t, <2>1, AbandonCounts
    <2> QED BY <1>t, <2>1, <2>2, NamesDiffer DEF ThreadInv, w
  <1>4. CASE FinishRelease(r)
    <2>1. /\ holdsSlot' = [holdsSlot EXCEPT ![r] = FALSE] /\ UNCHANGED call
          /\ IF holdsSlot[r] THEN ReleaseLocked(acq) ELSE UNCHANGED slots
          /\ pc' = [pc EXCEPT ![r] = "released"] /\ pc[r] = "recorded"
      BY <1>4 DEF FinishRelease
    <2>2. SlotsInv' /\ \A x \in Waiters : acq'[x] = "none" <=> acq[x] = "none"
      BY <2>1, GiveCounts
    <2> QED BY <1>t, <2>1, <2>2, ThreadsKept
  <1> QED BY <1>1, <1>2, <1>3, <1>4

\* A step of a call's goroutine.
LEMMA StepCallSlots ==
    ASSUME GoroutineInv, NEW r \in Runs, NEW k \in Calls, CallNext(r, k)
    PROVE  SlotsAndThreads
  <1> USE DEF GoroutineInv, SlotsAndThreads, waits
  <1> DEFINE w == <<r, k>>
  <1>t. /\ call \in [Runs \X Calls -> CallStates] /\ acq \in AcqType
        /\ w \in Waiters /\ w[1] = r /\ w[2] = k /\ w \in Runs \X Calls
        /\ \A x \in Runs, t \in Threads : <<x, t>> \in Waiters
    BY NamesDiffer DEF TypeInv, RunTypes, SemaphoreTypes, AcqType, Waiters
  <1>1. CASE CallStart(r, k) \/ CallStep(r, k) \/ LeaveWait(r, k) \/ LeaveWaitLast(r, k)
    <2>1. UNCHANGED <<acq, running, resumeQ, startQ, holdsSlot, pc>> /\ call[w] \notin Left
      BY <1>1 DEF CallStart, CallStep, LeaveWait, LeaveWaitLast, slots, Left
    <2>2. \E s : call' = [call EXCEPT ![w] = s]
      BY <1>1, Zenon DEF CallStart, CallStep, LeaveWait, LeaveWaitLast, SetCall, AfterWait
    <2>3. SlotsInv'
      BY <2>1, SlotsKept
    <2>4. \A x \in Runs, j \in Calls : call[<<x, j>>] \in Left => call'[<<x, j>>] \in Left
      BY <2>1, <2>2
    <2> QED BY <2>1, <2>3, <2>4, ThreadsKept
  <1>2. CASE EnterWait(r, k)
    <2>1. /\ holdsSlot' = [holdsSlot EXCEPT ![r] = FALSE] /\ UNCHANGED pc
          /\ IF holdsSlot[r] THEN ReleaseLocked(acq) ELSE UNCHANGED slots
          /\ call[w] \notin Left
      BY <1>2 DEF EnterWait, Left
    <2>2. \E s : call' = [call EXCEPT ![w] = s]
      BY <1>2, Zenon DEF EnterWait, SetCall
    <2>3. SlotsInv' /\ \A x \in Waiters : acq'[x] = "none" <=> acq[x] = "none"
      BY <2>1, GiveCounts
    <2>4. \A x \in Runs, j \in Calls : call[<<x, j>>] \in Left => call'[<<x, j>>] \in Left
      BY <2>1, <2>2
    <2> QED BY <2>1, <2>3, <2>4, ThreadsKept
  <1>3. CASE AcquireResume(r, k)
    <2>1. /\ call[w] \in Left /\ acq[w] = "none" /\ UNCHANGED <<pc, call, holdsSlot>>
          /\ TakeSlot(w) \/ JoinResumeQ(w)
      BY <1>3 DEF AcquireResume, Left
    <2> HIDE DEF w
    <2>2. SlotsInv' /\ \A x \in Waiters : x # w => acq'[x] = acq[x]
      BY <1>t, <2>1, AcquireCounts
    <2> QED BY <1>t, <2>1, <2>2, NamesDiffer DEF ThreadInv, w
  <1>4. ASSUME call[w] \in Left, \E s : call' = [call EXCEPT ![w] = s], UNCHANGED pc,
               acq'[w] = "none",
               \A x \in Waiters : x # w => (acq'[x] = "none" <=> acq[x] = "none")
        PROVE  ThreadInv'
    <2>1. \A x \in Runs, j \in Calls : <<x, j>> # w => call'[<<x, j>>] = call[<<x, j>>]
      BY <1>t, <1>4
    <2>2. \A x \in Runs : <<x, Main>> # w
      BY NamesDiffer
    <2> QED BY <1>t, <1>4, <2>1, <2>2, NamesDiffer DEF ThreadInv
  <1>5. CASE AbandonResume(r, k)
    <2>1. AbandonAcquire(w) /\ UNCHANGED <<holdsSlot, pc>> /\ call[w] \in Left
      BY <1>5 DEF AbandonResume, Left
    <2>2. \E s : call' = [call EXCEPT ![w] = s]
      BY <1>5, Zenon DEF AbandonResume, SetCall, AfterWait
    <2> HIDE DEF w
    <2>3. /\ SlotsInv' /\ acq'[w] = "none"
          /\ \A x \in Waiters : x # w => (acq'[x] = "none" <=> acq[x] = "none")
      BY <1>t, <2>1, AbandonCounts
    <2> QED BY <1>4, <2>1, <2>2, <2>3
  <1>6. CASE Resume(r, k)
    <2> DEFINE acq0 == [acq EXCEPT ![w] = "none"]
    <2>1. acq[w] \in Owned /\ UNCHANGED pc /\ call[w] \in Left
      BY <1>6 DEF Resume, Left, Owned
    <2>2. \E s : call' = [call EXCEPT ![w] = s]
      BY <1>6, Zenon DEF Resume, SetCall, AfterWait
    <2>3. /\ acq0 \in AcqType /\ acq0[w] = "none"
          /\ \A x \in Waiters : x # w => acq0[x] = acq[x]
      BY <1>t DEF AcqType
    <2>4. \/ ReleaseLocked(acq0) /\ UNCHANGED holdsSlot
          \/ /\ holdsSlot' = [holdsSlot EXCEPT ![r] = TRUE] /\ acq' = acq0
             /\ UNCHANGED <<running, resumeQ, startQ>>
      BY <1>6 DEF Resume
    <2>5. SlotsInv' /\ \A x \in Waiters : acq'[x] = "none" <=> acq0[x] = "none"
      <3>1. CASE ReleaseLocked(acq0) /\ UNCHANGED holdsSlot
        <4>1. Cardinality(Owners(acq0, holdsSlot')) = running - 1
          BY <1>t, <2>1, <3>1, OneLessWaiter, OwnersAre DEF SlotsInv, CountInv
        <4>2. \A x \in Waiters : acq[x] = "queued" => acq0[x] = "queued"
          BY <2>1, <2>3 DEF Owned
        <4> HIDE DEF acq0, w
        <4> QED BY <2>3, <3>1, <4>1, <4>2, ReleaseCounts
      <3>2. CASE /\ holdsSlot' = [holdsSlot EXCEPT ![r] = TRUE] /\ acq' = acq0
                 /\ UNCHANGED <<running, resumeQ, startQ>>
        <4>1. ~holdsSlot[w[1]]
          <5>1. acquiring[r]
            BY <2>1 DEF WaitInv
          <5> QED BY <1>t, <5>1 DEF HoldInv
        <4> HIDE DEF w
        <4> QED BY <1>t, <2>1, <3>2, <4>1, HoldCounts
      <3> QED BY <2>4, <3>1, <3>2
    <2> HIDE DEF acq0, w
    <2>6. acq'[w] = "none" /\ \A x \in Waiters : x # w => (acq'[x] = "none" <=> acq[x] = "none")
      BY <1>t, <2>3, <2>5
    <2> QED BY <1>4, <2>1, <2>2, <2>5, <2>6
  <1> QED BY <1>1, <1>2, <1>3, <1>5, <1>6 DEF CallNext

\* No step of the scheduler loses or invents a slot or leaves one idle.
LEMMA StepSlots == GoroutineInv /\ [Next]_vars => SlotsAndThreads
  <1> SUFFICES ASSUME GoroutineInv, [Next]_vars PROVE SlotsAndThreads
    OBVIOUS
  <1> USE DEF SlotsAndThreads, process, slots, waits, chatQs
  <1>t. pc \in [Runs -> PCs]
    BY DEF GoroutineInv, TypeInv, RunTypes
  <1>1. CASE Crash
    <2>1. \A w \in Waiters : acq'[w] = "none"
      BY <1>1 DEF Crash
    <2>2. SlotOwners' = {}
      <3>1. \A w \in Runs \X (Threads \cup {Null}) : w[2] # Null => w \in Waiters
        BY DEF Waiters
      <3> QED BY <1>1, <2>1, <3>1 DEF Crash, SlotOwners
    <2>3. CountInv'
      BY <1>1, <2>2, FS_EmptySet DEF Crash, CountInv
    <2>4. QueueInv' /\ NoIdleSlot'
      BY <1>1 DEF Crash, QueueInv, NoIdleSlot
    <2>5. ThreadInv'
      BY <2>1, NamesDiffer DEF ThreadInv, Waiters
    <2> QED BY <2>3, <2>4, <2>5 DEF SlotsInv
  <1>2. ASSUME UNCHANGED <<acq, running, resumeQ, startQ, holdsSlot, call>>,
               \A x \in Runs : pc[x] = "acquire" => pc'[x] = "acquire"
        PROVE  SlotsAndThreads
    BY <1>2, SlotsKept, ThreadsKept DEF GoroutineInv
  <1>3. CASE Start \/ Shutdown \/ UNCHANGED vars
    BY <1>2, <1>3 DEF Start, Shutdown, vars
  <1>4. ASSUME NEW c \in Chats, SoftDelete(c) PROVE SlotsAndThreads
    BY <1>2, <1>4 DEF SoftDelete
  <1>5. ASSUME NEW r \in Runs, NEW c \in Chats, Submit(r, c) \/ SubmitRefused(r, c)
        PROVE  SlotsAndThreads
    BY <1>t, <1>2, <1>5 DEF Submit, SubmitRefused
  <1>6. ASSUME NEW r \in Runs, Cancel(r) \/ WallTimer(r) PROVE SlotsAndThreads
    BY <1>t, <1>2, <1>6 DEF Cancel, WallTimer
  <1>7. ASSUME NEW r \in Runs, RunNext(r) PROVE SlotsAndThreads
    BY <1>7, StepQuiet, StepTakesSlot DEF RunNext
  <1>8. ASSUME NEW r \in Runs, NEW k \in Calls, CallNext(r, k) PROVE SlotsAndThreads
    BY <1>8, StepCallSlots
  <1> QED BY <1>1, <1>3, <1>4, <1>5, <1>6, <1>7, <1>8 DEF Next

-----------------------------------------------------------------------------
(* The waits of a run. *)

\* A step moves only the call k of run r.
MovesOnly(r, k) ==
    \A x \in Runs, j \in Calls : x # r \/ j # k => call'[<<x, j>>] = call[<<x, j>>]

LEMMA MovesOne ==
    ASSUME TypeInv, NEW r \in Runs, NEW k \in Calls, NEW s,
           call' = [call EXCEPT ![<<r, k>>] = s]
    PROVE  MovesOnly(r, k) /\ call'[<<r, k>>] = s
  BY DEF TypeInv, RunTypes, MovesOnly

\* What a call's step does to the set of calls that wait.
LEMMA WaitsMoved ==
    ASSUME NEW r \in Runs, NEW k \in Calls, MovesOnly(r, k)
    PROVE  /\ \A x \in Runs : x # r => WaitsIn(call', x) = WaitsIn(call, x)
           /\ call'[<<r, k>>] \in Waiting => WaitsIn(call', r) = WaitsIn(call, r) \cup {k}
           /\ call'[<<r, k>>] \notin Waiting => WaitsIn(call', r) = WaitsIn(call, r) \ {k}
           /\ k \in WaitsIn(call, r) <=> call[<<r, k>>] \in Waiting
           /\ IsFiniteSet(WaitsIn(call, r)) /\ Cardinality(WaitsIn(call, r)) \in Nat
  <1>1. IsFiniteSet(WaitsIn(call, r))
    BY SchedulerAssumption, FS_Subset DEF WaitsIn
  <1>2. /\ call'[<<r, k>>] \in Waiting => WaitsIn(call', r) = WaitsIn(call, r) \cup {k}
        /\ call'[<<r, k>>] \notin Waiting => WaitsIn(call', r) = WaitsIn(call, r) \ {k}
    BY DEF WaitsIn, MovesOnly
  <1>3. \A x \in Runs : x # r => WaitsIn(call', x) = WaitsIn(call, x)
    BY DEF WaitsIn, MovesOnly
  <1> QED BY <1>1, <1>2, <1>3, FS_CardinalityType DEF WaitsIn

\* When no call of a run waits, none is counted.
LEMMA NoWaits ==
    ASSUME NEW r \in Runs
    PROVE  (\A k \in Calls : call[<<r, k>>] \notin Waiting) => Cardinality(WaitsIn(call, r)) = 0
  BY FS_EmptySet DEF WaitsIn

LEMMA StepCallWaits ==
    ASSUME GoroutineInv, NEW r \in Runs, NEW k \in Calls, CallNext(r, k)
    PROVE  WaitInv'
  <1> USE DEF GoroutineInv, slots, waits
  <1>t. waiters \in [Runs -> Int] /\ acquiring \in [Runs -> BOOLEAN]
    BY DEF TypeInv, RunTypes
  <1>w. /\ \A x \in Runs : waiters[x] = Cardinality(WaitsIn(call, x))
        /\ \A x \in Runs : acquiring[x] <=> \E j \in Calls : call[<<x, j>>] \in Left
        /\ \A x \in Runs : \A i, j \in Calls :
              call[<<x, i>>] \in Left /\ call[<<x, j>>] \in Left => i = j
    BY DEF WaitInv
  <1>a. ASSUME \A x \in Runs : waiters'[x] = Cardinality(WaitsIn(call', x)),
               UNCHANGED acquiring, MovesOnly(r, k),
               call[<<r, k>>] \notin Left, call'[<<r, k>>] \notin Left
        PROVE  WaitInv'
    <2>1. \A x \in Runs, j \in Calls : call'[<<x, j>>] \in Left <=> call[<<x, j>>] \in Left
      BY <1>a DEF MovesOnly
    <2> QED BY <1>a, <1>w, <2>1 DEF WaitInv
  <1>1. CASE CallStart(r, k) \/ CallStep(r, k)
    <2>1. /\ call[<<r, k>>] \notin Waiting \cup Left /\ UNCHANGED <<waiters, acquiring>>
          /\ \E s : s \notin Waiting \cup Left /\ call' = [call EXCEPT ![<<r, k>>] = s]
      <3>1. {"gate", "run", "done", "ready"} \cap (Waiting \cup Left) = {}
        BY DEF Waiting, Left
      <3> QED BY <1>1, <3>1 DEF CallStart, CallStep, SetCall
    <2>2. PICK s : s \notin Waiting \cup Left /\ call' = [call EXCEPT ![<<r, k>>] = s]
      BY <2>1
    <2>m. MovesOnly(r, k) /\ call'[<<r, k>>] = s
      BY <2>2, MovesOne
    <2>3. \A x \in Runs : WaitsIn(call', x) = WaitsIn(call, x)
      BY <2>1, <2>2, <2>m, WaitsMoved, ZenonT(60)
    <2>4. \A x \in Runs : waiters'[x] = Cardinality(WaitsIn(call', x))
      BY <1>w, <2>1, <2>3
    <2> QED BY <1>a, <2>1, <2>2, <2>4, <2>m
  <1>2. CASE EnterWait(r, k)
    <2>1. /\ call[<<r, k>>] \notin Waiting \cup Left /\ UNCHANGED acquiring
          /\ waiters' = [waiters EXCEPT ![r] = @ + 1]
          /\ \E s \in Waiting : call' = [call EXCEPT ![<<r, k>>] = s]
      BY <1>2 DEF EnterWait, SetCall, Waiting, Left
    <2>2. PICK s \in Waiting : call' = [call EXCEPT ![<<r, k>>] = s]
      BY <2>1
    <2>m. MovesOnly(r, k) /\ call'[<<r, k>>] = s
      BY <2>2, MovesOne
    <2>3. Cardinality(WaitsIn(call', r)) = Cardinality(WaitsIn(call, r)) + 1
      <3>1. /\ WaitsIn(call', r) = WaitsIn(call, r) \cup {k} /\ k \notin WaitsIn(call, r)
            /\ IsFiniteSet(WaitsIn(call, r))
        BY <2>1, <2>2, <2>m, WaitsMoved DEF Waiting
      <3> QED BY <3>1, FS_AddElement
    <2>4. \A x \in Runs : waiters'[x] = Cardinality(WaitsIn(call', x))
      <3>1. \A x \in Runs : x # r => WaitsIn(call', x) = WaitsIn(call, x)
        BY <2>m, WaitsMoved
      <3> QED BY <1>t, <1>w, <2>1, <2>3, <3>1
    <2>5. s \notin Left
      BY DEF Waiting, Left
    <2> QED BY <1>a, <2>1, <2>4, <2>5, <2>m
  <1>3. ASSUME call[<<r, k>>] \in Waiting, waiters' = [waiters EXCEPT ![r] = @ - 1],
               MovesOnly(r, k), call'[<<r, k>>] \notin Waiting
        PROVE  \A x \in Runs : waiters'[x] = Cardinality(WaitsIn(call', x))
    <2>1. Cardinality(WaitsIn(call', r)) = Cardinality(WaitsIn(call, r)) - 1
      BY <1>3, WaitsMoved, FS_RemoveElement
    <2> QED BY <1>t, <1>3, <2>1, WaitsMoved DEF WaitInv
  <1>4. CASE LeaveWait(r, k)
    <2>1. /\ call[<<r, k>>] \in Waiting /\ UNCHANGED acquiring
          /\ waiters' = [waiters EXCEPT ![r] = @ - 1]
          /\ \E s \in {"run", "done"} : call' = [call EXCEPT ![<<r, k>>] = s]
      BY <1>4 DEF LeaveWait, AfterWait, SetCall, Waiting
    <2>2. PICK s \in {"run", "done"} : call' = [call EXCEPT ![<<r, k>>] = s]
      BY <2>1
    <2>m. MovesOnly(r, k) /\ call'[<<r, k>>] = s
      BY <2>2, MovesOne
    <2>3. s \notin Waiting \cup Left /\ call[<<r, k>>] \notin Left
      BY <2>1 DEF Waiting, Left
    <2>4. \A x \in Runs : waiters'[x] = Cardinality(WaitsIn(call', x))
      BY <1>3, <2>1, <2>m, <2>3
    <2> QED BY <1>a, <2>1, <2>3, <2>4, <2>m
  <1>5. CASE LeaveWaitLast(r, k)
    <2>1. /\ call[<<r, k>>] \in Waiting /\ ~acquiring[r]
          /\ acquiring' = [acquiring EXCEPT ![r] = TRUE]
          /\ waiters' = [waiters EXCEPT ![r] = @ - 1]
          /\ \E s \in Left : call' = [call EXCEPT ![<<r, k>>] = s]
      BY <1>5 DEF LeaveWaitLast, NeedsSlot, SetCall, Waiting, Left
    <2>2. PICK s \in Left : call' = [call EXCEPT ![<<r, k>>] = s]
      BY <2>1
    <2>m. MovesOnly(r, k) /\ call'[<<r, k>>] = s
      BY <2>2, MovesOne
    <2>3. s \notin Waiting /\ \A j \in Calls : call[<<r, j>>] \notin Left
      BY <2>1 DEF Waiting, Left, WaitInv
    <2>4. \A x \in Runs : waiters'[x] = Cardinality(WaitsIn(call', x))
      BY <1>3, <2>1, <2>m, <2>3
    <2>5. \A x \in Runs, j \in Calls :
             call'[<<x, j>>] \in Left <=> (x = r /\ j = k) \/ call[<<x, j>>] \in Left
      BY <2>2, <2>m DEF MovesOnly
    <2>6. \A x \in Runs : acquiring'[x] <=> \E j \in Calls : call'[<<x, j>>] \in Left
      BY <1>t, <1>w, <2>1, <2>5
    <2>7. \A x \in Runs : \A i, j \in Calls :
             call'[<<x, i>>] \in Left /\ call'[<<x, j>>] \in Left => i = j
      BY <1>w, <2>3, <2>5
    <2> QED BY <2>4, <2>6, <2>7 DEF WaitInv
  <1>6. CASE AcquireResume(r, k)
    BY <1>6 DEF AcquireResume, WaitInv, WaitsIn
  <1>7. CASE Resume(r, k) \/ AbandonResume(r, k)
    <2>1. /\ call[<<r, k>>] \in Left /\ acquiring' = [acquiring EXCEPT ![r] = FALSE]
          /\ UNCHANGED waiters
          /\ \E s \in {"run", "done"} : call' = [call EXCEPT ![<<r, k>>] = s]
      BY <1>7 DEF Resume, AbandonResume, AfterWait, SetCall, Left
    <2>2. PICK s \in {"run", "done"} : call' = [call EXCEPT ![<<r, k>>] = s]
      BY <2>1
    <2>3. s \notin Waiting \cup Left /\ call[<<r, k>>] \notin Waiting
      BY <2>1 DEF Waiting, Left
    <2>m. MovesOnly(r, k) /\ call'[<<r, k>>] = s
      BY <2>2, MovesOne
    <2>4. \A x \in Runs : WaitsIn(call', x) = WaitsIn(call, x)
      BY <2>3, <2>m, WaitsMoved
    <2>5. \A j \in Calls : j # k => call[<<r, j>>] \notin Left
      BY <2>1 DEF WaitInv
    <2>6. \A x \in Runs, j \in Calls :
             call'[<<x, j>>] \in Left <=> ~(x = r /\ j = k) /\ call[<<x, j>>] \in Left
      BY <2>3, <2>m DEF MovesOnly
    <2>7. \A x \in Runs : waiters'[x] = Cardinality(WaitsIn(call', x))
      BY <1>w, <2>1, <2>4
    <2>8. \A x \in Runs : acquiring'[x] <=> \E j \in Calls : call'[<<x, j>>] \in Left
      BY <1>t, <1>w, <2>1, <2>5, <2>6, SMTT(30), ZenonT(60), Z3T(60)
    <2>9. \A x \in Runs : \A i, j \in Calls :
             call'[<<x, i>>] \in Left /\ call'[<<x, j>>] \in Left => i = j
      BY <1>w, <2>6
    <2> QED BY <2>7, <2>8, <2>9 DEF WaitInv
  <1> QED BY <1>1, <1>2, <1>4, <1>5, <1>6, <1>7 DEF CallNext

\* enterWait and leaveWait keep count of the calls that wait.
LEMMA StepWaits == GoroutineInv /\ [Next]_vars => WaitInv'
  <1> SUFFICES ASSUME GoroutineInv, [Next]_vars PROVE WaitInv'
    OBVIOUS
  <1> USE DEF process, slots, waits, chatQs
  <1>t. call \in [Runs \X Calls -> CallStates]
    BY DEF GoroutineInv, TypeInv, RunTypes
  <1>1. ASSUME UNCHANGED <<call, waiters, acquiring>> PROVE WaitInv'
    BY <1>1 DEF GoroutineInv, WaitInv, WaitsIn
  <1>2. CASE Crash
    <2>1. \A r \in Runs, k \in Calls : call'[<<r, k>>] = "off"
      BY <1>2 DEF Crash
    <2>2. \A r \in Runs : Cardinality(WaitsIn(call', r)) = 0
      BY <2>1, FS_EmptySet DEF WaitsIn, Waiting
    <2> QED BY <1>2, <2>1, <2>2 DEF Crash, WaitInv, Left
  <1>3. CASE Start \/ Shutdown \/ UNCHANGED vars
    BY <1>1, <1>3 DEF Start, Shutdown, vars
  <1>4. ASSUME NEW c \in Chats, SoftDelete(c) PROVE WaitInv'
    BY <1>1, <1>4 DEF SoftDelete
  <1>5. ASSUME NEW r \in Runs, NEW c \in Chats, Submit(r, c) \/ SubmitRefused(r, c)
        PROVE  WaitInv'
    BY <1>1, <1>5 DEF Submit, SubmitRefused
  <1>6. ASSUME NEW r \in Runs, Cancel(r) \/ WallTimer(r) PROVE WaitInv'
    BY <1>1, <1>6 DEF Cancel, WallTimer
  <1>7. ASSUME NEW r \in Runs,
               \/ MaterializeSubmitted(r) \/ MaterializePromoted(r) \/ AcquireStart(r) \/ Begin(r)
               \/ AbandonStart(r) \/ CommandTurn(r) \/ LoopTop(r) \/ Lookup(r) \/ Finish(r)
               \/ FinishRelease(r) \/ Promote(r) \/ FinishQueued(r)
        PROVE  WaitInv'
    BY <1>1, <1>7 DEF MaterializeSubmitted, MaterializePromoted, AcquireStart, Begin, AbandonStart,
       CommandTurn, LoopTop, Lookup, Finish, FinishRelease, Promote, FinishQueued
  <1>8. ASSUME NEW r \in Runs, UNCHANGED <<waiters, acquiring>>,
               \A k \in Calls : call[<<r, k>>] \in {"off", "done"} /\ call'[<<r, k>>] \in {"off", "ready"},
               \A x \in Runs, k \in Calls : x # r => call'[<<x, k>>] = call[<<x, k>>]
        PROVE  WaitInv'
    <2>1. {"off", "done", "ready"} \cap (Waiting \cup Left) = {}
      BY DEF Waiting, Left
    <2>2. \A x \in Runs : WaitsIn(call', x) = WaitsIn(call, x)
      BY <1>8, <2>1 DEF WaitsIn
    <2> QED BY <1>8, <2>1, <2>2 DEF GoroutineInv, WaitInv
  <1>9. ASSUME NEW r \in Runs, Turn(r) PROVE WaitInv'
    <2>1. \A k \in Calls : call[<<r, k>>] = "off"
      BY <1>9, NoCallAcquires DEF Turn, GoroutineInv
    <2>2. CASE UNCHANGED call
      BY <1>1, <1>9, <2>2 DEF Turn
    <2>3. CASE ~UNCHANGED call
      <3>1. PICK K \in SUBSET Calls :
               call' = [rk \in Runs \X Calls |-> IF rk[1] # r THEN call[rk]
                                                 ELSE IF rk[2] \in K THEN "ready" ELSE "off"]
        BY <1>9, <2>3 DEF Turn
      <3>2. UNCHANGED <<waiters, acquiring>>
        BY <1>9 DEF Turn
      <3> QED BY <1>8, <2>1, <3>1, <3>2
    <2> QED BY <2>2, <2>3
  <1>10. ASSUME NEW r \in Runs, ToolsDone(r) PROVE WaitInv'
    <2>1. /\ UNCHANGED <<waiters, acquiring>>
          /\ \A k \in Calls : call[<<r, k>>] \in {"off", "done"}
          /\ call' = [rk \in Runs \X Calls |-> IF rk[1] = r THEN "off" ELSE call[rk]]
      BY <1>10 DEF ToolsDone
    <2> QED BY <1>8, <2>1
  <1>11. ASSUME NEW r \in Runs, NEW k \in Calls, CallNext(r, k) PROVE WaitInv'
    BY <1>11, StepCallWaits
  <1> QED BY <1>2, <1>3, <1>4, <1>5, <1>6, <1>7, <1>9, <1>10, <1>11 DEF Next, RunNext

-----------------------------------------------------------------------------
(* Holding a slot. *)

\* The slot of a run that its calls did not give away.
LEMMA StepHolds == GoroutineInv /\ [Next]_vars => HoldInv'
  <1> SUFFICES ASSUME GoroutineInv, [Next]_vars PROVE HoldInv'
    OBVIOUS
  <1> USE DEF process, slots, waits, chatQs
  <1>t. /\ pc \in [Runs -> PCs] /\ holdsSlot \in [Runs -> BOOLEAN]
        /\ acquiring \in [Runs -> BOOLEAN] /\ waiters \in [Runs -> Int]
        /\ ctx \in [Runs -> {"live", "cancelled", "wall", "shutdown"}]
    BY DEF GoroutineInv, TypeInv, RunTypes
  <1>h. HoldInv
    BY DEF GoroutineInv
  <1>1. CASE Crash
    BY <1>1, <1>t DEF Crash, HoldInv
  <1>2. ASSUME UNCHANGED <<holdsSlot, acquiring, waiters, pc>>,
               \A x \in Runs : ctx[x] # "live" => ctx'[x] # "live"
        PROVE  HoldInv'
    BY <1>2, <1>h DEF HoldInv
  <1>3. CASE Start \/ Shutdown \/ UNCHANGED vars
    BY <1>2, <1>3 DEF Start, Shutdown, vars
  <1>4. ASSUME NEW c \in Chats, SoftDelete(c) PROVE HoldInv'
    BY <1>2, <1>4 DEF SoftDelete
  <1>5. ASSUME NEW r \in Runs, NEW c \in Chats, Submit(r, c) \/ SubmitRefused(r, c)
        PROVE  HoldInv'
    <2>1. /\ UNCHANGED <<holdsSlot, acquiring, waiters>> /\ pc[r] = "none"
          /\ pc'[r] \in {"submitted", "chatQueue", "over"}
          /\ \A x \in Runs \ {r} : pc'[x] = pc[x] /\ ctx'[x] = ctx[x]
      BY <1>5, <1>t DEF Submit, SubmitRefused
    <2> QED BY <1>h, <2>1 DEF HoldInv
  <1>6. ASSUME NEW r \in Runs, Cancel(r) \/ WallTimer(r) PROVE HoldInv'
    <2>1. /\ UNCHANGED <<holdsSlot, acquiring, waiters>>
          /\ \A x \in Runs : ctx[x] # "live" => ctx'[x] # "live"
          /\ pc' = pc \/ (pc[r] = "chatQueue" /\ pc' = [pc EXCEPT ![r] = "dequeued"])
      BY <1>6, <1>t DEF Cancel, WallTimer
    <2> QED BY <1>h, <1>t, <2>1 DEF HoldInv
  <1>7. ASSUME NEW r \in Runs, UNCHANGED <<holdsSlot, acquiring, waiters, ctx>>,
               NEW p, pc' = [pc EXCEPT ![r] = p],
               \/ p \in {"finish", "recorded"} /\ pc[r] # "released"
               \/ p \in {"acquire", "over"} /\ ~holdsSlot[r]
               \/ p = "lookup" /\ holdsSlot[r]
               \/ p \in {"turn", "tools"} /\ holdsSlot[r]
               \/ p = "loop" /\ (holdsSlot[r] \/ ctx[r] # "live")
        PROVE  HoldInv'
    BY <1>7, <1>h, <1>t DEF HoldInv
  <1>8. ASSUME NEW r \in Runs, MaterializeSubmitted(r) \/ MaterializePromoted(r) PROVE HoldInv'
    BY <1>7, <1>8, <1>h DEF MaterializeSubmitted, MaterializePromoted, EndsWith, HoldInv
  <1>9. ASSUME NEW r \in Runs, AcquireStart(r) PROVE HoldInv'
    BY <1>2, <1>9 DEF AcquireStart
  <1>10. ASSUME NEW r \in Runs, Begin(r) PROVE HoldInv'
    <2>1. ~acquiring[r]
      <3>1. pc[r] = "acquire"
        BY <1>10 DEF Begin
      <3>2. \A k \in Calls : call[<<r, k>>] = "off"
        BY <3>1, NoCallAcquires DEF GoroutineInv
      <3> QED BY <3>2 DEF GoroutineInv, WaitInv, Left
    <2> QED BY <1>10, <1>h, <1>t, <2>1 DEF Begin, HoldInv
  <1>11. ASSUME NEW r \in Runs, AbandonStart(r) PROVE HoldInv'
    BY <1>7, <1>11 DEF AbandonStart, EndsWith
  <1>12. ASSUME NEW r \in Runs, CommandTurn(r) \/ LoopTop(r) \/ Lookup(r) PROVE HoldInv'
    BY <1>7, <1>12, <1>h DEF CommandTurn, LoopTop, Lookup, EndsWith, HoldInv
  <1>13. ASSUME NEW r \in Runs, Turn(r) PROVE HoldInv'
    BY <1>7, <1>13, <1>h DEF Turn, EndsWith, HoldInv
  <1>14. ASSUME NEW r \in Runs, ToolsDone(r) PROVE HoldInv'
    <2>1. \A k \in Calls : call[<<r, k>>] \in {"off", "done"}
      BY <1>14 DEF ToolsDone
    <2>2. waiters[r] = 0 /\ ~acquiring[r]
      <3>1. \A k \in Calls : call[<<r, k>>] \notin Waiting \cup Left
        BY <2>1 DEF Waiting, Left
      <3> QED BY <3>1, NoWaits DEF GoroutineInv, WaitInv
    <2>3. holdsSlot[r] \/ ctx[r] # "live"
      BY <1>14, <1>h, <2>2 DEF ToolsDone, HoldInv
    <2> QED BY <1>7, <1>14, <2>3 DEF ToolsDone, EndsWith
  <1>15. ASSUME NEW r \in Runs, Finish(r) PROVE HoldInv'
    BY <1>15, <1>h, <1>t DEF Finish, HoldInv
  <1>16. ASSUME NEW r \in Runs, FinishRelease(r) PROVE HoldInv'
    BY <1>16, <1>h, <1>t DEF FinishRelease, HoldInv
  <1>17. ASSUME NEW r \in Runs, Promote(r) PROVE HoldInv'
    <2>1. UNCHANGED <<holdsSlot, acquiring, waiters, ctx>>
      BY <1>17 DEF Promote
    <2>2. /\ pc[r] = "released" /\ pc'[r] = "over"
          /\ \A x \in Runs \ {r} : pc'[x] = pc[x] \/ (pc[x] = "chatQueue" /\ pc'[x] = "promoted")
      BY <1>17, PromotedWaited DEF GoroutineInv
    <2> QED BY <1>h, <2>1, <2>2 DEF HoldInv
  <1>18. ASSUME NEW r \in Runs, FinishQueued(r) PROVE HoldInv'
    BY <1>7, <1>18, <1>h DEF FinishQueued, HoldInv
  <1>19. ASSUME NEW r \in Runs, NEW k \in Calls, CallNext(r, k) PROVE HoldInv'
    <2>1. pc[r] = "tools" /\ UNCHANGED <<pc, ctx>>
      <3>1. call[<<r, k>>] # "off" /\ UNCHANGED <<pc, ctx>>
        BY <1>19 DEF CallNext, CallStart, CallStep, EnterWait, LeaveWait, LeaveWaitLast,
                     AcquireResume, Resume, AbandonResume
      <3> QED BY <3>1 DEF GoroutineInv, CallsInTurn
    <2>2. waiters[r] = Cardinality(WaitsIn(call, r)) /\ waiters[r] \in Nat
          /\ (call[<<r, k>>] \in Waiting => waiters[r] > 0)
          /\ (call[<<r, k>>] \in Left => acquiring[r])
      <3>1. IsFiniteSet(WaitsIn(call, r))
        BY SchedulerAssumption, FS_Subset DEF WaitsIn
      <3>2. call[<<r, k>>] \in Waiting => WaitsIn(call, r) # {}
        BY DEF WaitsIn
      <3> QED BY <3>1, <3>2, FS_CardinalityType, FS_EmptySet DEF GoroutineInv, WaitInv
    <2>3. CASE CallStart(r, k) \/ CallStep(r, k) \/ AcquireResume(r, k)
      BY <1>2, <2>3 DEF CallStart, CallStep, AcquireResume
    <2>4. CASE EnterWait(r, k)
      BY <1>h, <1>t, <2>1, <2>2, <2>4 DEF EnterWait, HoldInv
    <2>5. CASE LeaveWait(r, k)
      <3>1. ~NeedsSlot(r) /\ UNCHANGED <<holdsSlot, acquiring>>
            /\ waiters' = [waiters EXCEPT ![r] = @ - 1] /\ waiters[r] > 0
        BY <2>2, <2>5 DEF LeaveWait, Waiting
      <3>2. waiters[r] > 1 \/ holdsSlot[r] \/ acquiring[r]
        BY <2>1, <2>2, <3>1 DEF NeedsSlot, Finished
      <3> QED BY <1>h, <1>t, <2>1, <2>2, <3>1, <3>2 DEF HoldInv
    <2>6. CASE LeaveWaitLast(r, k)
      BY <1>h, <1>t, <2>1, <2>6 DEF LeaveWaitLast, NeedsSlot, HoldInv
    <2>7. CASE Resume(r, k)
      <3>1. /\ acquiring' = [acquiring EXCEPT ![r] = FALSE] /\ UNCHANGED waiters
            /\ \/ waiters[r] > 0 /\ UNCHANGED holdsSlot
               \/ holdsSlot' = [holdsSlot EXCEPT ![r] = TRUE]
        BY <2>1, <2>7 DEF Resume, Finished
      <3> QED BY <1>h, <1>t, <2>1, <3>1 DEF HoldInv
    <2>8. CASE AbandonResume(r, k)
      BY <1>h, <1>t, <2>1, <2>8 DEF AbandonResume, HoldInv
    <2> QED BY <1>19, <2>3, <2>4, <2>5, <2>6, <2>7, <2>8 DEF CallNext
  <1> QED BY <1>1, <1>3, <1>4, <1>5, <1>6, <1>8, <1>9, <1>10, <1>11, <1>12, <1>13, <1>14, <1>15,
             <1>16, <1>17, <1>18, <1>19 DEF Next, RunNext

-----------------------------------------------------------------------------
LEMMA GoroutineInvHolds == Spec => []GoroutineInv
  <1>1. Init => GoroutineInv
    BY InitTypes, InitChat, InitRows, InitSlots DEF GoroutineInv
  <1>2. GoroutineInv /\ [Next]_vars => GoroutineInv'
    <2>1. GoroutineInv /\ [Next]_vars => TypeInv' /\ ChatInv' /\ CallsInTurn'
      BY NextTypes, NextChat, StepCalls DEF GoroutineInv
    <2>2. GoroutineInv /\ [Next]_vars => SlotsInv' /\ ThreadInv'
      BY StepSlots DEF SlotsAndThreads
    <2> QED BY <2>1, <2>2, StepWaits, StepHolds DEF GoroutineInv
  <1> QED BY <1>1, <1>2, PTL DEF Spec

\* R7: Manager.running is the number of slots that somebody owns and never
\* exceeds the maximum, and a turn is executed only with a slot, however
\* acquire, releaseLocked, enterWait, leaveWait and cancellations interleave.
THEOREM SlotAccountingHolds == Spec => []SlotAccounting
  <1>1. GoroutineInv => SlotAccounting
    BY DEF GoroutineInv, SlotAccounting, SlotsInv, CountInv, HoldInv, TypeInv, SemaphoreTypes
  <1> QED BY <1>1, GoroutineInvHolds, PTL

\* No run queues for a slot (resumeQ, startQ) while one is free.
THEOREM NoIdleSlotHolds == Spec => []NoIdleSlot
  <1>1. GoroutineInv => NoIdleSlot
    BY DEF GoroutineInv, SlotsInv
  <1> QED BY <1>1, GoroutineInvHolds, PTL
=============================================================================
