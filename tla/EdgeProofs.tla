------------------------------ MODULE EdgeProofs ------------------------------
(***************************************************************************)
(* Proofs about what the hub says to others and hears from them: the       *)
(* frames of a server's sessions, the gauges and the catalog derived from  *)
(* the registry, the request to a model and the stream of its turn, and    *)
(* the events exported to Loki.  The six parts share no state.             *)
(***************************************************************************)
EXTENDS SessionPipe, Topology, ModelStream, LogShipper, Catalog, Prompting,
        SequenceTheorems, FiniteSetTheorems, WellFoundedInduction, TLAPS

(*************************************************************************)
(* SessionPipe: no session takes an answer of a process older than the   *)
(* one it was opened for, for any buffer and any number of sessions,     *)
(* requests, restarts and timeouts.  Frames and reports travel one stream *)
(* in the order of the processes they are from, so a report vouches for  *)
(* all that comes behind it, and what came before is thrown away with the *)
(* session the report ends.                                              *)
(*************************************************************************)

Calls == [id : Nat, sess : Nat]
Replies == [id : Nat, sess : Nat, run : Nat, ok : BOOLEAN]
Reports == [state : {"starting", "running", "exited"}, run : Nat]
Frames == Replies \cup Reports

LEMMA FrameHasRun == \A f \in Frames : f.run \in Nat
BY DEF Frames, Replies, Reports

-----------------------------------------------------------------------------
(* Types.                                                                  *)

ClientTypes == /\ run \in Nat /\ asked \subseteq Calls
               /\ down \in Seq(Calls) /\ upward \in Seq(Frames)

HubTypes == /\ desired \in Seq(Frames) /\ incoming \in Seq(Frames) /\ accepting \in BOOLEAN
            /\ sess \in Nat /\ born \in Nat /\ nextId \in Nat

TypeInv == ClientTypes /\ HubTypes

LEMMA InitTypes == PipeInit => TypeInv
<1>1. <<>> \in Seq(Calls) /\ <<>> \in Seq(Frames)
  BY EmptySeq
<1>2. PipeInit => ClientTypes
  BY <1>1 DEF PipeInit, ClientTypes
<1>3. PipeInit => HubTypes
  <2>1. PipeInit => desired \in Seq(Frames) /\ incoming \in Seq(Frames)
    BY <1>1 DEF PipeInit
  <2>2. PipeInit => accepting \in BOOLEAN
    BY DEF PipeInit
  <2>3. PipeInit => sess \in Nat /\ born \in Nat /\ nextId \in Nat
    BY DEF PipeInit
  <2> QED BY <2>1, <2>2, <2>3 DEF HubTypes
<1> QED BY <1>2, <1>3 DEF TypeInv

LEMMA ReportIsFrame ==
    ASSUME NEW r \in Nat, NEW x \in {"starting", "running", "exited"}
    PROVE  Report(x, r) \in Frames /\ Report(x, r).run = r
BY DEF Report, Frames, Reports

LEMMA ReplyIsFrame ==
    ASSUME run \in Nat, NEW r \in Calls, NEW ok \in BOOLEAN
    PROVE  Reply(r, ok) \in Frames /\ Reply(r, ok).run = run
BY DEF Reply, Frames, Replies, Calls

\* What the client says next: one reply, one report, or the two of a start, of
\* the process that runs now.
Said ==
    \/ upward' = upward
    \/ \E f \in Frames : f.run = run' /\ upward' = Append(upward, f)
    \/ \E f, g \in Frames : f.run = run' /\ g.run = run' /\ upward' = upward \o <<f, g>>

LEMMA ClientSays ==
    ASSUME TypeInv,
           StopProcess \/ StartProcess \/ ProcessExits \/ WorkerSend \/ \E r \in asked : OnStdout(r)
    PROVE  /\ run' \in Nat /\ run <= run' /\ asked' \subseteq Calls /\ down' \in Seq(Calls)
           /\ Said
           /\ UNCHANGED <<desired, owner, sup, session>>
<1> USE DEF TypeInv, ClientTypes
<1>1. CASE StopProcess
  BY <1>1 DEF StopProcess, Said
<1>2. CASE StartProcess
  <2> DEFINE f == Report("starting", run')
             g == Report("running", run')
  <2>1. /\ run' = run + 1 /\ upward' = upward \o <<f, g>> /\ UNCHANGED <<asked, down>>
        /\ UNCHANGED <<desired, owner, sup, session>>
    BY <1>2 DEF StartProcess
  <2>2. f \in Frames /\ g \in Frames /\ f.run = run' /\ g.run = run'
    BY <2>1, ReportIsFrame
  <2> HIDE DEF f, g
  <2>3. Said
    BY <2>1, <2>2, Zenon DEF Said
  <2> QED BY <2>1, <2>3
<1>3. CASE ProcessExits
  <2> DEFINE f == Report("exited", run)
  <2>1. /\ run' = run /\ upward' = Append(upward, f) /\ asked' = {} /\ down' = down
        /\ UNCHANGED <<desired, owner, sup, session>>
    BY <1>3 DEF ProcessExits
  <2>2. f \in Frames /\ f.run = run
    BY ReportIsFrame
  <2> HIDE DEF f
  <2>3. Said
    BY <2>1, <2>2, Zenon DEF Said
  <2> QED BY <2>1, <2>3
<1>4. CASE WorkerSend
  <2> DEFINE r == Head(down)
             f == Reply(r, FALSE)
  <2>1. r \in Calls /\ Tail(down) \in Seq(Calls)
    BY <1>4, HeadTailProperties DEF WorkerSend
  <2>2. f \in Frames /\ f.run = run
    BY <2>1, ReplyIsFrame
  <2>3. /\ run' = run /\ (upward' = upward \/ upward' = Append(upward, f)) /\ down' = Tail(down)
        /\ asked' = asked \/ asked' = asked \cup {r}
        /\ UNCHANGED <<desired, owner, sup, session>>
    BY <1>4 DEF WorkerSend
  <2> HIDE DEF r, f
  <2>4. Said
    BY <2>2, <2>3, Zenon DEF Said
  <2> QED BY <2>1, <2>3, <2>4
<1>5. ASSUME NEW r \in asked, OnStdout(r)
      PROVE  /\ run' = run /\ asked' \subseteq Calls /\ down' = down /\ Said
             /\ UNCHANGED <<desired, owner, sup, session>>
  <2> DEFINE f == Reply(r, TRUE)
  <2>1. f \in Frames /\ f.run = run
    BY ReplyIsFrame
  <2>2. run' = run /\ upward' = Append(upward, f) /\ asked' = asked \ {r} /\ down' = down
    BY <1>5 DEF OnStdout
  <2> HIDE DEF f
  <2> QED BY <1>5, <2>1, <2>2 DEF OnStdout, Said
<1> QED BY <1>1, <1>2, <1>3, <1>4, <1>5

\* What the hub takes in and lets go.
LEMMA HubTypesStep ==
    ASSUME TypeInv,
           \/ OnServerState \/ Deliver \/ TakeState \/ Open \/ CallServer \/ ReadFrame
           \/ \E i \in pending : Timeout(i)
    PROVE  TypeInv'
<1> USE DEF TypeInv, ClientTypes, HubTypes, client, owner, session
<1>0. <<>> \in Seq(Frames) /\ (desired # <<>> => desired[1] \in Frames)
  BY EmptySeq, ElementOfSeq
<1>1. CASE OnServerState \/ Deliver
  <2>1. /\ Head(upward) \in Frames /\ Tail(upward) \in Seq(Frames)
        /\ Append(incoming, Head(upward)) \in Seq(Frames) /\ <<Head(upward)>> \in Seq(Frames)
    BY <1>1, <1>0, HeadTailProperties, AppendProperties DEF OnServerState, Deliver
  <2> QED BY <1>1, <2>1 DEF OnServerState, Deliver
<1>2. CASE TakeState
  <2>1. desired[1].run \in Nat
    BY <1>0, <1>2, FrameHasRun DEF TakeState
  <2> QED BY <1>0, <1>2, <2>1 DEF TakeState, Accepting
<1>3. CASE Open
  <2>1. Append(down, [id |-> 1, sess |-> sess + 1]) \in Seq(Calls)
    BY AppendProperties DEF Calls
  <2> QED BY <1>0, <1>3, <2>1 DEF Open, Accepting
<1>4. CASE CallServer
  <2>1. Append(down, Request(nextId)) \in Seq(Calls)
    BY AppendProperties DEF Calls, Request
  <2> QED BY <1>4, <2>1 DEF CallServer
<1>5. CASE ReadFrame
  <2>1. Tail(incoming) \in Seq(Frames)
    BY <1>5, HeadTailProperties DEF ReadFrame
  <2>2. incoming' \in Seq(Frames) /\ accepting' \in BOOLEAN
    BY <1>0, <1>5, <2>1 DEF ReadFrame, Accepting
  <2> QED BY <1>5, <2>2 DEF ReadFrame
<1>6. ASSUME NEW i \in pending, Timeout(i) PROVE TypeInv'
  BY <1>0, <1>6 DEF Timeout, Accepting
<1> QED BY <1>1, <1>2, <1>3, <1>4, <1>5, <1>6

LEMMA SaidTypes == TypeInv /\ Said => upward' \in Seq(Frames)
<1> SUFFICES ASSUME TypeInv, Said PROVE upward' \in Seq(Frames)
  OBVIOUS
<1> USE DEF TypeInv, ClientTypes
<1>1. \A f \in Frames : Append(upward, f) \in Seq(Frames)
  BY AppendProperties
<1>2. \A f, g \in Frames : upward \o <<f, g>> \in Seq(Frames)
  BY ConcatProperties
<1> QED BY <1>1, <1>2 DEF Said

-----------------------------------------------------------------------------
(* Order.                                                                  *)

\* A stream in the order of the processes its frames are from, lo to hi.
Ordered(q, lo, hi) ==
    \A i \in 1..Len(q) : /\ lo <= q[i].run /\ q[i].run <= hi
                         /\ \A j \in i..Len(q) : q[i].run <= q[j].run

LEMMA OrderedAppend ==
    ASSUME NEW q \in Seq(Frames), NEW f \in Frames, NEW lo \in Nat, NEW hi \in Nat,
           Ordered(q, lo, hi), hi <= f.run, lo <= f.run
    PROVE  Append(q, f) \in Seq(Frames) /\ Ordered(Append(q, f), lo, f.run)
<1> DEFINE a == Append(q, f)
<1>1. /\ a \in Seq(Frames) /\ Len(a) = Len(q) + 1 /\ Len(q) \in Nat
      /\ \A i \in 1..Len(q) : a[i] = q[i]
      /\ a[Len(q) + 1] = f
  BY AppendProperties, LenProperties
<1>2. \A i \in 1..Len(q) : q[i].run \in Nat
  BY FrameHasRun, ElementOfSeq
<1>3. f.run \in Nat
  BY FrameHasRun
<1> HIDE DEF a
<1>4. \A i \in 1..Len(a) : lo <= a[i].run /\ a[i].run <= f.run
  BY <1>1, <1>2, <1>3, SMTT(30), ZenonT(60), Z3T(60) DEF Ordered
<1>5. \A i \in 1..Len(a) : \A j \in i..Len(a) : a[i].run <= a[j].run
  <2> SUFFICES ASSUME NEW i \in 1..Len(a), NEW j \in i..Len(a) PROVE a[i].run <= a[j].run
    OBVIOUS
  <2>1. CASE j = Len(a)
    BY <1>1, <1>4, <2>1
  <2>2. CASE j # Len(a)
    BY <1>1, <2>2 DEF Ordered
  <2> QED BY <2>1, <2>2
<1> QED BY <1>1, <1>4, <1>5 DEF Ordered, a

LEMMA OrderedTail ==
    ASSUME NEW q \in Seq(Frames), q # <<>>, NEW lo \in Nat, NEW hi \in Nat, Ordered(q, lo, hi)
    PROVE  /\ lo <= Head(q).run /\ Head(q).run <= hi
           /\ Ordered(Tail(q), lo, hi) /\ Ordered(Tail(q), Head(q).run, hi)
<1> DEFINE t == Tail(q)
<1>1. /\ Len(q) \in Nat /\ Len(q) # 0 /\ Len(t) = Len(q) - 1 /\ Head(q) = q[1]
      /\ \A i \in 1..Len(t) : t[i] = q[i + 1]
  BY HeadTailProperties, LenProperties, EmptySeq
<1>2. \A i \in 1..Len(q) : q[i].run \in Nat
  BY FrameHasRun, ElementOfSeq
<1> HIDE DEF t
<1>3. lo <= q[1].run /\ q[1].run <= hi
  BY <1>1 DEF Ordered
<1>4. \A i \in 1..Len(t) : /\ lo <= t[i].run /\ t[i].run <= hi /\ q[1].run <= t[i].run
                           /\ \A j \in i..Len(t) : t[i].run <= t[j].run
  <2> SUFFICES ASSUME NEW i \in 1..Len(t)
               PROVE  /\ lo <= t[i].run /\ t[i].run <= hi /\ q[1].run <= t[i].run
                      /\ \A j \in i..Len(t) : t[i].run <= t[j].run
    OBVIOUS
  <2>1. i + 1 \in 1..Len(q) /\ t[i] = q[i + 1]
    BY <1>1
  <2>2. lo <= q[i + 1].run /\ q[i + 1].run <= hi /\ q[1].run <= q[i + 1].run
    BY <1>1, <2>1 DEF Ordered
  <2>3. ASSUME NEW j \in i..Len(t) PROVE t[i].run <= t[j].run
    <3>1. j + 1 \in (i + 1)..Len(q) /\ t[j] = q[j + 1]
      BY <1>1, <2>3
    <3>2. \A x \in (i + 1)..Len(q) : q[i + 1].run <= q[x].run
      BY <2>1 DEF Ordered
    <3> QED BY <2>1, <3>1, <3>2
  <2> QED BY <1>1, <2>2, <2>3
<1> QED BY <1>1, <1>3, <1>4 DEF Ordered, t

-----------------------------------------------------------------------------
(* Freshness.                                                              *)

\* A report that waits vouches for what comes behind it.
ReportVouches ==
    desired # <<>> => /\ born <= desired[1].run /\ desired[1].run <= run
                      /\ Ordered(upward, desired[1].run, run)

\* Only an open session keeps frames, and none older than its process.
BufferIsFresh ==
    /\ \A i \in 1..Len(incoming) : born <= incoming[i].run
    /\ ~accepting => incoming = <<>>
    /\ sup \in {"next", "settle"} => ~accepting

FreshInv == /\ born <= run /\ Ordered(upward, born, run)
            /\ ReportVouches /\ BufferIsFresh /\ AnswersAreFresh

LEMMA InitFresh == PipeInit => FreshInv
<1> SUFFICES ASSUME PipeInit PROVE FreshInv
  OBVIOUS
<1>1. Len(upward) = 0 /\ Len(incoming) = 0
  BY DEF PipeInit
<1>2. Ordered(upward, born, run) /\ BufferIsFresh
  BY <1>1 DEF PipeInit, Ordered, BufferIsFresh
<1> QED BY <1>2 DEF PipeInit, FreshInv, ReportVouches, AnswersAreFresh

\* The client: the stream grows by frames of the process that runs.
LEMMA ClientFresh ==
    ASSUME TypeInv, FreshInv, run' \in Nat, run <= run', Said,
           UNCHANGED <<desired, owner, sup, session>>
    PROVE  FreshInv'
<1> USE DEF TypeInv, ClientTypes, HubTypes
<1>1. ASSUME NEW lo \in Nat, Ordered(upward, lo, run), lo <= run PROVE Ordered(upward', lo, run')
  <2>1. CASE upward' = upward
    <3>1. \A i \in 1..Len(upward) : upward[i].run \in Nat
      BY FrameHasRun, ElementOfSeq
    <3> QED BY <1>1, <2>1, <3>1 DEF Ordered
  <2>2. ASSUME NEW f \in Frames, f.run = run', upward' = Append(upward, f)
        PROVE  Ordered(upward', lo, run')
    BY <1>1, <2>2, OrderedAppend
  <2>3. ASSUME NEW f \in Frames, NEW g \in Frames, f.run = run', g.run = run',
               upward' = upward \o <<f, g>>
        PROVE  Ordered(upward', lo, run')
    <3>1. Append(upward, f) \in Seq(Frames) /\ Ordered(Append(upward, f), lo, run')
      BY <1>1, <2>3, OrderedAppend, SMTT(30), ZenonT(60), Z3T(60)
    <3>2. Ordered(Append(Append(upward, f), g), lo, run')
      <4> DEFINE q == Append(upward, f)
      <4>1. q \in Seq(Frames) /\ Ordered(q, lo, run') /\ lo <= g.run /\ run' <= g.run
        BY <1>1, <2>3, <3>1
      <4> HIDE DEF q
      <4>2. Ordered(Append(q, g), lo, g.run)
        BY <4>1, OrderedAppend
      <4> QED BY <2>3, <4>2 DEF q
    <3>3. upward' = Append(Append(upward, f), g)
      <4>1. <<f, g>> = Append(<<f>>, g) /\ <<f>> \in Seq(Frames) /\ <<g>> \in Seq(Frames)
        OBVIOUS
      <4>2. <<f, g>> = <<f>> \o <<g>> /\ Append(upward, f) = upward \o <<f>>
        BY <4>1, AppendIsConcat
      <4>3. Append(Append(upward, f), g) = (upward \o <<f>>) \o <<g>>
        BY <3>1, <4>2, AppendIsConcat, SMTT(30), ZenonT(60), Z3T(60)
      <4>4. (upward \o <<f>>) \o <<g>> = upward \o (<<f>> \o <<g>>)
        BY <4>1, ConcatAssociative
      <4> QED BY <2>3, <4>2, <4>3, <4>4
    <3> QED BY <3>2, <3>3
  <2> QED BY <2>1, <2>2, <2>3 DEF Said
<1>2. born' = born /\ desired' = desired
  BY DEF session
<1>3. Ordered(upward', born', run') /\ born' <= run'
  BY <1>1, <1>2 DEF FreshInv
<1>4. ReportVouches'
  <2>1. CASE desired = <<>>
    BY <1>2, <2>1 DEF ReportVouches
  <2>2. CASE desired # <<>>
    <3>1. desired[1].run \in Nat
      BY <2>2, FrameHasRun, ElementOfSeq, EmptySeq
    <3>2. Ordered(upward', desired[1].run, run')
      BY <1>1, <2>2, <3>1 DEF FreshInv, ReportVouches
    <3> QED BY <1>2, <2>2, <3>1, <3>2 DEF FreshInv, ReportVouches
  <2> QED BY <2>1, <2>2
<1>5. BufferIsFresh' /\ AnswersAreFresh'
  BY DEF FreshInv, BufferIsFresh, AnswersAreFresh, owner, session
<1> QED BY <1>3, <1>4, <1>5 DEF FreshInv

\* The hub takes a frame from the stream: a report, or a reply for the session.
LEMMA TakeInFresh == TypeInv /\ FreshInv /\ (OnServerState \/ Deliver) => FreshInv'
<1> SUFFICES ASSUME TypeInv, FreshInv, OnServerState \/ Deliver PROVE FreshInv'
  OBVIOUS
<1> USE DEF TypeInv, ClientTypes, HubTypes
<1> DEFINE f == Head(upward)
<1>1. upward # <<>> /\ f \in Frames /\ f.run \in Nat /\ upward' = Tail(upward)
  BY HeadTailProperties, FrameHasRun DEF OnServerState, Deliver
<1>2. /\ born <= f.run /\ f.run <= run
      /\ Ordered(Tail(upward), born, run) /\ Ordered(Tail(upward), f.run, run)
  BY <1>1, OrderedTail DEF FreshInv
<1>3. UNCHANGED <<run, born, answers, sup, accepting>>
  BY DEF OnServerState, Deliver, client, owner, session
<1> HIDE DEF f
<1>4. CASE OnServerState
  <2>1. desired' = <<f>> /\ incoming' = incoming
    BY <1>4 DEF OnServerState, owner, f
  <2>2. desired'[1] = f
    BY <2>1
  <2>3. ReportVouches'
    BY <1>1, <1>2, <1>3, <2>2 DEF ReportVouches
  <2> QED BY <1>1, <1>2, <1>3, <2>1, <2>3 DEF FreshInv, BufferIsFresh, AnswersAreFresh
<1>5. CASE Deliver
  <2>1. desired' = desired
    BY <1>5 DEF Deliver
  <2>2. incoming' = incoming \/ (accepting /\ incoming' = Append(incoming, f))
    BY <1>5 DEF Deliver, f
  <2>3. BufferIsFresh'
    <3>1. CASE incoming' = incoming
      BY <1>3, <3>1 DEF FreshInv, BufferIsFresh
    <3>2. CASE accepting /\ incoming' = Append(incoming, f)
      <4>1. \A i \in 1..Len(incoming') :
               \/ i \in 1..Len(incoming) /\ incoming'[i] = incoming[i]
               \/ incoming'[i] = f
        BY <1>1, <3>2, AppendProperties, SMTT(30), ZenonT(60), Z3T(60)
      <4> QED BY <1>2, <1>3, <3>2, <4>1 DEF FreshInv, BufferIsFresh
    <3> QED BY <2>2, <3>1, <3>2
  <2>4. ReportVouches'
    <3>1. desired # <<>> => desired[1].run \in Nat
      BY FrameHasRun, ElementOfSeq, EmptySeq
    <3>2. desired # <<>> => Ordered(Tail(upward), desired[1].run, run)
      BY <1>1, <3>1, OrderedTail DEF FreshInv, ReportVouches
    <3> QED BY <1>1, <1>3, <2>1, <3>2 DEF FreshInv, ReportVouches
  <2> QED BY <1>1, <1>2, <1>3, <2>3, <2>4 DEF FreshInv, AnswersAreFresh
<1> QED BY <1>4, <1>5

\* The supervisor takes the report: what it throws away is older, what comes
\* behind it is not.
LEMMA TakeStateFresh == TypeInv /\ FreshInv /\ TakeState => FreshInv'
<1> SUFFICES ASSUME TypeInv, FreshInv, TakeState PROVE FreshInv'
  OBVIOUS
<1> USE DEF TypeInv, HubTypes
<1>1. /\ desired # <<>> /\ desired' = <<>> /\ born' = desired[1].run /\ answers' = {}
      /\ UNCHANGED <<run, upward>>
  BY DEF TakeState, client
<1>2. incoming' = <<>> /\ accepting' = FALSE
  BY DEF TakeState, Accepting, FreshInv, BufferIsFresh, owner
<1>3. Len(<<>>) = 0
  OBVIOUS
<1>4. BufferIsFresh'
  BY <1>2, <1>3 DEF BufferIsFresh
<1> QED BY <1>1, <1>4 DEF FreshInv, ReportVouches, AnswersAreFresh

\* The rest of the hub: frames are kept from when a session opens until it ends,
\* and read while it is open.
LEMMA SessionFresh ==
    ASSUME TypeInv, FreshInv, Open \/ CallServer \/ ReadFrame \/ \E i \in pending : Timeout(i)
    PROVE  FreshInv'
<1> USE DEF TypeInv, HubTypes
<1>1. UNCHANGED <<run, upward, desired, born>>
  BY DEF Open, CallServer, ReadFrame, Timeout, client
<1>2. ReportVouches' /\ born' <= run' /\ Ordered(upward', born', run')
  BY <1>1 DEF FreshInv, ReportVouches
<1>3. Len(<<>>) = 0
  OBVIOUS
<1>4. CASE Open
  BY <1>1, <1>2, <1>3, <1>4 DEF Open, Accepting, FreshInv, BufferIsFresh, AnswersAreFresh
<1>5. CASE CallServer
  BY <1>1, <1>2, <1>5 DEF CallServer, FreshInv, BufferIsFresh, AnswersAreFresh, owner
<1>6. CASE ReadFrame
  <2> DEFINE f == Head(incoming)
  <2>1. incoming # <<>> /\ Len(incoming) # 0 /\ f = incoming[1] /\ accepting
    BY <1>6, EmptySeq DEF ReadFrame, FreshInv, BufferIsFresh
  <2>2. born <= f.run
    BY <2>1, LenProperties DEF FreshInv, BufferIsFresh
  <2>3. answers' \subseteq answers \cup {f}
    BY <1>6 DEF ReadFrame
  <2>4. \/ incoming' = <<>> /\ accepting' = FALSE
        \/ incoming' = Tail(incoming) /\ accepting' = accepting /\ sup' \notin {"next", "settle"}
    <3> DEFINE refused == f.id \in pending /\ f.id = 1 /\ ~f.ok
    <3>1. CASE refused
      BY <1>6, <3>1 DEF ReadFrame, Accepting
    <3>2. CASE ~refused
      <4>1. incoming' = Tail(incoming) /\ accepting' = accepting
        BY <1>6, <3>2 DEF ReadFrame
      <4>2. sup' \in {"list", "open", sup}
        BY <1>6, <3>2 DEF ReadFrame
      <4>3. sup \in {"connect", "list", "open"}
        BY <1>6 DEF ReadFrame
      <4> QED BY <4>1, <4>2, <4>3
    <3> QED BY <3>1, <3>2
  <2>5. \A i \in 1..Len(Tail(incoming)) : born <= Tail(incoming)[i].run
    BY <2>1, HeadTailProperties, LenProperties DEF FreshInv, BufferIsFresh
  <2>6. BufferIsFresh'
    <3>1. CASE incoming' = <<>> /\ accepting' = FALSE
      BY <1>3, <3>1 DEF BufferIsFresh
    <3>2. CASE incoming' = Tail(incoming) /\ accepting' = accepting /\ sup' \notin {"next", "settle"}
      <4>1. \A i \in 1..Len(incoming') : born' <= incoming'[i].run
        BY <1>1, <2>5, <3>2
      <4> QED BY <2>1, <3>2, <4>1 DEF BufferIsFresh
    <3> QED BY <2>4, <3>1, <3>2
  <2>7. AnswersAreFresh'
    BY <1>1, <2>2, <2>3 DEF FreshInv, AnswersAreFresh
  <2> QED BY <1>2, <2>6, <2>7 DEF FreshInv
<1>7. ASSUME NEW i \in pending, Timeout(i) PROVE FreshInv'
  <2>1. answers' = answers
    BY <1>7 DEF Timeout
  <2>2. \/ incoming' = <<>> /\ accepting' = FALSE
        \/ UNCHANGED <<incoming, accepting>> /\ (sup' = sup \/ sup' = "open")
    BY <1>7 DEF Timeout, Accepting, owner
  <2>3. BufferIsFresh'
    BY <1>1, <1>3, <2>2 DEF FreshInv, BufferIsFresh
  <2> QED BY <1>1, <1>2, <2>1, <2>3 DEF FreshInv, AnswersAreFresh
<1> QED BY <1>4, <1>5, <1>6, <1>7

\* Whatever restarts, delays and timeouts there are, a session reads no reply of a
\* process older than the one it was opened for (deliver, startAccepting), for any
\* size of the buffer and any number of sessions and requests.
THEOREM AnswersAreFreshHolds == PipeSpec => []AnswersAreFresh
<1> DEFINE IInv == TypeInv /\ FreshInv
<1>1. PipeInit => IInv
  BY InitTypes, InitFresh
<1>2. IInv /\ [PipeNext]_pipe => IInv'
  <2> SUFFICES ASSUME TypeInv, FreshInv, [PipeNext]_pipe PROVE TypeInv' /\ FreshInv'
    OBVIOUS
  <2>1. CASE StopProcess \/ StartProcess \/ ProcessExits \/ WorkerSend \/ \E r \in asked : OnStdout(r)
    <3>1. TypeInv'
      BY <2>1, ClientSays, SaidTypes DEF TypeInv, ClientTypes, HubTypes, owner, session
    <3> QED BY <2>1, <3>1, ClientSays, ClientFresh
  <2>2. CASE OnServerState \/ Deliver \/ TakeState \/ Open \/ CallServer \/ ReadFrame
             \/ \E i \in pending : Timeout(i)
    BY <2>2, HubTypesStep, TakeInFresh, TakeStateFresh, SessionFresh
  <2>3. CASE UNCHANGED pipe
    BY <2>3 DEF pipe, client, owner, session, TypeInv, ClientTypes, HubTypes, FreshInv,
                ReportVouches, BufferIsFresh, AnswersAreFresh
  <2> QED BY <2>1, <2>2, <2>3 DEF PipeNext
<1>3. IInv => AnswersAreFresh
  BY DEF FreshInv
<1> QED BY <1>1, <1>2, <1>3, PTL DEF PipeSpec

-----------------------------------------------------------------------------
(*************************************************************************)
(* Topology: the gauges follow the registry, for any servers, queue and  *)
(* number of connections.  Until a change is noticed (its event is owed, *)
(* queued, or was pushed out) the watcher is in step: idle, its gauges say *)
(* what the registry holds; counting, what it has counted and what it has *)
(* still to count add up to it.                                          *)
(*************************************************************************)

BusEvents == {"connections", "other"}

RegistryTypes == /\ joined \subseteq Conns /\ IsFiniteSet(joined)
                 /\ report \in [Conns -> [TopServers -> TopStates]] /\ owed \in Nat
BusTypes == inbox \in Seq(BusEvents) /\ Len(inbox) <= BusQueue /\ missed \in BOOLEAN
WatcherTypes == /\ update \in BOOLEAN /\ todo \subseteq Conns \X TopServers /\ IsFiniteSet(todo)
                /\ tally \in [TopStates -> Nat]

\* A change has yet to be published, its event is in the queue, or it was
\* pushed out.
Noticed == owed > 0 \/ (\E i \in 1..Len(inbox) : inbox[i] = "connections") \/ missed

\* What the watcher has counted and what it has still to count is what the
\* registry holds; when it does not count, the gauges say it.
Counted == \A x \in Known : tally[x] + Tally(todo)[x] = Tally(joined \X TopServers)[x]
Shown == /\ gauges.connections = Cardinality(joined)
         /\ \A x \in Known : gauges.servers[x] = Tally(joined \X TopServers)[x]
InStep == IF update THEN Counted ELSE Shown

GaugeTypes == RegistryTypes /\ BusTypes /\ WatcherTypes
GaugeInv == GaugeTypes /\ (Noticed \/ InStep)

LEMMA TallyOf ==
    ASSUME NEW S, IsFiniteSet(S), NEW x \in TopStates
    PROVE  /\ IsFiniteSet({p \in S : report[p[1]][p[2]] = x})
           /\ Tally(S)[x] = Cardinality({p \in S : report[p[1]][p[2]] = x})
           /\ Tally(S)[x] \in Nat
<1>1. {p \in S : report[p[1]][p[2]] = x} \in SUBSET S
  OBVIOUS
<1>2. IsFiniteSet({p \in S : report[p[1]][p[2]] = x})
  BY <1>1, FS_Subset
<1>3. Cardinality({p \in S : report[p[1]][p[2]] = x}) \in Nat
  BY <1>2, FS_CardinalityType
<1> QED BY <1>2, <1>3 DEF Tally

LEMMA TallyOfNone == \A x \in TopStates : Tally({})[x] = 0
<1> SUFFICES ASSUME NEW x \in TopStates PROVE Tally({})[x] = 0
  OBVIOUS
<1>1. {p \in {} : report[p[1]][p[2]] = x} = {}
  OBVIOUS
<1> QED BY <1>1, FS_EmptySet DEF Tally

\* One server less to count.
LEMMA TallyWithout ==
    ASSUME NEW S, IsFiniteSet(S), NEW p \in S, NEW x \in TopStates
    PROVE  Tally(S)[x] = Tally(S \ {p})[x] + (IF report[p[1]][p[2]] = x THEN 1 ELSE 0)
<1> DEFINE A == {q \in S : report[q[1]][q[2]] = x}
           B == {q \in S \ {p} : report[q[1]][q[2]] = x}
<1>1. Tally(S)[x] = Cardinality(A) /\ Tally(S \ {p})[x] = Cardinality(B)
  BY DEF Tally
<1>2. IsFiniteSet(A) /\ Cardinality(A) \in Nat
  BY TallyOf, FS_CardinalityType
<1>3. CASE report[p[1]][p[2]] = x
  <2>1. B = A \ {p} /\ p \in A
    BY <1>3
  <2> HIDE DEF A, B
  <2>2. Cardinality(B) = Cardinality(A) - 1
    BY <1>2, <2>1, FS_RemoveElement
  <2> QED BY <1>1, <1>2, <1>3, <2>2
<1>4. CASE report[p[1]][p[2]] # x
  <2>1. B = A
    BY <1>4
  <2> HIDE DEF A, B
  <2> QED BY <1>1, <1>2, <1>4, <2>1
<1> QED BY <1>3, <1>4

\* Nothing to follow where neither the registry nor the watcher moves.
LEMMA InStepStays ==
    ASSUME InStep, UNCHANGED <<joined, report, update, todo, tally, gauges>>
    PROVE  InStep'
<1>1. Tally(todo)' = Tally(todo) /\ Tally(joined \X TopServers)' = Tally(joined \X TopServers)
  BY DEF Tally
<1>2. Counted => Counted'
  BY <1>1 DEF Counted
<1>3. Shown => Shown'
  BY <1>1 DEF Shown
<1> QED BY <1>2, <1>3 DEF InStep

-----------------------------------------------------------------------------
LEMMA GaugeInit == TInit => GaugeInv
<1> SUFFICES ASSUME TInit PROVE GaugeInv
  OBVIOUS
<1>1. RegistryTypes
  <2>1. joined \subseteq Conns /\ IsFiniteSet(joined) /\ owed \in Nat
    BY FS_EmptySet DEF TInit
  <2>2. report \in [Conns -> [TopServers -> TopStates]]
    BY TopologyAssumption DEF TInit, TopStates
  <2> QED BY <2>1, <2>2 DEF RegistryTypes
<1>2. BusTypes
  <2>1. inbox = <<>> /\ missed \in BOOLEAN
    BY DEF TInit
  <2>2. inbox \in Seq(BusEvents) /\ Len(inbox) = 0
    BY <2>1, EmptySeq
  <2>3. Len(inbox) <= BusQueue
    BY <2>2, TopologyAssumption
  <2> QED BY <2>1, <2>2, <2>3 DEF BusTypes
<1>3. WatcherTypes
  BY FS_EmptySet DEF TInit, WatcherTypes, Zero
<1>4. joined \X TopServers = {}
  BY DEF TInit
<1>5. Shown
  <2>1. \A x \in Known : gauges.servers[x] = 0
    BY DEF TInit, Zero, TopStates
  <2>2. \A x \in Known : Tally(joined \X TopServers)[x] = 0
    BY <1>4, TallyOfNone DEF TopStates
  <2>3. gauges.connections = 0 /\ Cardinality(joined) = 0
    BY FS_EmptySet DEF TInit
  <2> QED BY <2>1, <2>2, <2>3 DEF Shown
<1>6. InStep
  BY <1>5 DEF TInit, InStep
<1> QED BY <1>1, <1>2, <1>3, <1>6 DEF GaugeInv, GaugeTypes

\* A change of the registry owes its event.
LEMMA OweNotices == GaugeInv /\ Owe => owed' > 0 /\ owed' \in Nat
BY DEF GaugeInv, GaugeTypes, RegistryTypes, Owe

LEMMA GaugeChange ==
    ASSUME GaugeInv, Owe, RegistryTypes', UNCHANGED Bus, UNCHANGED Watcher
    PROVE  GaugeInv'
<1>1. Noticed'
  BY OweNotices DEF Noticed
<1>2. BusTypes' /\ WatcherTypes'
  BY DEF GaugeInv, GaugeTypes, BusTypes, WatcherTypes, Bus, Watcher
<1> QED BY <1>1, <1>2 DEF GaugeInv, GaugeTypes

\* The queue after an event, and that a "connections" is there or noted.
LEMMA PublishQueues ==
    ASSUME BusTypes, NEW e \in BusEvents, Publish(e)
    PROVE  /\ BusTypes'
           /\ e = "connections" => \E i \in 1..Len(inbox') : inbox'[i] = "connections"
           /\ (\E i \in 1..Len(inbox) : inbox[i] = "connections") \/ missed
                => (\E i \in 1..Len(inbox') : inbox'[i] = "connections") \/ missed'
<1> DEFINE kept == IF Len(inbox) < BusQueue THEN inbox ELSE Tail(inbox)
<1>1. inbox \in Seq(BusEvents) /\ Len(inbox) \in Nat /\ Len(inbox) <= BusQueue
  BY LenProperties DEF BusTypes
<1>2. BusQueue \in Nat \ {0}
  BY TopologyAssumption
<1>3. kept \in Seq(BusEvents) /\ Len(kept) \in Nat /\ Len(kept) < BusQueue
  <2>1. CASE Len(inbox) < BusQueue
    BY <1>1, <2>1
  <2>2. CASE ~(Len(inbox) < BusQueue)
    <3>1. inbox # <<>>
      BY <1>1, <1>2, <2>2, EmptySeq
    <3>2. Tail(inbox) \in Seq(BusEvents) /\ Len(Tail(inbox)) = Len(inbox) - 1
      BY <1>1, <3>1, HeadTailProperties
    <3> QED BY <1>1, <1>2, <2>2, <3>2
  <2> QED BY <2>1, <2>2
<1>4. inbox' = Append(kept, e)
  BY DEF Publish
<1>5. missed' = /\ \A i \in 1..Len(inbox') : inbox'[i] # "connections"
                /\ missed \/ (Len(inbox) = BusQueue /\ Head(inbox) = "connections")
  BY DEF Publish
<1>6. /\ inbox' \in Seq(BusEvents) /\ Len(inbox') = Len(kept) + 1
      /\ \A i \in 1..Len(kept) : inbox'[i] = kept[i]
      /\ inbox'[Len(kept) + 1] = e
  <2> HIDE DEF kept
  <2> QED BY <1>3, <1>4, AppendProperties
<1>7. BusTypes'
  <2>1. Len(inbox') <= BusQueue
    <3> HIDE DEF kept
    <3> QED BY <1>2, <1>3, <1>6
  <2>2. missed' \in BOOLEAN
    BY <1>5 DEF BusTypes
  <2> QED BY <1>6, <2>1, <2>2 DEF BusTypes
<1>8. e = "connections" => \E i \in 1..Len(inbox') : inbox'[i] = "connections"
  <2> HIDE DEF kept
  <2> QED BY <1>3, <1>6
<1>9. ASSUME NEW i \in 1..Len(inbox), inbox[i] = "connections",
             \A j \in 1..Len(inbox') : inbox'[j] # "connections"
      PROVE  Len(inbox) = BusQueue /\ Head(inbox) = "connections"
  <2>1. ~(Len(inbox) < BusQueue)
    BY <1>1, <1>3, <1>6, <1>9
  <2>2. inbox # <<>>
    BY <1>1, <1>9, EmptySeq
  <2>3. \A j \in 1..Len(Tail(inbox)) : Tail(inbox)[j] = inbox[j + 1]
    BY <1>1, <2>2, HeadTailProperties
  <2>4. Len(Tail(inbox)) = Len(inbox) - 1 /\ Head(inbox) = inbox[1]
    BY <1>1, <2>2, HeadTailProperties
  <2>5. \A j \in 1..(Len(inbox) - 1) : inbox'[j] = inbox[j + 1]
    BY <1>1, <1>6, <2>1, <2>3, <2>4
  <2>6. i = 1
    <3> SUFFICES ASSUME i # 1 PROVE FALSE
      OBVIOUS
    <3>1. i - 1 \in 1..(Len(inbox) - 1) /\ (i - 1) + 1 = i
      BY <1>1
    <3>2. inbox'[i - 1] = "connections"
      BY <1>9, <2>5, <3>1
    <3>3. i - 1 \in 1..Len(inbox')
      BY <1>1, <1>6, <2>1, <2>4
    <3> QED BY <1>9, <3>2, <3>3
  <2> QED BY <1>1, <1>9, <2>1, <2>4, <2>6, <1>2
<1> QED BY <1>5, <1>7, <1>8, <1>9, Zenon

-----------------------------------------------------------------------------
LEMMA GaugeStep == GaugeInv /\ [TNext]_tvars => GaugeInv'
<1> SUFFICES ASSUME GaugeInv, [TNext]_tvars PROVE GaugeInv'
  OBVIOUS
<1> USE DEF GaugeInv, GaugeTypes
<1>1. ASSUME NEW c \in Conns, NEW l \in Labels, AddOrReplaceConnection(c, l)
      PROVE  GaugeInv'
  <2>1. joined' = {d \in joined : labelOf[d] # l} \cup {c}
    BY <1>1 DEF AddOrReplaceConnection
  <2>2. IsFiniteSet({d \in joined : labelOf[d] # l})
    BY FS_Subset DEF RegistryTypes
  <2>3. IsFiniteSet(joined')
    BY <2>1, <2>2, FS_AddElement
  <2>4. RegistryTypes'
    BY <1>1, <2>1, <2>3, OweNotices DEF AddOrReplaceConnection, RegistryTypes
  <2> QED BY <1>1, <2>4, GaugeChange DEF AddOrReplaceConnection
<1>2. ASSUME NEW c \in Conns, RemoveConnection(c)
      PROVE  GaugeInv'
  <2>1. IsFiniteSet(joined') /\ joined' \subseteq Conns
    BY <1>2, FS_Subset DEF RegistryTypes, RemoveConnection
  <2>2. RegistryTypes'
    BY <1>2, <2>1, OweNotices DEF RemoveConnection, RegistryTypes
  <2> QED BY <1>2, <2>2, GaugeChange DEF RemoveConnection
<1>3. ASSUME NEW c \in Conns, NEW s \in TopServers, NEW x \in TopStates, SetState(c, s, x)
      PROVE  GaugeInv'
  <2>1. RegistryTypes'
    BY <1>3, OweNotices DEF SetState, RegistryTypes
  <2> QED BY <1>3, <2>1, GaugeChange DEF SetState
<1>4. CASE PublishChange
  <2>1. BusTypes' /\ \E i \in 1..Len(inbox') : inbox'[i] = "connections"
    BY <1>4, PublishQueues DEF PublishChange, BusEvents
  <2>2. RegistryTypes'
    BY <1>4 DEF PublishChange, RegistryTypes
  <2>3. WatcherTypes'
    BY <1>4 DEF PublishChange, WatcherTypes, Watcher
  <2> QED BY <2>1, <2>2, <2>3 DEF Noticed
<1>5. CASE PublishOther
  <2>1. /\ BusTypes'
        /\ (\E i \in 1..Len(inbox) : inbox[i] = "connections") \/ missed
             => (\E i \in 1..Len(inbox') : inbox'[i] = "connections") \/ missed'
    BY <1>5, PublishQueues DEF PublishOther, BusEvents
  <2>2. RegistryTypes' /\ WatcherTypes'
    BY <1>5 DEF PublishOther, RegistryTypes, WatcherTypes, Watcher
  <2>3. Noticed => Noticed'
    BY <1>5, <2>1 DEF PublishOther, Noticed
  <2>4. InStep => InStep'
    BY <1>5, InStepStays DEF PublishOther, Watcher
  <2> QED BY <2>1, <2>2, <2>3, <2>4
<1>6. CASE TakeEvent
  <2>1. /\ inbox # <<>> /\ inbox' = Tail(inbox) /\ ~update
        /\ UNCHANGED <<joined, report, owed, missed, gauges>>
    BY <1>6 DEF TakeEvent
  <2>2. /\ Tail(inbox) \in Seq(BusEvents) /\ Len(Tail(inbox)) = Len(inbox) - 1
        /\ Head(inbox) = inbox[1] /\ Len(inbox) \in Nat
        /\ \A j \in 1..Len(Tail(inbox)) : Tail(inbox)[j] = inbox[j + 1]
    BY <2>1, HeadTailProperties, LenProperties DEF BusTypes
  <2>3. BusTypes'
    BY <2>1, <2>2, TopologyAssumption DEF BusTypes
  <2>4. RegistryTypes'
    BY <2>1 DEF RegistryTypes
  <2>5. CASE Head(inbox) = "connections"
    <3>1. update' = TRUE /\ todo' = joined \X TopServers /\ tally' = Zero
      BY <1>6, <2>5 DEF TakeEvent
    <3>2. IsFiniteSet(joined \X TopServers)
      BY FS_Product, TopologyAssumption DEF RegistryTypes
    <3>3. WatcherTypes'
      BY <3>1, <3>2 DEF WatcherTypes, RegistryTypes, Zero
    <3>4. Counted'
      <4> SUFFICES ASSUME NEW x \in Known
                   PROVE  tally'[x] + Tally(todo)'[x] = Tally(joined \X TopServers)'[x]
        BY DEF Counted
      <4>1. Tally(joined \X TopServers)[x] \in Nat /\ x \in TopStates
        BY <3>2, TallyOf DEF TopStates
      <4>2. Tally(joined \X TopServers)' = Tally(joined \X TopServers) /\ Tally(todo)' = Tally(joined \X TopServers)
        BY <2>1, <3>1 DEF Tally
      <4>3. tally'[x] = 0
        BY <3>1, <4>1 DEF Zero
      <4> QED BY <4>1, <4>2, <4>3
    <3> QED BY <2>3, <2>4, <3>1, <3>3, <3>4 DEF InStep
  <2>6. CASE Head(inbox) # "connections"
    <3>1. UNCHANGED <<update, todo, tally>>
      BY <1>6, <2>6 DEF TakeEvent
    <3>2. WatcherTypes'
      BY <3>1 DEF WatcherTypes
    <3>3. InStep => InStep'
      BY <2>1, <3>1, InStepStays
    <3>4. ASSUME NEW i \in 1..Len(inbox), inbox[i] = "connections"
          PROVE  \E j \in 1..Len(inbox') : inbox'[j] = "connections"
      <4>1. i # 1
        BY <2>2, <2>6, <3>4
      <4>2. i - 1 \in 1..Len(inbox') /\ (i - 1) + 1 = i
        BY <2>1, <2>2, <4>1
      <4>3. inbox'[i - 1] = "connections"
        BY <2>1, <2>2, <3>4, <4>2
      <4> QED BY <4>2, <4>3
    <3>5. Noticed => Noticed'
      BY <2>1, <3>4 DEF Noticed
    <3> QED BY <2>3, <2>4, <3>2, <3>3, <3>5
  <2> QED BY <2>5, <2>6
<1>7. ASSUME NEW p \in todo, CountServer(p)
      PROVE  GaugeInv'
  <2>1. /\ update /\ todo' = todo \ {p} /\ tally' = [tally EXCEPT ![report[p[1]][p[2]]] = @ + 1]
        /\ UNCHANGED <<joined, report, owed, inbox, missed, update, gauges>>
    BY <1>7 DEF CountServer, Bus
  <2>2. p \in Conns \X TopServers /\ report[p[1]][p[2]] \in TopStates
    BY DEF WatcherTypes, RegistryTypes
  <2>3. IsFiniteSet(todo') /\ IsFiniteSet(todo) /\ tally \in [TopStates -> Nat]
    BY <2>1, FS_RemoveElement DEF WatcherTypes
  <2>4. WatcherTypes'
    BY <2>1, <2>2, <2>3 DEF WatcherTypes
  <2>5. RegistryTypes' /\ BusTypes'
    BY <2>1 DEF RegistryTypes, BusTypes
  <2>6. Noticed => Noticed'
    BY <2>1 DEF Noticed
  <2>7. ASSUME Counted PROVE Counted'
    <3> SUFFICES ASSUME NEW x \in Known
                 PROVE  tally'[x] + Tally(todo)'[x] = Tally(joined \X TopServers)'[x]
      BY DEF Counted
    <3>1. Tally(joined \X TopServers)' = Tally(joined \X TopServers) /\ Tally(todo)' = Tally(todo \ {p})
      BY <2>1 DEF Tally
    <3>2. x \in TopStates
      BY DEF TopStates
    <3>3. Tally(todo)[x] = Tally(todo \ {p})[x] + (IF report[p[1]][p[2]] = x THEN 1 ELSE 0)
      BY <2>3, <3>2, TallyWithout
    <3>4. Tally(todo \ {p})[x] \in Nat
      BY <2>1, <2>3, <3>2, TallyOf
    <3>5. tally'[x] = tally[x] + (IF report[p[1]][p[2]] = x THEN 1 ELSE 0) /\ tally[x] \in Nat
      BY <2>1, <2>2, <2>3, <3>2
    <3>6. tally[x] + Tally(todo)[x] = Tally(joined \X TopServers)[x]
      BY <2>7 DEF Counted
    <3> QED BY <3>1, <3>3, <3>4, <3>5, <3>6
  <2>8. InStep => InStep'
    BY <2>1, <2>7 DEF InStep
  <2> QED BY <2>4, <2>5, <2>6, <2>8
<1>8. CASE UpdateGauges
  <2>1. /\ update /\ todo = {} /\ ~update' /\ UNCHANGED <<joined, report, owed, inbox, missed, todo, tally>>
        /\ gauges' = [connections |-> Cardinality(joined), servers |-> SetServers(tally)]
    BY <1>8 DEF UpdateGauges, Bus
  <2>2. RegistryTypes' /\ BusTypes'
    BY <2>1 DEF RegistryTypes, BusTypes
  <2>3. WatcherTypes'
    BY <1>8, <2>1 DEF WatcherTypes, UpdateGauges
  <2>4. Noticed => Noticed'
    BY <2>1 DEF Noticed
  <2>5. ASSUME Counted PROVE Shown'
    <3>1. \A x \in Known : SetServers(tally)[x] = tally[x]
      BY DEF SetServers, TopStates
    <3>2. \A x \in Known : Tally(todo)[x] = 0
      BY <2>1, TallyOfNone DEF TopStates
    <3>3. \A x \in Known : tally[x] \in Nat
      BY DEF WatcherTypes, TopStates
    <3>4. \A x \in Known : tally[x] = Tally(joined \X TopServers)[x]
      <4> SUFFICES ASSUME NEW x \in Known PROVE tally[x] = Tally(joined \X TopServers)[x]
        OBVIOUS
      <4>1. tally[x] + Tally(todo)[x] = Tally(joined \X TopServers)[x]
        BY <2>5 DEF Counted
      <4> QED BY <3>2, <3>3, <4>1
    <3>5. Tally(joined \X TopServers)' = Tally(joined \X TopServers)
      BY <2>1 DEF Tally
    <3>6. gauges'.connections = Cardinality(joined') /\ gauges'.servers = SetServers(tally)
      BY <2>1
    <3> QED BY <3>1, <3>4, <3>5, <3>6 DEF Shown
  <2>6. InStep => InStep'
    BY <2>1, <2>5 DEF InStep
  <2> QED BY <2>2, <2>3, <2>4, <2>6
<1>9. CASE UNCHANGED tvars
  <2>1. RegistryTypes' /\ BusTypes' /\ WatcherTypes'
    BY <1>9 DEF tvars, RegistryTypes, BusTypes, WatcherTypes
  <2>2. (Noticed => Noticed') /\ (InStep => InStep')
    BY <1>9, InStepStays DEF tvars, Noticed
  <2> QED BY <2>1, <2>2
<1> QED BY <1>1, <1>2, <1>3, <1>4, <1>5, <1>6, <1>7, <1>8, <1>9 DEF TNext

\* Whatever order registry changes, their events and the watcher's reads come
\* in, once every change is published and the watcher is through its queue the
\* gauges are the registry's, unless the queue pushed out its last event of a
\* change (AddOrReplaceConnection, SetState, Publish, watchTopology, Counts).
THEOREM GaugesFollowHolds == TSpec => []GaugesFollow
<1>1. GaugeInv => GaugesFollow
  <2> SUFFICES ASSUME GaugeInv, AtRest, ~missed PROVE Shown
    BY DEF GaugesFollow, Shown
  <2>1. 1..Len(inbox) = {}
    BY EmptySeq DEF AtRest
  <2>2. ~Noticed
    BY <2>1 DEF Noticed, AtRest
  <2> QED BY <2>2 DEF GaugeInv, InStep, AtRest
<1> QED BY <1>1, GaugeInit, GaugeStep, PTL DEF TSpec

-----------------------------------------------------------------------------
(*************************************************************************)
(* ModelStream: a stream ends once, and a turn runs the calls of the     *)
(* answer, for any number of calls and fragments and any channel.  What  *)
(* the turn received, the channel holds and the reader has still to send *)
(* is one stream: open while the reader reads, closed by its last delta  *)
(* when it ends.  The calls in it are those that left so far, and at its *)
(* end those of the whole answer.                                        *)
(*************************************************************************)

FinishReasons == {"", "length", "stop", "tool_use"}
Deltas == {Text, Usage, Failure} \cup {Done(w) : w \in FinishReasons \cup {"max_tokens"}}
          \cup {Call(i, n) : i \in Indexes \cup {0}, n \in 0..Frags}

\* A piece of a stream before its end, and a stream that may have ended.
Body(s) == \A i \in 1..Len(s) : s[i].type \in {"text", "tool_call"}
IsEnd(d) == d.type \in {"done", "error"}
Ended(s) == \E i \in 1..Len(s) : IsEnd(s[i])
Once(s) == /\ \A i \in 1..Len(s) : IsEnd(s[i]) => i = Len(s)
           /\ \A i, j \in 1..Len(s) : s[i].type = "usage" /\ s[j].type = "usage" => i = j
CallsOf(s) == {s[i] : i \in {j \in 1..Len(s) : s[j].type = "tool_call"}}

\* What the turn received, what is in the channel and what is still to send.
Passed == got \o ch
Stream == Passed \o out

QueueTypes == got \in Seq(Deltas) /\ ch \in Seq(Deltas) /\ out \in Seq(Deltas)
AnswerTypes ==
  /\ frags \in [Indexes -> 0..Frags] /\ block \in [Indexes -> {"none", "open", "stopped"}]
  /\ texts \in BOOLEAN /\ finish \in FinishReasons /\ marked \in BOOLEAN /\ cut \in BOOLEAN
ReaderTypes ==
  /\ dialect \in {"none", "anthropic", "openai", "ollama"}
  /\ reader \in {"idle", "reading", "ending", "closed"}
  /\ cancelled \in BOOLEAN /\ result \in {"none", "done", "tools", "failed", "cancelled"}

\* Where the reader is and what the stream looks like by then.
AtStart == reader = "idle" => got = <<>> /\ ch = <<>> /\ out = <<>>
AtBody == reader = "reading" => Body(Stream)
AtEnd == reader \in {"ending", "closed"} => Once(Stream) /\ (cancelled \/ Ended(Stream))
Drained == /\ reader = "closed" => out = <<>>
           /\ result # "none" => ch = <<>> /\ reader \in {"idle", "closed"}
Shape == AtStart /\ AtBody /\ AtEnd /\ Drained

\* What each dialect keeps of an answer.
FreshAnswer ==
  reader = "idle" => /\ \A i \in Indexes : frags[i] = 0 /\ block[i] = "none"
                     /\ ~texts /\ finish = "" /\ ~marked /\ ~cut
NoneOpen == \A i \in Indexes : block[i] # "open"
Kept == /\ reader = "reading" => dialect # "none"
        /\ dialect # "anthropic" => \A i \in Indexes : block[i] = "none"
        /\ dialect = "anthropic" => \A i \in Indexes : frags[i] > 0 => block[i] # "none"
        /\ dialect = "ollama" => \A i \in Indexes : frags[i] \in {0, Frags}
        /\ dialect = "ollama" /\ reader = "reading" => finish = "" /\ ~marked
Finished ==
  /\ marked => finish # "" \/ dialect = "openai"
  /\ reader = "reading" /\ marked /\ ~cut => Whole
  /\ reader = "reading" /\ finish # "" /\ ~cut
       => Whole /\ NoneOpen /\ (finish = "tool_use" <=> Started # {}) /\ finish # "length"

\* The calls that left so far, and those of the whole answer.
Left == CASE dialect = "anthropic" -> {Call(i, frags[i]) : i \in {j \in Indexes : block[j] = "stopped"}}
          [] dialect = "ollama" -> {Call(i, frags[i]) : i \in {j \in Indexes : frags[j] > 0}}
          [] OTHER -> {}
Expected == IF Started = {} THEN (IF texts /\ dialect # "anthropic" THEN {TextCall} ELSE {})
            ELSE {Call(i, Frags) : i \in Started}
CallsLeft == reader = "reading" => CallsOf(Stream) = Left
CallsEnd ==
  reader \in {"ending", "closed"} /\ ~cut =>
    \A i \in 1..Len(Stream) : Stream[i].type = "done" =>
      CallsOf(Stream) = Expected /\ (Stream[i].why = "tool_use" <=> Expected # {})

\* What the turn made of what it received.
Concluded ==
  result \in {"done", "tools"} =>
    /\ ~cancelled /\ \A i \in 1..Len(got) : got[i].type # "error"
    /\ result = "tools" <=> /\ CallsOf(got) # {}
                           /\ \E i \in 1..Len(got) : got[i].type = "done" /\ got[i].why = "tool_use"

StreamTypes == QueueTypes /\ AnswerTypes /\ ReaderTypes
WholeAnswer == FreshAnswer /\ Kept /\ Finished /\ CallsLeft /\ CallsEnd
StreamInv == StreamTypes /\ Shape /\ WholeAnswer /\ Concluded

-----------------------------------------------------------------------------
(* Pieces of a stream.                                                     *)

LEMMA Concat ==
    ASSUME NEW s \in Seq(Deltas), NEW t \in Seq(Deltas)
    PROVE  /\ s \o t \in Seq(Deltas) /\ Len(s) \in Nat /\ Len(t) \in Nat
           /\ Len(s \o t) = Len(s) + Len(t)
           /\ \A i \in 1..Len(s) : i \in 1..Len(s \o t) /\ (s \o t)[i] = s[i]
           /\ \A i \in 1..Len(t) : Len(s) + i \in 1..Len(s \o t) /\ (s \o t)[Len(s) + i] = t[i]
           /\ \A k \in 1..Len(s \o t) :
                k \in 1..Len(s) \/ \E i \in 1..Len(t) : k = Len(s) + i
<1>1. /\ s \o t \in Seq(Deltas) /\ Len(s \o t) = Len(s) + Len(t)
      /\ \A i \in 1..(Len(s) + Len(t)) :
           (s \o t)[i] = IF i <= Len(s) THEN s[i] ELSE t[i - Len(s)]
  BY ConcatProperties
<1>2. Len(s) \in Nat /\ Len(t) \in Nat
  BY LenProperties
<1>3. \A i \in 1..Len(s) : i \in 1..Len(s \o t) /\ (s \o t)[i] = s[i]
  BY <1>1, <1>2
<1>4. \A i \in 1..Len(t) : Len(s) + i \in 1..Len(s \o t) /\ (s \o t)[Len(s) + i] = t[i]
  <2> TAKE i \in 1..Len(t)
  <2>1. Len(s) + i \in 1..(Len(s) + Len(t)) /\ ~(Len(s) + i <= Len(s)) /\ (Len(s) + i) - Len(s) = i
    BY <1>2
  <2> QED BY <1>1, <2>1
<1>5. \A k \in 1..Len(s \o t) : k \in 1..Len(s) \/ \E i \in 1..Len(t) : k = Len(s) + i
  <2> TAKE k \in 1..Len(s \o t)
  <2>1. CASE k <= Len(s)
    BY <1>1, <1>2, <2>1
  <2>2. CASE k > Len(s)
    <3>1. k - Len(s) \in 1..Len(t) /\ k = Len(s) + (k - Len(s))
      BY <1>1, <1>2, <2>2
    <3> QED BY <3>1
  <2> QED BY <1>1, <1>2, <2>1, <2>2
<1> QED BY <1>1, <1>2, <1>3, <1>4, <1>5

LEMMA ConcatBody ==
    ASSUME NEW s \in Seq(Deltas), NEW t \in Seq(Deltas)
    PROVE  Body(s \o t) <=> Body(s) /\ Body(t)
<1>1. ASSUME Body(s), Body(t), NEW k \in 1..Len(s \o t)
      PROVE  (s \o t)[k].type \in {"text", "tool_call"}
  <2>1. CASE k \in 1..Len(s)
    BY <1>1, <2>1, Concat DEF Body
  <2>2. CASE \E i \in 1..Len(t) : k = Len(s) + i
    <3>1. PICK i \in 1..Len(t) : k = Len(s) + i
      BY <2>2
    <3>2. (s \o t)[k] = t[i]
      BY <3>1, Concat
    <3>3. t[i].type \in {"text", "tool_call"}
      BY <1>1 DEF Body
    <3> QED BY <3>2, <3>3
  <2>3. k \in 1..Len(s) \/ \E i \in 1..Len(t) : k = Len(s) + i
    BY Concat
  <2> QED BY <2>1, <2>2, <2>3
<1>2. Body(s \o t) => Body(s) /\ Body(t)
  <2>1. ASSUME Body(s \o t), NEW i \in 1..Len(s) PROVE s[i].type \in {"text", "tool_call"}
    BY <2>1, Concat DEF Body
  <2>2. ASSUME Body(s \o t), NEW i \in 1..Len(t) PROVE t[i].type \in {"text", "tool_call"}
    <3>1. Len(s) + i \in 1..Len(s \o t) /\ (s \o t)[Len(s) + i] = t[i]
      BY Concat
    <3>2. (s \o t)[Len(s) + i].type \in {"text", "tool_call"}
      BY <2>2, <3>1 DEF Body
    <3> QED BY <3>1, <3>2
  <2> QED BY <2>1, <2>2 DEF Body
<1> QED BY <1>1, <1>2 DEF Body

LEMMA BodyHasNoEnd ==
    ASSUME NEW s, Body(s)
    PROVE  ~Ended(s) /\ \A i \in 1..Len(s) : ~IsEnd(s[i]) /\ s[i].type # "usage"
BY DEF Body, Ended, IsEnd

\* A body and what closes it.
LEMMA ConcatOnce ==
    ASSUME NEW s \in Seq(Deltas), NEW t \in Seq(Deltas), Body(s), Once(t)
    PROVE  Once(s \o t) /\ (Ended(t) => Ended(s \o t))
<1>1. ASSUME NEW k \in 1..Len(s \o t), k \in 1..Len(s)
      PROVE  ~IsEnd((s \o t)[k]) /\ (s \o t)[k].type # "usage"
  <2>1. (s \o t)[k] = s[k]
    BY <1>1, Concat
  <2> QED BY <1>1, <2>1, BodyHasNoEnd
<1>2. ASSUME NEW k \in 1..Len(s \o t), IsEnd((s \o t)[k]) PROVE k = Len(s \o t)
  <2>1. PICK i \in 1..Len(t) : k = Len(s) + i
    BY <1>1, <1>2, Concat
  <2>2. IsEnd(t[i])
    BY <1>2, <2>1, Concat
  <2>3. i = Len(t)
    BY <2>2 DEF Once
  <2> QED BY <2>1, <2>3, Concat
<1>3. ASSUME NEW j \in 1..Len(s \o t), NEW k \in 1..Len(s \o t),
             (s \o t)[j].type = "usage", (s \o t)[k].type = "usage"
      PROVE  j = k
  <2>1. PICK i \in 1..Len(t) : j = Len(s) + i
    BY <1>1, <1>3, Concat
  <2>2. PICK l \in 1..Len(t) : k = Len(s) + l
    BY <1>1, <1>3, Concat
  <2>3. t[i].type = "usage" /\ t[l].type = "usage"
    BY <1>3, <2>1, <2>2, Concat
  <2> QED BY <2>1, <2>2, <2>3 DEF Once
<1>4. ASSUME Ended(t) PROVE Ended(s \o t)
  <2>1. PICK i \in 1..Len(t) : IsEnd(t[i])
    BY <1>4 DEF Ended
  <2>2. Len(s) + i \in 1..Len(s \o t) /\ IsEnd((s \o t)[Len(s) + i])
    BY <2>1, Concat
  <2> QED BY <2>2 DEF Ended
<1> QED BY <1>2, <1>3, <1>4 DEF Once

\* Without its last piece a stream has no end.
LEMMA PrefixOpen ==
    ASSUME NEW s \in Seq(Deltas), NEW t \in Seq(Deltas), t # <<>>, Once(s \o t)
    PROVE  Once(s) /\ ~Ended(s)
<1>1. Len(t) > 0 /\ Len(s \o t) > Len(s) /\ Len(s) \in Nat
  BY Concat, EmptySeq
<1>2. ASSUME NEW i \in 1..Len(s) PROVE ~IsEnd(s[i])
  <2>1. (s \o t)[i] = s[i] /\ i \in 1..Len(s \o t) /\ i # Len(s \o t)
    BY <1>1, Concat
  <2> QED BY <2>1 DEF Once
<1>3. ASSUME NEW i \in 1..Len(s), NEW j \in 1..Len(s), s[i].type = "usage", s[j].type = "usage"
      PROVE  i = j
  <2>1. (s \o t)[i] = s[i] /\ (s \o t)[j] = s[j] /\ i \in 1..Len(s \o t) /\ j \in 1..Len(s \o t)
    BY Concat
  <2> QED BY <1>3, <2>1 DEF Once
<1> QED BY <1>2, <1>3 DEF Once, Ended

LEMMA ConcatCalls ==
    ASSUME NEW s \in Seq(Deltas), NEW t \in Seq(Deltas)
    PROVE  CallsOf(s \o t) = CallsOf(s) \cup CallsOf(t)
<1>1. ASSUME NEW c \in CallsOf(s \o t) PROVE c \in CallsOf(s) \cup CallsOf(t)
  <2>1. PICK k \in 1..Len(s \o t) : (s \o t)[k].type = "tool_call" /\ c = (s \o t)[k]
    BY DEF CallsOf
  <2>2. CASE k \in 1..Len(s)
    BY <2>1, <2>2, Concat DEF CallsOf
  <2>3. CASE \E i \in 1..Len(t) : k = Len(s) + i
    BY <2>1, <2>3, Concat DEF CallsOf
  <2> QED BY <2>2, <2>3, Concat
<1>2. ASSUME NEW c \in CallsOf(s) PROVE c \in CallsOf(s \o t)
  <2>1. PICK i \in 1..Len(s) : s[i].type = "tool_call" /\ c = s[i]
    BY DEF CallsOf
  <2>2. i \in 1..Len(s \o t) /\ (s \o t)[i] = s[i]
    BY Concat
  <2> QED BY <2>1, <2>2 DEF CallsOf
<1>3. ASSUME NEW c \in CallsOf(t) PROVE c \in CallsOf(s \o t)
  <2>1. PICK i \in 1..Len(t) : t[i].type = "tool_call" /\ c = t[i]
    BY DEF CallsOf
  <2>2. Len(s) + i \in 1..Len(s \o t) /\ (s \o t)[Len(s) + i] = t[i]
    BY Concat
  <2> QED BY <2>1, <2>2 DEF CallsOf
<1> QED BY <1>1, <1>2, <1>3

\* A delta that moves on from one queue to the next changes no stream.
LEMMA MoveOn ==
    ASSUME NEW s \in Seq(Deltas), NEW t \in Seq(Deltas), t # <<>>
    PROVE  /\ Append(s, Head(t)) \in Seq(Deltas) /\ Tail(t) \in Seq(Deltas)
           /\ Append(s, Head(t)) \o Tail(t) = s \o t
<1>1. /\ Head(t) \in Deltas /\ Tail(t) \in Seq(Deltas) /\ <<Head(t)>> \in Seq(Deltas)
      /\ t = <<Head(t)>> \o Tail(t)
  BY HeadTailProperties, HeadTailAppend
<1>2. Append(s, Head(t)) = s \o <<Head(t)>>
  BY <1>1, AppendIsConcat
<1>3. (s \o <<Head(t)>>) \o Tail(t) = s \o (<<Head(t)>> \o Tail(t))
  BY <1>1, ConcatAssociative
<1>4. Append(s, Head(t)) \in Seq(Deltas)
  BY <1>1, AppendProperties
<1> QED BY <1>1, <1>2, <1>3, <1>4

LEMMA SingleOnce ==
    ASSUME NEW d \in Deltas
    PROVE  /\ <<d>> \in Seq(Deltas) /\ Len(<<d>>) = 1 /\ <<d>>[1] = d /\ Once(<<d>>)
           /\ IsEnd(d) => Ended(<<d>>)
           /\ d.type \in {"text", "tool_call"} => Body(<<d>>)
           /\ CallsOf(<<d>>) = IF d.type = "tool_call" THEN {d} ELSE {}
<1>1. <<d>> \in Seq(Deltas) /\ Len(<<d>>) = 1 /\ <<d>>[1] = d /\ 1..1 = {1}
  OBVIOUS
<1>2. Once(<<d>>) /\ (IsEnd(d) => Ended(<<d>>))
  BY <1>1 DEF Once, Ended
<1>3. d.type \in {"text", "tool_call"} => Body(<<d>>)
  BY <1>1 DEF Body
<1>4. CallsOf(<<d>>) = IF d.type = "tool_call" THEN {d} ELSE {}
  BY <1>1 DEF CallsOf
<1> QED BY <1>1, <1>2, <1>3, <1>4

LEMMA DeltaTypes ==
    /\ Text \in Deltas /\ Usage \in Deltas /\ Failure \in Deltas
    /\ Text.type = "text" /\ Usage.type = "usage" /\ Failure.type = "error"
    /\ \A w \in FinishReasons \cup {"max_tokens"} :
         Done(w) \in Deltas /\ Done(w).type = "done" /\ Done(w).why = w
    /\ \A i \in Indexes \cup {0}, n \in 0..Frags : Call(i, n) \in Deltas /\ Call(i, n).type = "tool_call"
<1>1. /\ Text \in Deltas /\ Usage \in Deltas /\ Failure \in Deltas
      /\ Text.type = "text" /\ Usage.type = "usage" /\ Failure.type = "error"
  BY DEF Deltas, Text, Usage, Failure
<1>2. ASSUME NEW w \in FinishReasons \cup {"max_tokens"}
      PROVE  Done(w) \in Deltas /\ Done(w).type = "done" /\ Done(w).why = w
  <2>1. Done(w) \in {Done(x) : x \in FinishReasons \cup {"max_tokens"}}
    OBVIOUS
  <2>2. Done(w) \in Deltas
    BY <2>1 DEF Deltas
  <2> QED BY <2>2 DEF Done
<1>3. ASSUME NEW i \in Indexes \cup {0}, NEW n \in 0..Frags
      PROVE  Call(i, n) \in Deltas /\ Call(i, n).type = "tool_call"
  <2>1. Call(i, n) \in {Call(j, m) : j \in Indexes \cup {0}, m \in 0..Frags}
    OBVIOUS
  <2>2. Call(i, n) \in Deltas
    BY <2>1 DEF Deltas
  <2> QED BY <2>2 DEF Call
<1> QED BY <1>1, <1>2, <1>3

-----------------------------------------------------------------------------
(* What the stream becomes.                                                *)

\* The reader says something while it reads: its last delta has left.
LEMMA SayMore ==
    ASSUME StreamTypes, out = <<>>, out' \in Seq(Deltas), UNCHANGED <<got, ch>>
    PROVE  Stream \in Seq(Deltas) /\ Stream' = Stream \o out' /\ QueueTypes'
<1>1. Passed \in Seq(Deltas)
  BY ConcatProperties DEF Passed, StreamTypes, QueueTypes
<1>2. Stream = Passed
  BY <1>1, ConcatEmptySeq DEF Stream
<1>3. Stream' = Passed \o out'
  BY DEF Stream, Passed
<1> QED BY <1>1, <1>2, <1>3 DEF QueueTypes, StreamTypes

\* The queues pass their deltas on.
LEMMA StreamPasses ==
    ASSUME StreamTypes, Send \/ Receive
    PROVE  Stream' = Stream /\ QueueTypes'
<1>1. CASE Send
  <2>1. /\ Append(ch, Head(out)) \in Seq(Deltas) /\ Tail(out) \in Seq(Deltas)
        /\ Append(ch, Head(out)) \o Tail(out) = ch \o out
    BY <1>1, MoveOn DEF Send, StreamTypes, QueueTypes
  <2>2. ch' = Append(ch, Head(out)) /\ out' = Tail(out) /\ got' = got
    BY <1>1 DEF Send
  <2>3. (got \o Append(ch, Head(out))) \o Tail(out) = got \o (Append(ch, Head(out)) \o Tail(out))
    BY <2>1, ConcatAssociative, SMTT(30), ZenonT(60), Z3T(60) DEF StreamTypes, QueueTypes
  <2>4. (got \o ch) \o out = got \o (ch \o out)
    BY ConcatAssociative DEF StreamTypes, QueueTypes
  <2>5. Stream' = (got \o Append(ch, Head(out))) \o Tail(out)
    BY <2>2 DEF Stream, Passed
  <2> QED BY <2>1, <2>2, <2>3, <2>4, <2>5 DEF Stream, Passed, QueueTypes, StreamTypes
<1>2. CASE Receive
  <2>1. /\ Append(got, Head(ch)) \in Seq(Deltas) /\ Tail(ch) \in Seq(Deltas)
        /\ Append(got, Head(ch)) \o Tail(ch) = got \o ch
    BY <1>2, MoveOn DEF Receive, StreamTypes, QueueTypes
  <2>2. got' = Append(got, Head(ch)) /\ ch' = Tail(ch) /\ out' = out
    BY <1>2 DEF Receive
  <2> QED BY <2>1, <2>2 DEF Stream, Passed, QueueTypes, StreamTypes
<1> QED BY <1>1, <1>2

\* The answer and the calls it holds are as they were.
Untouched == UNCHANGED <<request, answer, reader>>

\* Every part of the invariant but the shape, when only the queues move.
LEMMA AnswerStays ==
    ASSUME WholeAnswer, Untouched, Stream' = Stream
    PROVE  WholeAnswer'
<1>1. Started' = Started /\ (Whole => Whole') /\ (NoneOpen => NoneOpen')
  BY DEF Untouched, request, answer, Started, Whole, NoneOpen
<1>2. Left' = Left /\ Expected' = Expected
  BY <1>1 DEF Untouched, request, answer, Left, Expected
<1>3. FreshAnswer' /\ Kept'
  BY DEF WholeAnswer, FreshAnswer, Kept, Untouched, request, answer
<1>4. Finished'
  BY <1>1 DEF WholeAnswer, Finished, Untouched, answer, request
<1>5. CallsLeft'
  BY <1>2 DEF WholeAnswer, CallsLeft, Untouched
<1>6. CallsEnd'
  BY <1>2 DEF WholeAnswer, CallsEnd, Untouched, answer
<1> QED BY <1>3, <1>4, <1>5, <1>6 DEF WholeAnswer

\* While the reader reads nothing is concluded.
LEMMA NotConcluded ==
    ASSUME Shape, ReaderTypes, reader # "idle", reader # "closed", result' = result
    PROVE  result = "none" /\ Concluded'
BY DEF Shape, Drained, Concluded

-----------------------------------------------------------------------------
(* The events of an answer.                                                *)

Quiet == UNCHANGED <<request, reader, out, ch, cancelled, got, result>>

LEMMA QuietShape ==
    ASSUME StreamInv, Quiet
    PROVE  QueueTypes' /\ ReaderTypes' /\ Shape' /\ Concluded' /\ Stream' = Stream
<1>1. Stream' = Stream
  BY DEF Stream, Passed, Quiet
<1>2. QueueTypes' /\ ReaderTypes'
  BY DEF QueueTypes, ReaderTypes, Quiet, StreamInv, StreamTypes, request
<1>3. Shape'
  BY <1>1 DEF Quiet, StreamInv, Shape, AtStart, AtBody, AtEnd, Drained
<1>4. Concluded'
  BY DEF Quiet, StreamInv, Concluded
<1> QED BY <1>1, <1>2, <1>3, <1>4

\* An event of the reading reader that says nothing yet.
LEMMA QuietAnswer ==
    ASSUME StreamInv, Quiet, reader = "reading", AnswerTypes', Kept', Finished', Left' = Left
    PROVE  StreamInv'
<1>1. reader' = "reading" /\ Stream' = Stream
  BY QuietShape DEF Quiet
<1>2. CallsLeft' /\ CallsEnd' /\ FreshAnswer'
  BY <1>1 DEF CallsLeft, CallsEnd, FreshAnswer, StreamInv, WholeAnswer
<1> QED BY <1>2, QuietShape DEF StreamInv, StreamTypes, WholeAnswer

LEMMA FragmentStep ==
    ASSUME StreamInv, NEW i \in Indexes, OpenAIFragment(i)
    PROVE  StreamInv'
<1>1. /\ dialect = "openai" /\ reader = "reading" /\ finish = "" /\ ~marked /\ frags[i] < Frags
      /\ frags' = [frags EXCEPT ![i] = @ + 1]
      /\ UNCHANGED <<block, texts, finish, marked, cut>> /\ Quiet
  BY DEF OpenAIFragment, Streaming, Reads, Quiet
<1>2. AnswerTypes'
  <2>1. frags \in [Indexes -> 0..Frags] /\ Frags \in Nat
    BY ModelStreamAssumption DEF StreamInv, StreamTypes, AnswerTypes
  <2>2. frags[i] + 1 \in 0..Frags
    <3>1. frags[i] \in 0..Frags
      BY <2>1
    <3>2. frags[i] < Frags
      BY <1>1
    <3> QED BY <2>1, <3>1, <3>2
  <2>3. frags' \in [Indexes -> 0..Frags]
    BY <1>1, <2>1, <2>2
  <2> QED BY <1>1, <2>3 DEF StreamInv, StreamTypes, AnswerTypes
<1>3. Kept'
  BY <1>1 DEF Quiet, request, StreamInv, WholeAnswer, Kept
<1>4. Finished'
  BY <1>1 DEF Finished
<1>5. Left' = Left
  BY <1>1 DEF Left, Quiet, request
<1> QED BY <1>1, <1>2, <1>3, <1>4, <1>5, QuietAnswer

LEMMA BlockStartStep ==
    ASSUME StreamInv, NEW i \in Indexes, BlockStart(i)
    PROVE  StreamInv'
<1>1. /\ dialect = "anthropic" /\ reader = "reading" /\ finish = "" /\ ~marked /\ block[i] = "none"
      /\ block' = [block EXCEPT ![i] = "open"]
      /\ UNCHANGED <<frags, texts, finish, marked, cut>> /\ Quiet
  BY DEF BlockStart, Streaming, Reads, Quiet
<1>2. AnswerTypes'
  BY <1>1 DEF StreamInv, StreamTypes, AnswerTypes
<1>3. Kept'
  BY <1>1 DEF Quiet, request, StreamInv, StreamTypes, AnswerTypes, WholeAnswer, Kept
<1>4. Finished'
  BY <1>1 DEF Finished
<1>5. {j \in Indexes : block'[j] = "stopped"} = {j \in Indexes : block[j] = "stopped"}
  BY <1>1 DEF StreamInv, StreamTypes, AnswerTypes
<1>6. Left' = Left
  BY <1>1, <1>5 DEF Left, Quiet, request
<1> QED BY <1>1, <1>2, <1>3, <1>4, <1>6, QuietAnswer

LEMMA BlockDeltaStep ==
    ASSUME StreamInv, NEW i \in Indexes, BlockDelta(i)
    PROVE  StreamInv'
<1>1. /\ dialect = "anthropic" /\ reader = "reading" /\ finish = "" /\ ~marked
      /\ block[i] = "open" /\ frags[i] < Frags /\ frags' = [frags EXCEPT ![i] = @ + 1]
      /\ UNCHANGED <<block, texts, finish, marked, cut>> /\ Quiet
  BY DEF BlockDelta, Streaming, Reads, Quiet
<1>2. AnswerTypes'
  <2>1. frags \in [Indexes -> 0..Frags] /\ Frags \in Nat
    BY ModelStreamAssumption DEF StreamInv, StreamTypes, AnswerTypes
  <2>2. frags[i] + 1 \in 0..Frags
    <3>1. frags[i] \in 0..Frags
      BY <2>1
    <3>2. frags[i] < Frags
      BY <1>1
    <3> QED BY <2>1, <3>1, <3>2
  <2>3. frags' \in [Indexes -> 0..Frags]
    BY <1>1, <2>1, <2>2
  <2> QED BY <1>1, <2>3 DEF StreamInv, StreamTypes, AnswerTypes
<1>3. Kept'
  BY <1>1 DEF Quiet, request, StreamInv, StreamTypes, AnswerTypes, WholeAnswer, Kept
<1>4. Finished'
  BY <1>1 DEF Finished
<1>5. \A j \in Indexes : block[j] = "stopped" => frags'[j] = frags[j]
  BY <1>1 DEF StreamInv, StreamTypes, AnswerTypes
<1>6. Left' = Left
  BY <1>1, <1>5 DEF Left, Quiet, request
<1> QED BY <1>1, <1>2, <1>3, <1>4, <1>6, QuietAnswer

LEMMA FinishStep ==
    ASSUME StreamInv, NEW r \in {"length", "stop", "tool_use"}, FinishReason(r)
    PROVE  StreamInv'
<1>1. /\ dialect # "ollama" /\ reader = "reading" /\ r \in Reasons
      /\ finish' = r /\ cut' = (cut \/ r = "length")
      /\ UNCHANGED <<frags, block, texts, marked>> /\ Quiet
  BY DEF FinishReason, Streaming, Reads, Quiet
<1>2. AnswerTypes'
  BY <1>1 DEF StreamInv, StreamTypes, AnswerTypes, FinishReasons
<1>3. Kept'
  BY <1>1 DEF Quiet, request, StreamInv, WholeAnswer, Kept
<1>4. Started' = Started /\ Whole' = Whole /\ NoneOpen' = NoneOpen /\ Left' = Left
  BY <1>1 DEF Started, Whole, NoneOpen, Left, Quiet, request
<1>5. ~cut /\ r # "length" => Whole /\ NoneOpen /\ (r = "tool_use" <=> Started # {})
  BY <1>1 DEF Reasons, NoneOpen
<1>6. Finished'
  BY <1>1, <1>4, <1>5 DEF Finished
<1> QED BY <1>1, <1>2, <1>3, <1>4, <1>6, QuietAnswer

LEMMA EndMarkStep == StreamInv /\ EndMark => StreamInv'
<1> SUFFICES ASSUME StreamInv, EndMark PROVE StreamInv'
  OBVIOUS
<1>1. /\ dialect # "ollama" /\ reader = "reading" /\ marked' = TRUE
      /\ finish # "" \/ dialect = "openai"
      /\ cut' = (cut \/ ~Whole)
      /\ UNCHANGED <<frags, block, texts, finish>> /\ Quiet
  BY DEF EndMark, Reads, Quiet
<1>2. AnswerTypes'
  BY <1>1 DEF StreamInv, StreamTypes, AnswerTypes
<1>3. Kept'
  BY <1>1 DEF Quiet, request, StreamInv, WholeAnswer, Kept
<1>4. Started' = Started /\ Whole' = Whole /\ NoneOpen' = NoneOpen /\ Left' = Left
  BY <1>1 DEF Started, Whole, NoneOpen, Left, Quiet, request
<1>5. Finished'
  BY <1>1, <1>4 DEF Finished, Quiet, request, StreamInv, StreamTypes, AnswerTypes, WholeAnswer
<1> QED BY <1>1, <1>2, <1>3, <1>4, <1>5, QuietAnswer

-----------------------------------------------------------------------------
(* The deltas of an answer.                                                *)

\* A reader that says one delta of the answer.
LEMMA SayBody ==
    ASSUME StreamInv, Reads, NEW d \in Deltas, d.type \in {"text", "tool_call"}, out' = <<d>>,
           UNCHANGED <<request, reader, ch, cancelled, got, result>>,
           AnswerTypes', Kept', Finished',
           Left' = Left \cup (IF d.type = "tool_call" THEN {d} ELSE {})
    PROVE  StreamInv'
<1>1. reader = "reading" /\ reader' = "reading" /\ out = <<>>
  BY DEF Reads
<1>2. /\ out' \in Seq(Deltas) /\ Body(out')
      /\ CallsOf(out') = IF d.type = "tool_call" THEN {d} ELSE {}
  BY SingleOnce
<1>3. Stream \in Seq(Deltas) /\ Stream' = Stream \o out' /\ QueueTypes'
  BY <1>1, <1>2, SayMore DEF StreamInv
<1>4. Body(Stream) /\ CallsOf(Stream) = Left
  BY <1>1 DEF StreamInv, Shape, AtBody, WholeAnswer, CallsLeft
<1>5. Body(Stream')
  BY <1>2, <1>3, <1>4, ConcatBody
<1>6. CallsOf(Stream') = Left'
  BY <1>2, <1>3, <1>4, ConcatCalls, ZenonT(60)
<1>7. result = "none" /\ Concluded'
  BY <1>1, NotConcluded DEF StreamInv, StreamTypes
<1>8. Shape'
  BY <1>1, <1>5, <1>7 DEF Shape, AtStart, AtBody, AtEnd, Drained
<1>9. WholeAnswer'
  BY <1>1, <1>6 DEF WholeAnswer, FreshAnswer, CallsLeft, CallsEnd
<1>10. ReaderTypes'
  BY DEF StreamInv, StreamTypes, ReaderTypes, request
<1> QED BY <1>3, <1>7, <1>8, <1>9, <1>10 DEF StreamInv, StreamTypes

LEMMA TextStep ==
    ASSUME StreamInv, NEW call \in BOOLEAN, TextEvent(call)
    PROVE  StreamInv'
<1>1. /\ Reads /\ finish = "" /\ ~marked /\ out' = <<Text>> /\ texts' = (texts \/ call)
      /\ UNCHANGED <<frags, block, finish, marked, cut>>
      /\ UNCHANGED <<request, reader, ch, cancelled, got, result>>
  BY DEF TextEvent, Streaming
<1>2. AnswerTypes'
  BY <1>1 DEF StreamInv, StreamTypes, AnswerTypes
<1>3. Kept' /\ Finished'
  BY <1>1 DEF StreamInv, WholeAnswer, Kept, Finished, request
<1>4. Left' = Left
  BY <1>1 DEF Left, request
<1> QED BY <1>1, <1>2, <1>3, <1>4, SayBody, DeltaTypes

LEMMA BlockStopStep ==
    ASSUME StreamInv, NEW i \in Indexes, BlockStop(i)
    PROVE  StreamInv'
<1>1. /\ dialect = "anthropic" /\ Reads /\ finish = "" /\ ~marked /\ block[i] = "open"
      /\ out' = <<Call(i, frags[i])>> /\ block' = [block EXCEPT ![i] = "stopped"]
      /\ cut' = (cut \/ frags[i] < Frags)
      /\ UNCHANGED <<frags, texts, finish, marked>>
      /\ UNCHANGED <<request, reader, ch, cancelled, got, result>>
  BY DEF BlockStop, Streaming
<1>2. AnswerTypes'
  BY <1>1 DEF StreamInv, StreamTypes, AnswerTypes
<1>3. Kept' /\ Finished'
  BY <1>1 DEF StreamInv, StreamTypes, AnswerTypes, WholeAnswer, Kept, Finished, request
<1>4. {j \in Indexes : block'[j] = "stopped"} = {j \in Indexes : block[j] = "stopped"} \cup {i}
  BY <1>1 DEF StreamInv, StreamTypes, AnswerTypes
<1>5. Left' = Left \cup {Call(i, frags[i])}
  BY <1>1, <1>4 DEF Left, request
<1>6. Call(i, frags[i]) \in Deltas /\ Call(i, frags[i]).type = "tool_call"
  BY DeltaTypes DEF StreamInv, StreamTypes, AnswerTypes
<1> QED BY <1>1, <1>2, <1>3, <1>5, <1>6, SayBody

LEMMA OllamaCallStep ==
    ASSUME StreamInv, NEW i \in Indexes, OllamaCall(i)
    PROVE  StreamInv'
<1>1. /\ dialect = "ollama" /\ Reads /\ finish = "" /\ ~marked /\ frags[i] = 0
      /\ out' = <<Call(i, Frags)>> /\ frags' = [frags EXCEPT ![i] = Frags]
      /\ UNCHANGED <<block, texts, finish, marked, cut>>
      /\ UNCHANGED <<request, reader, ch, cancelled, got, result>>
  BY DEF OllamaCall, Streaming
<1>2. Frags \in 0..Frags /\ Frags > 0 /\ frags \in [Indexes -> 0..Frags]
  BY ModelStreamAssumption DEF StreamInv, StreamTypes, AnswerTypes
<1>3. AnswerTypes'
  BY <1>1, <1>2 DEF StreamInv, StreamTypes, AnswerTypes
<1>4. Kept' /\ Finished'
  BY <1>1, <1>2 DEF StreamInv, WholeAnswer, Kept, Finished, request
<1>5. {j \in Indexes : frags'[j] > 0} = {j \in Indexes : frags[j] > 0} \cup {i}
  BY <1>1, <1>2
<1>6. \A j \in {k \in Indexes : frags[k] > 0} : frags'[j] = frags[j]
  <2> SUFFICES ASSUME NEW j \in Indexes, frags[j] > 0 PROVE frags'[j] = frags[j]
    OBVIOUS
  <2>1. frags[i] = 0
    BY <1>1
  <2>2. j # i
    BY <2>1
  <2> QED BY <1>1, <1>2, <2>2
<1>7. frags'[i] = Frags
  <2>1. frags' = [frags EXCEPT ![i] = Frags]
    BY <1>1
  <2> QED BY <1>2, <2>1
<1>8. Left' = Left \cup {Call(i, Frags)}
  <2>0. dialect = "ollama" /\ dialect' = "ollama"
    BY <1>1 DEF request
  <2>1. Left = {Call(j, frags[j]) : j \in {k \in Indexes : frags[k] > 0}}
    BY <2>0 DEF Left
  <2>2. Left' = {Call(j, frags'[j]) : j \in {k \in Indexes : frags'[k] > 0}}
    BY <2>0 DEF Left
  <2>3. \A j \in {k \in Indexes : frags[k] > 0} : Call(j, frags'[j]) = Call(j, frags[j])
    BY <1>6
  <2> QED BY <1>5, <1>7, <2>1, <2>2, <2>3
<1>9. Call(i, Frags) \in Deltas /\ Call(i, Frags).type = "tool_call"
  BY <1>2, DeltaTypes
<1> QED BY <1>1, <1>3, <1>4, <1>8, <1>9, SayBody

-----------------------------------------------------------------------------
(* The end of an answer.                                                   *)

\* The usage, if it came, and the end.
LEMMA Tailpiece ==
    ASSUME NEW u \in Used, NEW w \in FinishReasons \cup {"max_tokens"}
    PROVE  /\ u \in Seq(Deltas) /\ u \o <<Done(w)>> \in Seq(Deltas)
           /\ Once(u \o <<Done(w)>>) /\ Ended(u \o <<Done(w)>>) /\ CallsOf(u \o <<Done(w)>>) = {}
           /\ \A i \in 1..Len(u \o <<Done(w)>>) :
                (u \o <<Done(w)>>)[i].type = "done" => (u \o <<Done(w)>>)[i].why = w
<1>1. /\ Done(w) \in Deltas /\ Done(w).type = "done" /\ Done(w).why = w
      /\ Usage \in Deltas /\ Usage.type = "usage"
  BY DeltaTypes
<1>2. <<>> \in Seq(Deltas) /\ <<Usage>> \in Seq(Deltas) /\ <<Done(w)>> \in Seq(Deltas)
  BY <1>1, EmptySeq
<1> DEFINE e == u \o <<Done(w)>>
           Facts == /\ e \in Seq(Deltas) /\ Once(e) /\ Ended(e) /\ CallsOf(e) = {}
                    /\ \A i \in 1..Len(e) : e[i].type = "done" => e[i].why = w
<1>3. ASSUME u = <<>> PROVE Facts
  <2>1. e = <<Done(w)>>
    BY <1>2, <1>3, ConcatEmptySeq
  <2>2. \A i \in 1..Len(<<Done(w)>>) : <<Done(w)>>[i] = Done(w)
    OBVIOUS
  <2> HIDE DEF e
  <2>3. Once(e) /\ Ended(e) /\ CallsOf(e) = {}
    BY <1>1, <2>1, SingleOnce DEF IsEnd
  <2>4. \A i \in 1..Len(e) : e[i].type = "done" => e[i].why = w
    BY <1>1, <2>1, <2>2
  <2> QED BY <1>2, <2>1, <2>3, <2>4
<1>4. ASSUME u = <<Usage>> PROVE Facts
  <2>1. /\ Len(<<Usage>>) = 1 /\ <<Usage>>[1] = Usage
        /\ Len(<<Done(w)>>) = 1 /\ <<Done(w)>>[1] = Done(w)
    OBVIOUS
  <2>2. e \in Seq(Deltas) /\ Len(e) = 2 /\ e[1] = Usage /\ e[2] = Done(w)
    BY <1>2, <1>4, <2>1, Concat
  <2> HIDE DEF e
  <2>3. \A i \in 1..Len(e) : i = 1 \/ i = 2
    BY <2>1, <2>2
  <2>4. Once(e)
    BY <1>1, <2>1, <2>2, <2>3 DEF Once, IsEnd
  <2>5. Ended(e)
    BY <1>1, <2>1, <2>2 DEF Ended, IsEnd
  <2>6. CallsOf(e) = {}
    BY <1>1, <2>1, <2>2, <2>3 DEF CallsOf
  <2>7. \A i \in 1..Len(e) : e[i].type = "done" => e[i].why = w
    BY <1>1, <2>1, <2>2, <2>3
  <2> QED BY <2>1, <2>2, <2>4, <2>5, <2>6, <2>7
<1>5. Facts
  BY <1>3, <1>4 DEF Used
<1>6. u \in Seq(Deltas)
  BY <1>2 DEF Used
<1> QED BY <1>5, <1>6

\* The reader says the last of its stream.
LEMMA LastWords ==
    ASSUME StreamInv, Reads, out' \in Seq(Deltas), Once(out'), cancelled \/ Ended(out'),
           reader' = "ending", UNCHANGED <<ch, cancelled, got, result>>
    PROVE  /\ QueueTypes' /\ Shape' /\ Concluded'
           /\ CallsOf(Stream') = Left \cup CallsOf(out')
           /\ \A i \in 1..Len(Stream') : Stream'[i].type = "done" =>
                \E j \in 1..Len(out') : Stream'[i] = out'[j]
<1>1. reader = "reading" /\ out = <<>>
  BY DEF Reads
<1>2. Stream \in Seq(Deltas) /\ Stream' = Stream \o out' /\ QueueTypes'
  BY <1>1, SayMore DEF StreamInv
<1>3. Body(Stream) /\ CallsOf(Stream) = Left
  BY <1>1 DEF StreamInv, Shape, AtBody, WholeAnswer, CallsLeft
<1>4. Once(Stream') /\ (cancelled' \/ Ended(Stream'))
  BY <1>2, <1>3, ConcatOnce
<1>5. CallsOf(Stream') = Left \cup CallsOf(out')
  BY <1>2, <1>3, ConcatCalls
<1>6. ASSUME NEW i \in 1..Len(Stream'), Stream'[i].type = "done"
      PROVE  \E j \in 1..Len(out') : Stream'[i] = out'[j]
  <2>1. i \notin 1..Len(Stream)
    <3> SUFFICES ASSUME i \in 1..Len(Stream) PROVE FALSE
      OBVIOUS
    <3>1. Stream'[i] = Stream[i]
      BY <1>2, Concat
    <3>2. ~IsEnd(Stream[i])
      BY <1>3, BodyHasNoEnd
    <3> QED BY <1>6, <3>1, <3>2 DEF IsEnd
  <2>2. PICK j \in 1..Len(out') : i = Len(Stream) + j
    BY <1>2, <2>1, Concat
  <2> QED BY <1>2, <2>2, Concat
<1>7. result = "none" /\ Concluded'
  BY <1>1, NotConcluded DEF StreamInv, StreamTypes
<1>8. Shape'
  BY <1>4, <1>7 DEF Shape, AtStart, AtBody, AtEnd, Drained
<1> QED BY <1>2, <1>5, <1>6, <1>7, <1>8

\* ... and what it says are the calls of the answer.
LEMMA LastCalls ==
    ASSUME StreamInv, Reads, UNCHANGED <<request, frags, block, texts, ch, cancelled, got, result>>,
           AnswerTypes', reader' = "ending", Once(out'), cancelled \/ Ended(out'), out' \in Seq(Deltas),
           marked' => finish' # "" \/ dialect = "openai",
           ~cut' => \A i \in 1..Len(out') : out'[i].type = "done" =>
                      Left \cup CallsOf(out') = Expected /\ (out'[i].why = "tool_use" <=> Expected # {})
    PROVE  StreamInv'
<1>1. QueueTypes' /\ Shape' /\ Concluded'
  BY LastWords
<1>2. CallsOf(Stream') = Left \cup CallsOf(out')
  BY LastWords
<1>3. \A i \in 1..Len(Stream') : Stream'[i].type = "done" =>
        \E j \in 1..Len(out') : Stream'[i] = out'[j]
  BY LastWords
<1>4. Expected' = Expected
  BY DEF Expected, Started, request
<1>5. CallsEnd'
  <2> SUFFICES ASSUME ~cut', NEW i \in 1..Len(Stream'), Stream'[i].type = "done"
               PROVE  CallsOf(Stream') = Expected /\ (Stream'[i].why = "tool_use" <=> Expected # {})
    BY <1>4 DEF CallsEnd
  <2>1. PICK j \in 1..Len(out') : Stream'[i] = out'[j]
    BY <1>3
  <2> QED BY <1>2, <2>1
<1>6. ReaderTypes'
  BY DEF StreamInv, StreamTypes, ReaderTypes, request
<1>7. Kept' /\ FreshAnswer' /\ Finished' /\ CallsLeft'
  BY DEF StreamInv, WholeAnswer, Kept, FreshAnswer, Finished, CallsLeft, request
<1> QED BY <1>1, <1>5, <1>6, <1>7 DEF StreamInv, StreamTypes, WholeAnswer

AllCalls(s) == \A i \in 1..Len(s) : s[i].type = "tool_call"

LEMMA AllCallsFacts ==
    ASSUME NEW s \in Seq(Deltas), AllCalls(s)
    PROVE  Body(s) /\ (s # <<>> <=> CallsOf(s) # {})
<1>1. Body(s)
  BY DEF AllCalls, Body
<1>2. ASSUME s # <<>> PROVE CallsOf(s) # {}
  <2>1. 1 \in 1..Len(s)
    BY <1>2, EmptySeq
  <2>2. s[1] \in CallsOf(s)
    BY <2>1 DEF AllCalls, CallsOf
  <2> QED BY <2>2
<1>3. ASSUME s = <<>> PROVE CallsOf(s) = {}
  <2>1. 1..Len(s) = {}
    BY <1>3
  <2> QED BY <2>1 DEF CallsOf
<1> QED BY <1>1, <1>2, <1>3

LEMMA AllCallsConcat ==
    ASSUME NEW s \in Seq(Deltas), NEW t \in Seq(Deltas), AllCalls(s), AllCalls(t)
    PROVE  AllCalls(s \o t)
<1> SUFFICES ASSUME NEW k \in 1..Len(s \o t) PROVE (s \o t)[k].type = "tool_call"
  BY DEF AllCalls
<1>1. ASSUME k \in 1..Len(s) PROVE (s \o t)[k].type = "tool_call"
  <2>1. (s \o t)[k] = s[k]
    BY <1>1, Concat
  <2> QED BY <1>1, <2>1 DEF AllCalls
<1>2. ASSUME NEW i \in 1..Len(t), k = Len(s) + i PROVE (s \o t)[k].type = "tool_call"
  <2>1. (s \o t)[k] = t[i]
    BY <1>2, Concat
  <2> QED BY <2>1 DEF AllCalls
<1>3. k \in 1..Len(s) \/ \E i \in 1..Len(t) : k = Len(s) + i
  BY Concat
<1> QED BY <1>1, <1>2, <1>3

\* The last deltas of a stream: calls, and an end that says why.
Closed(o, calls, w) ==
  /\ o \in Seq(Deltas) /\ Once(o) /\ Ended(o) /\ CallsOf(o) = calls
  /\ \A i \in 1..Len(o) : o[i].type = "done" => o[i].why = w

\* Calls, the usage if it came, and the end.
LEMMA Closing ==
    ASSUME NEW c \in Seq(Deltas), AllCalls(c), NEW u \in Used,
           NEW w \in FinishReasons \cup {"max_tokens"}
    PROVE  Closed(c \o u \o <<Done(w)>>, CallsOf(c), w)
<1>0. PICK o : o = c \o u \o <<Done(w)>>
  OBVIOUS
<1>1. PICK t : t = u \o <<Done(w)>>
  OBVIOUS
<1>2. /\ u \in Seq(Deltas) /\ t \in Seq(Deltas) /\ Once(t) /\ Ended(t) /\ CallsOf(t) = {}
      /\ \A i \in 1..Len(t) : t[i].type = "done" => t[i].why = w
  BY <1>1, Tailpiece
<1>3. <<Done(w)>> \in Seq(Deltas)
  BY DeltaTypes
<1>4. o = c \o t
  BY <1>0, <1>1, <1>2, <1>3, ConcatAssociative
<1>5. Body(c)
  BY AllCallsFacts
<1>6. o \in Seq(Deltas) /\ Once(o) /\ Ended(o)
  BY <1>2, <1>4, <1>5, Concat, ConcatOnce
<1>7. CallsOf(o) = CallsOf(c)
  <2>1. CallsOf(c \o t) = CallsOf(c) \cup CallsOf(t)
    BY <1>2, ConcatCalls
  <2>2. CallsOf(o) = CallsOf(c \o t)
    BY <1>4, Zenon
  <2> QED BY <1>2, <2>1, <2>2
<1>8. ASSUME NEW k \in 1..Len(o), o[k].type = "done" PROVE o[k].why = w
  <2>1. k \notin 1..Len(c)
    <3> SUFFICES ASSUME k \in 1..Len(c) PROVE FALSE
      OBVIOUS
    <3>1. o[k] = c[k]
      BY <1>2, <1>4, Concat
    <3> QED BY <1>8, <3>1 DEF AllCalls
  <2>2. PICK i \in 1..Len(t) : k = Len(c) + i
    BY <1>2, <1>4, <2>1, Concat
  <2>3. (c \o t)[Len(c) + i] = t[i]
    BY <1>2, Concat
  <2>4. o[k] = t[i]
    BY <1>4, <2>2, <2>3, Zenon
  <2> QED BY <1>2, <1>8, <2>4
<1>9. Closed(o, CallsOf(c), w)
  BY <1>6, <1>7, <1>8 DEF Closed
<1> QED BY <1>0, <1>9

LEMMA RecoveredCalls ==
    /\ Recovered \in Seq(Deltas) /\ AllCalls(Recovered)
    /\ CallsOf(Recovered) = IF Started = {} /\ texts THEN {TextCall} ELSE {}
    /\ Recovered # <<>> <=> Started = {} /\ texts
<1>1. TextCall \in Deltas /\ TextCall.type = "tool_call"
  <2>1. Frags \in 0..Frags
    BY ModelStreamAssumption
  <2> QED BY <2>1, DeltaTypes DEF TextCall
<1>2. CASE Started = {} /\ texts
  <2>1. Recovered = <<TextCall>>
    BY <1>2 DEF Recovered
  <2>2. \A i \in 1..Len(<<TextCall>>) : <<TextCall>>[i] = TextCall
    OBVIOUS
  <2>3. AllCalls(<<TextCall>>)
    BY <1>1, <2>2 DEF AllCalls
  <2>4. <<TextCall>> \in Seq(Deltas) /\ <<TextCall>> # <<>>
    BY <1>1
  <2>5. CallsOf(<<TextCall>>) = {TextCall}
    BY <1>1, SingleOnce
  <2> QED BY <1>2, <2>1, <2>3, <2>4, <2>5
<1>3. CASE ~(Started = {} /\ texts)
  <2>1. Recovered = <<>>
    BY <1>3 DEF Recovered
  <2>2. <<>> \in Seq(Deltas) /\ Len(<<>>) = 0 /\ 1..0 = {}
    BY EmptySeq
  <2>3. AllCalls(<<>>) /\ CallsOf(<<>>) = {}
    BY <2>2 DEF AllCalls, CallsOf
  <2> QED BY <1>3, <2>1, <2>2, <2>3
<1> QED BY <1>2, <1>3

\* OpenAI's calls in the order of their indexes are all calls there are.
LEMMA SortedIsAll ==
    ASSUME NEW order \in Sorted(Started)
    PROVE  /\ Len(order) \in Nat /\ \A n \in 1..Len(order) : order[n] \in Started
           /\ \A i \in Started : \E n \in 1..Len(order) : order[n] = i
<1> DEFINE N == Cardinality(Started)
<1>1. IsFiniteSet(Started) /\ Started \subseteq Nat
  <2>1. Started \in SUBSET Indexes
    BY DEF Started
  <2> QED BY <2>1, FS_Subset, ModelStreamAssumption
<1>2. N \in Nat
  BY <1>1, FS_CardinalityType
<1>3. /\ order \in [1..N -> Started]
      /\ \A m, n \in 1..N : m < n => order[m] < order[n]
  BY DEF Sorted
<1> HIDE DEF N
<1>4. Len(order) = N
  BY <1>2, <1>3
<1>5. \A m, n \in 1..N : order[m] = order[n] => m = n
  <2> SUFFICES ASSUME NEW m \in 1..N, NEW n \in 1..N, order[m] = order[n], m # n PROVE FALSE
    OBVIOUS
  <2>1. order[m] \in Nat /\ order[n] \in Nat
    BY <1>1, <1>3
  <2>2. m < n \/ n < m
    BY <1>2
  <2> QED BY <1>3, <2>1, <2>2
<1>6. order \in Injection(1..N, Started)
  BY <1>3, <1>5 DEF Injection, IsInjective
<1>7. IsFiniteSet(1..N) /\ Cardinality(1..N) = N
  BY <1>2, FS_Interval
<1>8. order \in Surjection(1..N, Started)
  BY <1>1, <1>6, <1>7, FS_Injection DEF N
<1> QED BY <1>2, <1>3, <1>4, <1>8 DEF Surjection

LEMMA OpenAICallsFacts ==
    ASSUME AnswerTypes, NEW order \in Sorted(Started)
    PROVE  /\ OpenAICalls(order) \in Seq(Deltas) /\ AllCalls(OpenAICalls(order))
           /\ CallsOf(OpenAICalls(order)) = {Call(i, frags[i]) : i \in Started} \cup CallsOf(Recovered)
<1>1. PICK s : s = [n \in 1..Len(order) |-> Call(order[n], frags[order[n]])]
  OBVIOUS
<1>2. /\ Len(order) \in Nat /\ \A n \in 1..Len(order) : order[n] \in Started
      /\ \A i \in Started : \E n \in 1..Len(order) : order[n] = i
  BY SortedIsAll
<1>3. ASSUME NEW i \in Started PROVE Call(i, frags[i]) \in Deltas /\ Call(i, frags[i]).type = "tool_call"
  BY DeltaTypes DEF Started, AnswerTypes
<1>4. \A n \in 1..Len(order) : s[n] = Call(order[n], frags[order[n]]) /\ s[n] \in Deltas
                              /\ s[n].type = "tool_call"
  BY <1>1, <1>2, <1>3
<1>5. s \in Seq(Deltas) /\ Len(s) = Len(order)
  BY <1>1, <1>2, <1>4
<1>6. AllCalls(s)
  BY <1>4, <1>5 DEF AllCalls
<1>7. CallsOf(s) = {Call(i, frags[i]) : i \in Started}
  <2>1. ASSUME NEW c \in CallsOf(s) PROVE c \in {Call(i, frags[i]) : i \in Started}
    BY <1>2, <1>4, <1>5 DEF CallsOf
  <2>2. ASSUME NEW i \in Started PROVE Call(i, frags[i]) \in CallsOf(s)
    <3>1. PICK n \in 1..Len(order) : order[n] = i
      BY <1>2
    <3>2. s[n] = Call(i, frags[i]) /\ s[n].type = "tool_call" /\ n \in 1..Len(s)
      BY <1>4, <1>5, <3>1
    <3> QED BY <3>2 DEF CallsOf
  <2> QED BY <2>1, <2>2
<1>8. OpenAICalls(order) = s \o Recovered
  BY <1>1 DEF OpenAICalls
<1>9. Recovered \in Seq(Deltas) /\ AllCalls(Recovered)
  BY RecoveredCalls
<1>10. s \o Recovered \in Seq(Deltas) /\ AllCalls(s \o Recovered)
       /\ CallsOf(s \o Recovered) = CallsOf(s) \cup CallsOf(Recovered)
  BY <1>5, <1>6, <1>9, Concat, AllCallsConcat, ConcatCalls
<1> QED BY <1>7, <1>8, <1>10

\* What the reader of a broken stream says.
LEMMA FailStep ==
    ASSUME StreamInv, Reads, Fail, UNCHANGED <<request, answer, ch, cancelled, got, result>>
    PROVE  StreamInv'
<1>1. reader' = "ending" /\ UNCHANGED <<frags, block, texts, finish, marked, cut>>
  BY DEF Fail, answer
<1>2. /\ out' \in Seq(Deltas) /\ Once(out') /\ (cancelled \/ Ended(out'))
      /\ \A i \in 1..Len(out') : out'[i].type # "done"
  <2>1. CASE cancelled
    <3>1. out' = <<>> /\ Len(<<>>) = 0 /\ 1..0 = {} /\ <<>> \in Seq(Deltas)
      BY <2>1, EmptySeq DEF Fail
    <3> QED BY <2>1, <3>1 DEF Once
  <2>2. CASE ~cancelled
    <3>1. out' = <<Failure>> /\ Failure \in Deltas /\ Failure.type = "error"
      BY <2>2, DeltaTypes DEF Fail
    <3>2. \A i \in 1..Len(<<Failure>>) : <<Failure>>[i] = Failure
      OBVIOUS
    <3> QED BY <3>1, <3>2, SingleOnce DEF IsEnd
  <2> QED BY <2>1, <2>2
<1>3. AnswerTypes' /\ (marked' => finish' # "" \/ dialect = "openai")
  BY <1>1 DEF StreamInv, StreamTypes, AnswerTypes, WholeAnswer, Finished
<1> QED BY <1>1, <1>2, <1>3, LastCalls

LEMMA ReadFailsStep == StreamInv /\ ReadFails => StreamInv'
BY FailStep DEF ReadFails

LEMMA EofStep == StreamInv /\ Eof => StreamInv'
<1> SUFFICES ASSUME StreamInv, Eof PROVE StreamInv'
  OBVIOUS
<1>1. Reads /\ UNCHANGED <<request, answer, ch, cancelled, got, result>>
  BY DEF Eof
<1>2. UNCHANGED <<frags, block, texts, finish, marked, cut>>
  BY <1>1 DEF answer
<1>3. /\ AnswerTypes /\ AnswerTypes' /\ reader = "reading"
      /\ marked' => finish' # "" \/ dialect = "openai"
  BY <1>1, <1>2 DEF StreamInv, StreamTypes, AnswerTypes, WholeAnswer, Finished, Reads
<1>4. (marked => finish # "" \/ dialect = "openai") /\ (marked /\ ~cut => Whole)
  BY <1>3 DEF StreamInv, WholeAnswer, Finished
<1>5. finish # "" /\ ~cut => Whole /\ NoneOpen /\ (finish = "tool_use" <=> Started # {}) /\ finish # "length"
  BY <1>3 DEF StreamInv, WholeAnswer, Finished
<1>6. CASE dialect = "openai" /\ (finish # "" \/ marked)
  <2>1. reader' = "ending" /\ \E u \in Used, order \in Sorted(Started) : out' = Collected(u, order)
    BY <1>6 DEF Eof
  <2>2. PICK u \in Used, order \in Sorted(Started) : out' = Collected(u, order)
    BY <2>1
  <2>3. PICK c : c = OpenAICalls(order)
    OBVIOUS
  <2>4. /\ c \in Seq(Deltas) /\ AllCalls(c)
        /\ CallsOf(c) = {Call(i, frags[i]) : i \in Started} \cup CallsOf(Recovered)
    BY <1>3, <2>3, OpenAICallsFacts
  <2>5. PICK w : w = Why(c)
    OBVIOUS
  <2>6. /\ w \in FinishReasons \cup {"max_tokens"} /\ (w = "tool_use" <=> c # <<>>)
        /\ out' = c \o u \o <<Done(w)>>
    BY <2>2, <2>3, <2>5 DEF Why, FinishReasons, Collected
  <2>7. /\ out' \in Seq(Deltas) /\ Once(out') /\ Ended(out') /\ CallsOf(out') = CallsOf(c)
        /\ \A i \in 1..Len(out') : out'[i].type = "done" => out'[i].why = w
    <3>1. Closed(c \o u \o <<Done(w)>>, CallsOf(c), w)
      BY <2>4, <2>6, Closing
    <3>2. Closed(out', CallsOf(c), w)
      BY <2>6, <3>1
    <3> QED BY <3>2 DEF Closed
  <2>8. c # <<>> <=> CallsOf(c) # {}
    BY <2>4, AllCallsFacts
  <2>9. Left = {}
    BY <1>6 DEF Left
  <2>10. ~cut => CallsOf(c) = Expected
    <3> SUFFICES ASSUME ~cut PROVE CallsOf(c) = Expected
      OBVIOUS
    <3>1. \A i \in Started : Call(i, frags[i]) = Call(i, Frags)
      BY <1>4, <1>5, <1>6 DEF Whole
    <3>2. CallsOf(c) = {Call(i, Frags) : i \in Started} \cup CallsOf(Recovered)
      BY <2>4, <3>1
    <3> QED BY <1>6, <3>2, RecoveredCalls DEF Expected
  <2> QED BY <1>1, <1>2, <1>3, <2>1, <2>6, <2>7, <2>8, <2>9, <2>10, LastCalls
<1>7. CASE dialect = "anthropic" /\ marked
  <2>1. /\ out' = <<Usage, Done(IF finish = "length" THEN "max_tokens" ELSE finish)>>
        /\ reader' = "ending"
    BY <1>7 DEF Eof
  <2>2. PICK w : w = IF finish = "length" THEN "max_tokens" ELSE finish
    OBVIOUS
  <2>3. w \in FinishReasons \cup {"max_tokens"}
    BY <1>3, <2>2 DEF AnswerTypes
  <2>4. <<Usage>> \in Used /\ Usage \in Deltas /\ Done(w) \in Deltas
    BY <2>3, DeltaTypes DEF Used
  <2>5. out' = <<Usage>> \o <<Done(w)>>
    BY <2>1, <2>2, <2>4
  <2>6. /\ out' \in Seq(Deltas) /\ Once(out') /\ Ended(out') /\ CallsOf(out') = {}
        /\ \A i \in 1..Len(out') : out'[i].type = "done" => out'[i].why = w
    BY <2>3, <2>4, <2>5, Tailpiece
  <2>7. ~cut => Left = Expected /\ (w = "tool_use" <=> Expected # {})
    <3> SUFFICES ASSUME ~cut PROVE Left = Expected /\ (w = "tool_use" <=> Expected # {})
      OBVIOUS
    <3>1. Whole /\ NoneOpen /\ (finish = "tool_use" <=> Started # {}) /\ finish # "length"
      BY <1>4, <1>5, <1>7
    <3>2. \A i \in Indexes : frags[i] > 0 => block[i] # "none"
      BY <1>7 DEF StreamInv, WholeAnswer, Kept
    <3>3. Started = {j \in Indexes : block[j] = "stopped"}
      BY <1>3, <3>1, <3>2 DEF Started, NoneOpen, AnswerTypes
    <3>4. \A i \in Started : Call(i, frags[i]) = Call(i, Frags)
      BY <3>1 DEF Whole
    <3>5. Left = {Call(i, Frags) : i \in Started}
      BY <1>7, <3>3, <3>4 DEF Left
    <3>6. Left = Expected
      BY <1>7, <3>5 DEF Expected
    <3>7. Expected # {} <=> Started # {}
      BY <3>5, <3>6
    <3> QED BY <2>2, <3>1, <3>6, <3>7
  <2> QED BY <1>1, <1>2, <1>3, <2>1, <2>6, <2>7, LastCalls
<1>8. CASE ~(dialect = "openai" /\ (finish # "" \/ marked)) /\ ~(dialect = "anthropic" /\ marked)
  <2>1. Fail
    BY <1>8 DEF Eof
  <2> QED BY <1>1, <2>1, FailStep
<1> QED BY <1>6, <1>7, <1>8

LEMMA OllamaDoneStep ==
    ASSUME StreamInv, NEW r \in {"length", "stop", "tool_use"}, OllamaDone(r)
    PROVE  StreamInv'
<1> DEFINE why == IF Started # {} \/ Recovered # <<>> THEN "tool_use"
                  ELSE IF r = "length" THEN "max_tokens" ELSE "stop"
<1>1. /\ dialect = "ollama" /\ Reads /\ finish = "" /\ ~marked /\ r \in Reasons
      /\ finish' = r /\ cut' = (r = "length") /\ reader' = "ending"
      /\ UNCHANGED <<request, frags, block, texts, marked, ch, cancelled, got, result>>
      /\ \E u \in Used : out' = Recovered \o u \o <<Done(why)>>
  BY DEF OllamaDone, Streaming
<1>2. PICK w : w = why
  OBVIOUS
<1>3. /\ w \in FinishReasons \cup {"max_tokens"}
      /\ w = "tool_use" <=> Started # {} \/ Recovered # <<>>
  BY <1>2 DEF FinishReasons
<1>4. PICK u \in Used : out' = Recovered \o u \o <<Done(w)>>
  BY <1>1, <1>2
<1>5. /\ Recovered \in Seq(Deltas) /\ AllCalls(Recovered)
      /\ CallsOf(Recovered) = IF Started = {} /\ texts THEN {TextCall} ELSE {}
      /\ Recovered # <<>> <=> Started = {} /\ texts
  BY RecoveredCalls
<1>6. /\ out' \in Seq(Deltas) /\ Once(out') /\ Ended(out') /\ CallsOf(out') = CallsOf(Recovered)
      /\ \A i \in 1..Len(out') : out'[i].type = "done" => out'[i].why = w
  <2>1. Closed(Recovered \o u \o <<Done(w)>>, CallsOf(Recovered), w)
    BY <1>3, <1>5, Closing
  <2>2. Closed(out', CallsOf(Recovered), w)
    BY <1>4, <2>1
  <2> QED BY <2>2 DEF Closed
<1>7. Started = {i \in Indexes : frags[i] > 0} /\ \A i \in Started : frags[i] = Frags
  <2>1. \A i \in Indexes : block[i] = "none" /\ frags[i] \in {0, Frags}
    BY <1>1 DEF StreamInv, WholeAnswer, Kept
  <2>2. Frags > 0
    BY ModelStreamAssumption
  <2> QED BY <2>1, <2>2 DEF Started
<1>8. Left = {Call(i, Frags) : i \in Started}
  BY <1>1, <1>7 DEF Left
<1>9. Left \cup CallsOf(Recovered) = Expected
  BY <1>1, <1>5, <1>8 DEF Expected
<1>10. w = "tool_use" <=> Expected # {}
  BY <1>1, <1>3, <1>5 DEF Expected
<1>11. AnswerTypes' /\ (marked' => finish' # "" \/ dialect = "openai")
  BY <1>1 DEF StreamInv, StreamTypes, AnswerTypes, FinishReasons
<1> HIDE DEF why
<1> QED BY <1>1, <1>6, <1>9, <1>10, <1>11, LastCalls

-----------------------------------------------------------------------------
(* The channel, the turn and the next one.                                 *)

LEMMA PassStep ==
    ASSUME StreamInv, Send \/ Receive
    PROVE  StreamInv'
<1>1. Stream' = Stream /\ QueueTypes'
  BY StreamPasses DEF StreamInv
<1>2. Untouched /\ UNCHANGED <<cancelled, result>> /\ UNCHANGED <<frags, block, texts, finish, marked, cut>>
  BY DEF Send, Receive, Untouched, answer
<1>3. WholeAnswer'
  BY <1>1, <1>2, AnswerStays DEF StreamInv
<1>4. AnswerTypes' /\ ReaderTypes'
  BY <1>2 DEF StreamInv, StreamTypes, AnswerTypes, ReaderTypes, Untouched, request
<1>5. reader # "idle" /\ (reader = "closed" => out' = <<>>) /\ result = "none"
  <2>1. out # <<>> \/ ch # <<>>
    BY DEF Send, Receive
  <2>2. reader # "idle"
    BY <2>1 DEF StreamInv, Shape, AtStart
  <2>3. reader = "closed" => Receive /\ out' = out /\ out = <<>>
    BY DEF StreamInv, Shape, Drained, Send, Receive
  <2>4. result # "none" => ch = <<>> /\ reader = "closed" /\ out = <<>>
    BY <2>2 DEF StreamInv, Shape, Drained
  <2> QED BY <2>1, <2>2, <2>3, <2>4
<1>6. Shape'
  BY <1>1, <1>2, <1>5 DEF Untouched, StreamInv, Shape, AtStart, AtBody, AtEnd, Drained
<1>7. Concluded'
  BY <1>2, <1>5 DEF Concluded
<1> QED BY <1>1, <1>3, <1>4, <1>6, <1>7 DEF StreamInv, StreamTypes

LEMMA GiveUpStep == StreamInv /\ GiveUp => StreamInv'
<1> SUFFICES ASSUME StreamInv, GiveUp PROVE StreamInv'
  OBVIOUS
<1>1. /\ out # <<>> /\ cancelled /\ out' = <<>> /\ reader' = "ending"
      /\ UNCHANGED <<request, answer, ch, cancelled, got, result>>
      /\ UNCHANGED <<frags, block, texts, finish, marked, cut>>
  BY DEF GiveUp, answer
<1>2. reader \in {"reading", "ending"} /\ result = "none"
  BY <1>1 DEF StreamInv, StreamTypes, ReaderTypes, Shape, AtStart, Drained
<1>3. Passed \in Seq(Deltas) /\ out \in Seq(Deltas)
  BY ConcatProperties DEF Passed, StreamInv, StreamTypes, QueueTypes
<1>4. Stream' = Passed
  <2>1. Stream' = Passed \o <<>>
    BY <1>1 DEF Stream, Passed
  <2> QED BY <1>3, <2>1, ConcatEmptySeq
<1>5. Once(Passed) /\ ~Ended(Passed)
  <2>1. CASE reader = "reading"
    <3>1. Body(Stream)
      BY <2>1 DEF StreamInv, Shape, AtBody
    <3>2. Body(Passed)
      BY <1>3, <3>1, ConcatBody DEF Stream
    <3> QED BY <3>2, BodyHasNoEnd DEF Once
  <2>2. CASE reader = "ending"
    <3>1. Once(Passed \o out)
      BY <2>2 DEF StreamInv, Shape, AtEnd, Stream
    <3> QED BY <1>1, <1>3, <3>1, PrefixOpen
  <2> QED BY <1>2, <2>1, <2>2
<1>6. Shape'
  BY <1>1, <1>2, <1>4, <1>5 DEF Shape, AtStart, AtBody, AtEnd, Drained
<1>7. QueueTypes' /\ AnswerTypes' /\ ReaderTypes'
  BY <1>1, EmptySeq DEF StreamInv, StreamTypes, QueueTypes, AnswerTypes, ReaderTypes, request
<1>8. Kept' /\ FreshAnswer' /\ Finished' /\ CallsLeft'
  BY <1>1 DEF StreamInv, WholeAnswer, Kept, FreshAnswer, Finished, CallsLeft, request
<1>9. CallsEnd'
  <2>1. \A i \in 1..Len(Stream') : Stream'[i].type # "done"
    BY <1>4, <1>5 DEF Ended, IsEnd
  <2> QED BY <2>1 DEF CallsEnd
<1>10. Concluded'
  BY <1>1, <1>2 DEF Concluded
<1> QED BY <1>6, <1>7, <1>8, <1>9, <1>10 DEF StreamInv, StreamTypes, WholeAnswer

LEMMA CloseChannelStep == StreamInv /\ CloseChannel => StreamInv'
<1> SUFFICES ASSUME StreamInv, CloseChannel PROVE StreamInv'
  OBVIOUS
<1>1. /\ reader = "ending" /\ out = <<>> /\ reader' = "closed"
      /\ UNCHANGED <<request, out, ch, cancelled, got, result>>
      /\ UNCHANGED <<frags, block, texts, finish, marked, cut>>
  BY DEF CloseChannel, answer
<1>2. Stream' = Stream
  BY <1>1 DEF Stream, Passed
<1>3. result = "none" /\ Concluded'
  BY <1>1, NotConcluded DEF StreamInv, StreamTypes
<1>4. Shape'
  BY <1>1, <1>2, <1>3 DEF StreamInv, Shape, AtStart, AtBody, AtEnd, Drained
<1>5. QueueTypes' /\ AnswerTypes' /\ ReaderTypes'
  BY <1>1 DEF StreamInv, StreamTypes, QueueTypes, AnswerTypes, ReaderTypes, request
<1>6. Kept' /\ FreshAnswer' /\ Finished' /\ CallsLeft'
  BY <1>1 DEF StreamInv, WholeAnswer, Kept, FreshAnswer, Finished, CallsLeft, request
<1>7. CallsEnd'
  <2>1. Expected' = Expected
    BY <1>1 DEF Expected, Started, request
  <2> QED BY <1>1, <1>2, <2>1 DEF StreamInv, WholeAnswer, CallsEnd
<1> QED BY <1>3, <1>4, <1>5, <1>6, <1>7 DEF StreamInv, StreamTypes, WholeAnswer

LEMMA CancelStep == StreamInv /\ Cancel => StreamInv'
<1> SUFFICES ASSUME StreamInv, Cancel PROVE StreamInv'
  OBVIOUS
<1>1. /\ cancelled' = TRUE /\ result = "none" /\ Untouched
      /\ UNCHANGED <<frags, block, texts, finish, marked, cut, out, ch, got, result>>
  BY DEF Cancel, Untouched, answer
<1>2. Stream' = Stream
  BY <1>1 DEF Stream, Passed
<1>3. WholeAnswer'
  BY <1>1, <1>2, AnswerStays DEF StreamInv
<1>4. Shape'
  BY <1>1, <1>2 DEF Untouched, StreamInv, Shape, AtStart, AtBody, AtEnd, Drained
<1>5. QueueTypes' /\ AnswerTypes' /\ ReaderTypes'
  BY <1>1 DEF StreamInv, StreamTypes, QueueTypes, AnswerTypes, ReaderTypes, Untouched, request
<1>6. Concluded'
  BY <1>1 DEF Concluded
<1> QED BY <1>3, <1>4, <1>5, <1>6 DEF StreamInv, StreamTypes

LEMMA ConcludeStep == StreamInv /\ Conclude => StreamInv'
<1> SUFFICES ASSUME StreamInv, Conclude PROVE StreamInv'
  OBVIOUS
<1>1. /\ reader = "closed" /\ ch = <<>> /\ Untouched
      /\ UNCHANGED <<frags, block, texts, finish, marked, cut, out, ch, got, cancelled>>
      /\ result' = CASE cancelled -> "cancelled"
                      [] ~cancelled /\ Received("error") # {} -> "failed"
                      [] ~cancelled /\ Received("error") = {} /\ CallsGot # {}
                           /\ \E i \in Received("done") : got[i].why = "tool_use" -> "tools"
                      [] OTHER -> "done"
  BY DEF Conclude, Untouched, answer
<1>2. Stream' = Stream
  BY <1>1 DEF Stream, Passed
<1>3. WholeAnswer'
  BY <1>1, <1>2, AnswerStays DEF StreamInv
<1>4. Shape'
  BY <1>1, <1>2 DEF Untouched, StreamInv, Shape, AtStart, AtBody, AtEnd, Drained
<1>5. /\ cancelled => result' = "cancelled"
      /\ ~cancelled /\ Received("error") # {} => result' = "failed"
      /\ ~cancelled /\ Received("error") = {} =>
           result' = IF CallsGot # {} /\ \E i \in Received("done") : got[i].why = "tool_use"
                       THEN "tools" ELSE "done"
  BY <1>1, Zenon
<1>6. result' \in {"done", "tools", "failed", "cancelled"}
  BY <1>5
<1>7. QueueTypes' /\ AnswerTypes' /\ ReaderTypes'
  BY <1>1, <1>6 DEF StreamInv, StreamTypes, QueueTypes, AnswerTypes, ReaderTypes, Untouched, request
<1>8. CallsGot = CallsOf(got)
  BY DEF CallsGot, CallsOf, Received
<1>9. Concluded'
  <2> SUFFICES ASSUME result' \in {"done", "tools"}
               PROVE  /\ ~cancelled /\ \A i \in 1..Len(got) : got[i].type # "error"
                      /\ result' = "tools" <=>
                           /\ CallsOf(got) # {}
                           /\ \E i \in 1..Len(got) : got[i].type = "done" /\ got[i].why = "tool_use"
    BY <1>1 DEF Concluded
  <2>1. ~cancelled /\ Received("error") = {}
    BY <1>5
  <2>2. \A i \in 1..Len(got) : got[i].type # "error"
    BY <2>1 DEF Received
  <2>3. (\E i \in Received("done") : got[i].why = "tool_use") <=>
        \E i \in 1..Len(got) : got[i].type = "done" /\ got[i].why = "tool_use"
    BY DEF Received
  <2> QED BY <1>5, <1>8, <2>1, <2>2, <2>3
<1> QED BY <1>3, <1>4, <1>7, <1>9 DEF StreamInv, StreamTypes

LEMMA NoFragments == 0 \in 0..Frags /\ ~(0 > 0)
BY ModelStreamAssumption

\* An empty stream and an empty answer.
LEMMA FreshStart ==
    ASSUME got' = <<>>, ch' = <<>>, out' = <<>>, reader' = "idle",
           frags' = [i \in Indexes |-> 0], block' = [i \in Indexes |-> "none"],
           texts' = FALSE, finish' = "", marked' = FALSE, cut' = FALSE
    PROVE  QueueTypes' /\ AnswerTypes' /\ Shape' /\ WholeAnswer'
<1>1. QueueTypes'
  BY EmptySeq DEF QueueTypes
<1>3. AnswerTypes'
  BY NoFragments DEF AnswerTypes, FinishReasons
<1>4. Shape'
  BY DEF Shape, AtStart, AtBody, AtEnd, Drained
<1>5. Kept'
  <2>1. \A i \in Indexes : frags'[i] = 0 /\ block'[i] = "none"
    OBVIOUS
  <2> QED BY <2>1, NoFragments, Zenon DEF Kept
<1>6. Finished' /\ FreshAnswer' /\ CallsLeft' /\ CallsEnd'
  BY DEF Finished, FreshAnswer, CallsLeft, CallsEnd
<1> QED BY <1>1, <1>3, <1>4, <1>5, <1>6 DEF WholeAnswer

LEMMA CompleteStep ==
    ASSUME StreamInv, NEW probe, NEW accepted \in BOOLEAN, Complete(probe, accepted)
    PROVE  StreamInv'
<1>1. /\ reader = "idle" /\ result = "none"
      /\ reader' = IF accepted THEN "reading" ELSE "idle"
      /\ result' = IF accepted THEN "none" ELSE IF cancelled THEN "cancelled" ELSE "failed"
      /\ UNCHANGED <<frags, block, texts, finish, marked, cut, out, ch, got, cancelled>>
  BY DEF Complete, answer
<1>2. dialect' \in {"anthropic", "openai", "ollama"}
  BY Zenon DEF Complete
<1>3. got = <<>> /\ ch = <<>> /\ out = <<>>
  BY <1>1 DEF StreamInv, Shape, AtStart
<1>4. /\ \A i \in Indexes : frags[i] = 0 /\ block[i] = "none"
      /\ ~texts /\ finish = "" /\ ~marked /\ ~cut
  BY <1>1 DEF StreamInv, WholeAnswer, FreshAnswer
<1>5. Stream' = <<>>
  BY <1>1, <1>3 DEF Stream, Passed
<1>6. Shape'
  <2>1. Body(<<>>)
    BY DEF Body
  <2> QED BY <1>1, <1>3, <1>5, <2>1 DEF Shape, AtStart, AtBody, AtEnd, Drained
<1>7. QueueTypes' /\ AnswerTypes' /\ ReaderTypes'
  BY <1>1, <1>2 DEF StreamInv, StreamTypes, QueueTypes, AnswerTypes, ReaderTypes
<1>8. Kept'
  <2>1. \A i \in Indexes : frags'[i] = 0 /\ block'[i] = "none"
    BY <1>1, <1>4
  <2>2. frags' = frags /\ finish' = "" /\ ~marked' /\ dialect' # "none"
    BY <1>1, <1>2, <1>4
  <2> QED BY <2>1, <2>2, NoFragments, Zenon DEF Kept
<1>9. Finished' /\ FreshAnswer' /\ CallsEnd'
  BY <1>1, <1>4 DEF Finished, FreshAnswer, CallsEnd
<1>10. CallsLeft'
  <2>1. CallsOf(Stream') = {}
    <3>1. 1..Len(<<>>) = {}
      OBVIOUS
    <3> QED BY <1>5, <3>1 DEF CallsOf
  <2>2. \A i \in Indexes : frags'[i] = 0 /\ block'[i] = "none"
    BY <1>1, <1>4
  <2>3. {j \in Indexes : block'[j] = "stopped"} = {} /\ {j \in Indexes : frags'[j] > 0} = {}
    BY <2>2
  <2>4. Left' = {}
    BY <2>3 DEF Left
  <2> QED BY <2>1, <2>4 DEF CallsLeft
<1>11. Concluded'
  BY <1>1 DEF Concluded
<1> QED BY <1>6, <1>7, <1>8, <1>9, <1>10, <1>11 DEF StreamInv, StreamTypes, WholeAnswer

LEMMA NextTurnStep == StreamInv /\ NextTurn => StreamInv'
<1> SUFFICES ASSUME StreamInv, NextTurn PROVE StreamInv'
  OBVIOUS
<1>1. QueueTypes' /\ AnswerTypes' /\ Shape' /\ WholeAnswer'
  BY FreshStart DEF NextTurn
<1>2. ReaderTypes' /\ Concluded'
  BY DEF NextTurn, StreamInv, StreamTypes, ReaderTypes, Concluded, request
<1> QED BY <1>1, <1>2 DEF StreamInv, StreamTypes

LEMMA StreamInit == MInit => StreamInv
<1> SUFFICES ASSUME MInit PROVE StreamInv
  OBVIOUS
<1>1. QueueTypes
  BY EmptySeq DEF MInit, QueueTypes
<1>2. 0 \in 0..Frags
  BY ModelStreamAssumption
<1>3. AnswerTypes /\ ReaderTypes
  BY <1>2 DEF MInit, AnswerTypes, ReaderTypes, FinishReasons
<1>4. Shape
  BY DEF MInit, Shape, AtStart, AtBody, AtEnd, Drained
<1>5. Kept
  BY DEF MInit, Kept
<1>6. Finished /\ FreshAnswer /\ CallsLeft /\ CallsEnd /\ Concluded
  BY DEF MInit, Finished, FreshAnswer, CallsLeft, CallsEnd, Concluded
<1> QED BY <1>1, <1>3, <1>4, <1>5, <1>6 DEF StreamInv, StreamTypes, WholeAnswer

LEMMA StreamStep == StreamInv /\ [MNext]_mvars => StreamInv'
<1> SUFFICES ASSUME StreamInv, [MNext]_mvars PROVE StreamInv'
  OBVIOUS
<1>1. ASSUME NEW probe, NEW ok \in BOOLEAN, Complete(probe, ok) PROVE StreamInv'
  BY <1>1, CompleteStep
<1>2. ASSUME NEW i \in Indexes,
             OpenAIFragment(i) \/ BlockStart(i) \/ BlockDelta(i) \/ BlockStop(i) \/ OllamaCall(i)
      PROVE  StreamInv'
  BY <1>2, FragmentStep, BlockStartStep, BlockDeltaStep, BlockStopStep, OllamaCallStep
<1>3. ASSUME NEW r \in {"length", "stop", "tool_use"}, FinishReason(r) \/ OllamaDone(r)
      PROVE  StreamInv'
  BY <1>3, FinishStep, OllamaDoneStep
<1>4. ASSUME NEW call \in BOOLEAN, TextEvent(call) PROVE StreamInv'
  BY <1>4, TextStep
<1>5. CASE Send \/ Receive
  BY <1>5, PassStep
<1>6. CASE EndMark \/ Eof \/ ReadFails \/ GiveUp \/ CloseChannel
  BY <1>6, EndMarkStep, EofStep, ReadFailsStep, GiveUpStep, CloseChannelStep
<1>7. CASE Cancel \/ Conclude \/ NextTurn
  BY <1>7, CancelStep, ConcludeStep, NextTurnStep
<1>8. CASE UNCHANGED mvars
  <2>1. Untouched /\ UNCHANGED <<frags, block, texts, finish, marked, cut, out, ch, got, cancelled, result>>
    BY <1>8 DEF mvars, Untouched, request, answer
  <2>2. Quiet /\ Stream' = Stream
    BY <2>1 DEF Quiet, Untouched, Stream, Passed
  <2>3. QueueTypes' /\ ReaderTypes' /\ Shape' /\ Concluded'
    BY <2>2, QuietShape
  <2>4. WholeAnswer'
    BY <2>1, <2>2, AnswerStays DEF StreamInv
  <2>5. AnswerTypes'
    BY <2>1 DEF StreamInv, StreamTypes, AnswerTypes
  <2> QED BY <2>3, <2>4, <2>5 DEF StreamInv, StreamTypes
<1> QED BY <1>1, <1>2, <1>3, <1>4, <1>5, <1>6, <1>7, <1>8 DEF MNext, ReaderStep

-----------------------------------------------------------------------------
(* What the turn received when the stream is over.                         *)

LEMMA AllReceived ==
    ASSUME StreamInv, Over
    PROVE  /\ Stream = got /\ got \in Seq(Deltas) /\ Len(got) \in Nat
           /\ Once(got) /\ (cancelled \/ Ended(got))
<1>1. reader = "closed" /\ out = <<>> /\ ch = <<>>
  BY DEF Over, StreamInv, Shape, Drained
<1>2. got \in Seq(Deltas)
  BY DEF StreamInv, StreamTypes, QueueTypes
<1>3. Stream = got
  BY <1>1, <1>2, ConcatEmptySeq DEF Stream, Passed
<1> QED BY <1>1, <1>2, <1>3, LenProperties DEF StreamInv, Shape, AtEnd

LEMMA AtMostOne ==
    ASSUME NEW S, \A i, j \in S : i = j
    PROVE  Cardinality(S) <= 1
<1>1. CASE S = {}
  BY <1>1, FS_EmptySet
<1>2. CASE S # {}
  <2>1. PICK i : i \in S
    BY <1>2
  <2>2. S = {i}
    BY <2>1
  <2>3. Cardinality({i}) = 1
    BY FS_Singleton
  <2> QED BY <2>2, <2>3
<1> QED BY <1>1, <1>2

LEMMA EndsOnceInv == StreamInv => EndsOnce
<1> SUFFICES ASSUME StreamInv, Over
             PROVE  /\ Cardinality(Ends) <= 1 /\ (cancelled \/ Ends # {})
                    /\ Ends \subseteq {Len(got)} /\ Cardinality(Received("usage")) <= 1
  BY DEF EndsOnce
<1>1. Len(got) \in Nat /\ Once(got) /\ (cancelled \/ Ended(got))
  BY AllReceived
<1>2. Ends \subseteq {Len(got)}
  BY <1>1 DEF Ends, Received, Once, IsEnd
<1>3. cancelled \/ Ends # {}
  BY <1>1 DEF Ends, Received, Ended, IsEnd
<1>4. Cardinality(Ends) <= 1
  BY <1>2, AtMostOne
<1>5. \A i, j \in Received("usage") : i = j
  BY <1>1 DEF Received, Once
<1>6. Cardinality(Received("usage")) <= 1
  BY <1>5, AtMostOne
<1> QED BY <1>2, <1>3, <1>4, <1>6

LEMMA CallsAsSentInv == StreamInv => CallsAsSent
<1> SUFFICES ASSUME StreamInv, Over, result \in {"done", "tools"}, ~cut
             PROVE  (IF result = "tools" THEN CallsGot ELSE {}) = Expected
  BY DEF CallsAsSent, Expected
<1>1. /\ Stream = got /\ Len(got) \in Nat /\ Once(got) /\ (cancelled \/ Ended(got))
  BY AllReceived
<1>2. /\ ~cancelled /\ \A i \in 1..Len(got) : got[i].type # "error"
      /\ result = "tools" <=> /\ CallsOf(got) # {}
                             /\ \E i \in 1..Len(got) : got[i].type = "done" /\ got[i].why = "tool_use"
  BY DEF StreamInv, Concluded
<1>3. PICK i \in 1..Len(got) : got[i].type = "done"
  BY <1>1, <1>2 DEF Ended, IsEnd
<1>4. CallsOf(got) = Expected /\ (got[i].why = "tool_use" <=> Expected # {})
  BY <1>1, <1>3 DEF StreamInv, WholeAnswer, CallsEnd, Over
<1>5. \A j \in 1..Len(got) : got[j].type = "done" => j = i
  BY <1>1, <1>3 DEF Once, IsEnd
<1>6. result = "tools" <=> Expected # {}
  BY <1>2, <1>3, <1>4, <1>5
<1>7. CallsGot = CallsOf(got)
  BY DEF CallsGot, CallsOf, Received
<1> QED BY <1>4, <1>6, <1>7

\* Whatever the provider says, loses or cuts, and whenever the run is
\* cancelled, a stream that is over ended once, in its last delta (stream,
\* streamOllama, emitter.send, emitter.fail).
THEOREM EndsOnceHolds == MSpec => []EndsOnce
<1>1. StreamInv => EndsOnce
  BY EndsOnceInv
<1> QED BY StreamInit, StreamStep, <1>1, PTL DEF MSpec

\* ... and the turn runs the calls of the answer, whole, all of them and no
\* others (stream, streamOllama, recoverTextToolCalls, turn).
THEOREM CallsAsSentHolds == MSpec => []CallsAsSent
<1>1. StreamInv => CallsAsSent
  BY CallsAsSentInv
<1> QED BY StreamInit, StreamStep, <1>1, PTL DEF MSpec

(*************************************************************************)
(* LogShipper implements EventLedger, for any events, any size of a batch *)
(* and any bound of the queue; and what the ledger promises, that an event *)
(* is shipped at most once and never both shipped and counted as dropped, *)
(* therefore holds of it.                                                *)
(*************************************************************************)

-----------------------------------------------------------------------------
(* Sequences and the sets of their elements.                               *)

LEMMA ElementsOfConcat ==
    ASSUME NEW S, NEW s \in Seq(S), NEW t \in Seq(S)
    PROVE  InSeq(s \o t) = InSeq(s) \cup InSeq(t)
<1>1. Len(s) \in Nat /\ Len(t) \in Nat
  BY LenProperties
<1>2. /\ Len(s \o t) = Len(s) + Len(t)
      /\ \A i \in 1..Len(s) + Len(t) :
            (s \o t)[i] = IF i <= Len(s) THEN s[i] ELSE t[i - Len(s)]
  BY ConcatProperties
<1>3. InSeq(s \o t) \subseteq InSeq(s) \cup InSeq(t)
  <2> SUFFICES ASSUME NEW i \in 1..Len(s) + Len(t)
               PROVE  (s \o t)[i] \in InSeq(s) \cup InSeq(t)
    BY <1>2 DEF InSeq
  <2>1. CASE i <= Len(s)
    <3>1. i \in 1..Len(s) /\ (s \o t)[i] = s[i]
      BY <1>1, <1>2, <2>1
    <3> QED BY <3>1 DEF InSeq
  <2>2. CASE ~(i <= Len(s))
    <3>1. i - Len(s) \in 1..Len(t) /\ (s \o t)[i] = t[i - Len(s)]
      BY <1>1, <1>2, <2>2
    <3> QED BY <3>1 DEF InSeq
  <2> QED BY <2>1, <2>2
<1>4. InSeq(s) \subseteq InSeq(s \o t)
  <2> SUFFICES ASSUME NEW i \in 1..Len(s)
               PROVE  s[i] \in InSeq(s \o t)
    BY DEF InSeq
  <2>1. i \in 1..Len(s \o t) /\ (s \o t)[i] = s[i]
    BY <1>1, <1>2
  <2> QED BY <2>1 DEF InSeq
<1>5. InSeq(t) \subseteq InSeq(s \o t)
  <2> SUFFICES ASSUME NEW i \in 1..Len(t)
               PROVE  t[i] \in InSeq(s \o t)
    BY DEF InSeq
  <2>1. Len(s) + i \in 1..Len(s \o t) /\ (s \o t)[Len(s) + i] = t[i]
    BY <1>1, <1>2
  <2> QED BY <2>1 DEF InSeq
<1> QED BY <1>3, <1>4, <1>5

\* What is appended to the second part is appended to the whole.
LEMMA AppendToConcat ==
    ASSUME NEW S, NEW s \in Seq(S), NEW t \in Seq(S), NEW e \in S
    PROVE  s \o Append(t, e) = Append(s \o t, e)
<1>1. <<e>> \in Seq(S) /\ s \o t \in Seq(S)
  BY ConcatProperties
<1>2. Append(t, e) = t \o <<e>> /\ Append(s \o t, e) = (s \o t) \o <<e>>
  BY <1>1, AppendIsConcat
<1> QED BY <1>1, <1>2, ConcatAssociative

\* A concatenation is taken apart where it was put together.
LEMMA SplitConcat ==
    ASSUME NEW S, NEW s \in Seq(S), NEW t \in Seq(S)
    PROVE  /\ SubSeq(s \o t, 1, Len(s)) = s
           /\ SubSeq(s \o t, Len(s) + 1, Len(s \o t)) = t
<1> DEFINE u == s \o t
<1>1. /\ Len(s) \in Nat /\ Len(t) \in Nat /\ u \in Seq(S) /\ Len(u) = Len(s) + Len(t)
      /\ \A i \in 1..Len(s) + Len(t) : u[i] = IF i <= Len(s) THEN s[i] ELSE t[i - Len(s)]
  BY ConcatProperties, LenProperties
<1>2. \A i \in 1..Len(u) : u[i] \in S
  BY <1>1, ElementOfSeq
<1> HIDE DEF u
<1>3. SubSeq(u, 1, Len(s)) = s
  <2>1. /\ SubSeq(u, 1, Len(s)) \in Seq(S)
        /\ Len(SubSeq(u, 1, Len(s))) = IF 1 <= Len(s) THEN Len(s) - 1 + 1 ELSE 0
        /\ \A i \in 1..Len(s) - 1 + 1 : SubSeq(u, 1, Len(s))[i] = u[1 + i - 1]
    <3>1. \A i \in 1..Len(s) : u[i] \in S
      BY <1>1, <1>2
    <3> QED BY <1>1, <3>1, SubSeqProperties
  <2>2. Len(SubSeq(u, 1, Len(s))) = Len(s)
    BY <1>1, <2>1
  <2>3. \A i \in 1..Len(s) : SubSeq(u, 1, Len(s))[i] = s[i]
    BY <1>1, <2>1
  <2> QED BY <2>1, <2>2, <2>3, SeqEqual
<1>4. SubSeq(u, Len(s) + 1, Len(u)) = t
  <2>1. /\ SubSeq(u, Len(s) + 1, Len(u)) \in Seq(S)
        /\ Len(SubSeq(u, Len(s) + 1, Len(u))) =
              IF Len(s) + 1 <= Len(u) THEN Len(u) - (Len(s) + 1) + 1 ELSE 0
        /\ \A i \in 1..Len(u) - (Len(s) + 1) + 1 :
              SubSeq(u, Len(s) + 1, Len(u))[i] = u[Len(s) + 1 + i - 1]
    <3>1. \A i \in Len(s) + 1..Len(u) : u[i] \in S
      BY <1>1, <1>2
    <3> QED BY <1>1, <3>1, SubSeqProperties
  <2>2. Len(SubSeq(u, Len(s) + 1, Len(u))) = Len(t)
    BY <1>1, <2>1
  <2>3. \A i \in 1..Len(t) : SubSeq(u, Len(s) + 1, Len(u))[i] = t[i]
    <3> SUFFICES ASSUME NEW i \in 1..Len(t)
                 PROVE  SubSeq(u, Len(s) + 1, Len(u))[i] = t[i]
      OBVIOUS
    <3>1. i \in 1..Len(u) - (Len(s) + 1) + 1 /\ Len(s) + 1 + i - 1 = Len(s) + i
      BY <1>1
    <3>2. u[Len(s) + i] = t[i]
      <4>1. Len(s) + i \in 1..Len(s) + Len(t) /\ ~(Len(s) + i <= Len(s)) /\ Len(s) + i - Len(s) = i
        BY <1>1
      <4> QED BY <1>1, <4>1
    <3> QED BY <2>1, <3>1, <3>2
  <2> QED BY <2>1, <2>2, <2>3, SeqEqual
<1> QED BY <1>3, <1>4 DEF u

-----------------------------------------------------------------------------
(* The exporter implements the ledger.                                     *)

ShipperTypes == /\ queue \in Seq(Events) /\ Len(queue) <= QueueSize
           /\ batch \in Seq(Events) /\ Len(batch) <= BatchSize
           /\ posted \in Seq(Events) /\ dropped \subseteq Events

\* Whatever is emitted, taken, posted and given up, the backlog and the batch
\* keep within their bounds.
LEMMA InitShipperTypes == SInit => ShipperTypes
BY ShipperAssumption, EmptySeq DEF SInit, ShipperTypes

LEMMA StepTypes == ShipperTypes /\ [SNext]_lvars => ShipperTypes'
<1> SUFFICES ASSUME ShipperTypes, [SNext]_lvars PROVE ShipperTypes'
  OBVIOUS
<1> USE ShipperAssumption
<1>0. /\ Len(queue) \in Nat /\ Len(batch) \in Nat
      /\ <<>> \in Seq(Events) /\ Len(<<>>) = 0
  BY LenProperties, EmptySeq DEF ShipperTypes
<1>1. CASE StartPusher \/ OutOfTime \/ Close \/ UNCHANGED lvars
  BY <1>1 DEF StartPusher, OutOfTime, Close, lvars, ShipperTypes
<1>2. CASE \E stop \in BOOLEAN : Wakened(stop)
  BY <1>2 DEF Wakened, ShipperTypes
<1>3. ASSUME NEW e \in Events, Emit(e) PROVE ShipperTypes'
  <2>1. CASE CloseCalled \/ Len(queue) >= QueueSize
    BY <1>3, <2>1 DEF Emit, ShipperTypes
  <2>2. CASE ~(CloseCalled \/ Len(queue) >= QueueSize)
    <3>1. queue' = Append(queue, e) /\ UNCHANGED <<batch, posted, dropped>>
      BY <1>3, <2>2 DEF Emit
    <3>2. Append(queue, e) \in Seq(Events) /\ Len(Append(queue, e)) = Len(queue) + 1
      BY AppendProperties DEF ShipperTypes
    <3>3. Len(queue) + 1 <= QueueSize
      BY <1>0, <2>2
    <3> QED BY <3>1, <3>2, <3>3 DEF ShipperTypes
  <2> QED BY <2>1, <2>2
<1>4. CASE TakeBatch
  <2>1. CASE queue = <<>>
    BY <1>4, <2>1 DEF TakeBatch, DrainOver, ShipperTypes
  <2>2. CASE queue # <<>>
    <3> DEFINE n == IF Len(queue) < BatchSize THEN Len(queue) ELSE BatchSize
    <3>1. /\ n \in 1..Len(queue) /\ n <= BatchSize
      BY <1>0, <2>2, EmptySeq DEF ShipperTypes
    <3>2. /\ batch' = SubSeq(queue, 1, n) /\ queue' = SubSeq(queue, n + 1, Len(queue))
          /\ UNCHANGED <<posted, dropped>>
      BY <1>4, <2>2 DEF TakeBatch
    <3> HIDE DEF n
    <3>3. batch' \in Seq(Events) /\ Len(batch') = n
      <4>1. \A i \in 1..n : queue[i] \in Events
        BY <1>0, <3>1, ElementOfSeq DEF ShipperTypes
      <4> QED BY <1>0, <3>1, <3>2, <4>1, SubSeqProperties
    <3>4. queue' \in Seq(Events) /\ Len(queue') <= Len(queue)
      <4>1. \A i \in n + 1..Len(queue) : queue[i] \in Events
        BY <1>0, <3>1, ElementOfSeq DEF ShipperTypes
      <4> QED BY <1>0, <3>1, <3>2, <4>1, SubSeqProperties
    <3> QED BY <1>0, <3>1, <3>2, <3>3, <3>4 DEF ShipperTypes
  <2> QED BY <2>1, <2>2
<1>5. ASSUME NEW ok \in BOOLEAN, PostBatch(ok) PROVE ShipperTypes'
  <2>1. posted \o batch \in Seq(Events)
    BY ConcatProperties DEF ShipperTypes
  <2>2. InSeq(batch) \subseteq Events
    BY ElementOfSeq DEF ShipperTypes, InSeq
  <2> QED BY <1>0, <1>5, <2>1, <2>2 DEF PostBatch, ShipperTypes
<1>6. CASE CloseReturns
  <2>1. InSeq(queue) \subseteq Events
    BY ElementOfSeq DEF ShipperTypes, InSeq
  <2> QED BY <1>0, <1>6, <2>1 DEF CloseReturns, ShipperTypes
<1> QED BY <1>1, <1>2, <1>3, <1>4, <1>5, <1>6 DEF SNext, PusherStep

\* The queue and the batch under way stay within their bounds (Emit, drain), and
\* nothing but events is posted or dropped, whatever the sizes.
THEOREM TypesHold == SSpec => []ShipperTypes
BY InitShipperTypes, StepTypes, PTL DEF SSpec

LEMMA InitImplements == SInit => Ledger!LInit
<1>1. <<>> \o <<>> = <<>>
  BY EmptySeq, ConcatEmptySeq
<1> QED BY <1>1 DEF SInit, Ledger!LInit

\* Every step of the exporter is a step of the ledger, or none.
LEMMA StepImplements ==
    ShipperTypes /\ [SNext]_lvars => [Ledger!LNext]_<<batch \o queue, posted, dropped>>
<1> DEFINE waiting == batch \o queue
           Stays == UNCHANGED <<waiting, posted, dropped>>
<1> SUFFICES ASSUME ShipperTypes, [SNext]_lvars PROVE Ledger!LNext \/ Stays
  OBVIOUS
<1> USE ShipperAssumption
<1>0. /\ Len(queue) \in Nat /\ Len(batch) \in Nat /\ waiting \in Seq(Events)
      /\ Len(waiting) = Len(batch) + Len(queue)
      /\ queue \in Seq(Events) /\ batch \in Seq(Events) /\ <<>> \in Seq(Events)
  BY LenProperties, ConcatProperties, EmptySeq DEF ShipperTypes
<1>e. \A q : Ledger!Elements(q) = InSeq(q)
  BY DEF Ledger!Elements, InSeq
<1>s. /\ SubSeq(waiting, 1, Len(batch)) = batch
      /\ SubSeq(waiting, Len(batch) + 1, Len(waiting)) = queue
  BY <1>0, SplitConcat
<1>1. CASE StartPusher \/ OutOfTime \/ Close \/ UNCHANGED lvars
  BY <1>1 DEF StartPusher, OutOfTime, Close, lvars
<1>2. CASE \E stop \in BOOLEAN : Wakened(stop)
  BY <1>2 DEF Wakened
<1>3. ASSUME NEW e \in Events, Emit(e) PROVE Ledger!LNext
  <2>1. Ledger!New(e)
    <3>1. InSeq(waiting) = InSeq(batch) \cup InSeq(queue)
      BY <1>0, ElementsOfConcat
    <3> QED BY <1>3, <1>e, <3>1 DEF Emit, Emitted, Ledger!New
  <2>2. CASE CloseCalled \/ Len(queue) >= QueueSize
    <3>1. Ledger!Refuse(e)
      BY <1>3, <2>1, <2>2 DEF Emit, Ledger!Refuse
    <3> QED BY <3>1 DEF Ledger!LNext
  <2>3. CASE ~(CloseCalled \/ Len(queue) >= QueueSize)
    <3>1. batch' \o queue' = Append(waiting, e)
      <4>1. batch' = batch /\ queue' = Append(queue, e)
        BY <1>3, <2>3 DEF Emit
      <4>2. batch \o Append(queue, e) = Append(batch \o queue, e)
        BY <1>0, AppendToConcat
      <4> QED BY <4>1, <4>2
    <3>2. Len(waiting) < QueueSize + BatchSize
      BY <1>0, <2>3 DEF ShipperTypes
    <3>3. Ledger!Accept(e)
      BY <1>3, <2>1, <2>3, <3>1, <3>2 DEF Emit, Ledger!Accept
    <3> QED BY <3>3 DEF Ledger!LNext
  <2> QED BY <2>2, <2>3
<1>4. CASE TakeBatch
  <2>1. CASE queue = <<>>
    BY <1>4, <2>1 DEF TakeBatch
  <2>2. CASE queue # <<>>
    <3> DEFINE n == IF Len(queue) < BatchSize THEN Len(queue) ELSE BatchSize
    <3>1. n \in 0..Len(queue)
      BY <1>0
    <3>2. /\ batch = <<>> /\ batch' = SubSeq(queue, 1, n)
          /\ queue' = SubSeq(queue, n + 1, Len(queue)) /\ UNCHANGED <<posted, dropped>>
      BY <1>4, <2>2 DEF TakeBatch
    <3> HIDE DEF n
    <3>3. batch' \o queue' = SubSeq(queue, 1, Len(queue))
      <4>1. 1 \in 1..Len(queue) + 1 /\ n \in 1 - 1..Len(queue) /\ Len(queue) \in n..Len(queue)
        BY <1>0, <3>1
      <4>2. SubSeq(queue, 1, n) \o SubSeq(queue, n + 1, Len(queue)) = SubSeq(queue, 1, Len(queue))
        BY <1>0, <4>1, ConcatAdjacentSubSeq
      <4> QED BY <3>2, <4>2
    <3>4. waiting = queue
      BY <1>0, <3>2, ConcatEmptySeq
    <3>5. SubSeq(queue, 1, Len(queue)) = queue
      BY <1>0, SubSeqFull
    <3> QED BY <3>2, <3>3, <3>4, <3>5
  <2> QED BY <2>1, <2>2
<1>5. ASSUME NEW ok \in BOOLEAN, PostBatch(ok) PROVE Ledger!LNext
  <2>1. Len(batch) \in 1..Len(waiting)
    BY <1>0, <1>5, EmptySeq DEF PostBatch
  <2>2. batch' \o queue' = queue
    BY <1>0, <1>5, ConcatEmptySeq DEF PostBatch
  <2>3. CASE ok
    <3>1. Ledger!Ship(Len(batch))
      BY <1>5, <1>s, <2>2, <2>3 DEF PostBatch, Ledger!Ship, Ledger!Upto, Ledger!After
    <3> QED BY <2>1, <3>1 DEF Ledger!LNext
  <2>4. CASE ~ok
    <3>1. Ledger!Lose(Len(batch))
      BY <1>5, <1>e, <1>s, <2>2, <2>4 DEF PostBatch, Ledger!Lose, Ledger!Upto, Ledger!After
    <3> QED BY <2>1, <3>1 DEF Ledger!LNext
  <2> QED BY <2>3, <2>4
<1>6. CASE CloseReturns
  <2>1. Len(batch) \in 0..Len(waiting)
    BY <1>0
  <2>2. batch' \o queue' = batch
    BY <1>0, <1>6, ConcatEmptySeq DEF CloseReturns
  <2>3. Ledger!GiveUp(Len(batch))
    BY <1>6, <1>e, <1>s, <2>2 DEF CloseReturns, Ledger!GiveUp, Ledger!Upto, Ledger!After
  <2> QED BY <2>1, <2>3 DEF Ledger!LNext
<1> QED BY <1>1, <1>2, <1>3, <1>4, <1>5, <1>6 DEF SNext, PusherStep

\* The exporter (Emit, drain, post, Close) is a bounded queue that ships in
\* order and counts what it does not ship, whatever the sizes.
THEOREM ShipsOnceHolds == SSpec => ShipsOnce
<1>1. SInit /\ [][SNext]_lvars => Ledger!LSpec
  BY InitImplements, StepImplements, InitShipperTypes, StepTypes, PTL DEF Ledger!LSpec
<1> QED BY <1>1 DEF SSpec, ShipsOnce

-----------------------------------------------------------------------------
(* What follows for a single event.                                        *)

LEMMA DistinctConcat ==
    ASSUME NEW S, NEW s \in Seq(S), NEW t \in Seq(S)
    PROVE  Distinct(s \o t) <=>
               Distinct(s) /\ Distinct(t) /\ InSeq(s) \cap InSeq(t) = {}
<1> DEFINE u == s \o t
<1>1. /\ Len(s) \in Nat /\ Len(t) \in Nat /\ Len(u) = Len(s) + Len(t)
      /\ \A i \in 1..Len(s) + Len(t) : u[i] = IF i <= Len(s) THEN s[i] ELSE t[i - Len(s)]
  BY ConcatProperties, LenProperties
<1>2. \A i \in 1..Len(s) : i \in 1..Len(u) /\ u[i] = s[i]
  BY <1>1
<1>3. \A i \in 1..Len(t) : Len(s) + i \in 1..Len(u) /\ u[Len(s) + i] = t[i]
  <2> SUFFICES ASSUME NEW i \in 1..Len(t)
               PROVE  Len(s) + i \in 1..Len(u) /\ u[Len(s) + i] = t[i]
    OBVIOUS
  <2>1. Len(s) + i \in 1..Len(s) + Len(t) /\ ~(Len(s) + i <= Len(s)) /\ Len(s) + i - Len(s) = i
    BY <1>1
  <2> QED BY <1>1, <2>1
<1>4. \A i \in 1..Len(u) : \/ i \in 1..Len(s)
                          \/ \E j \in 1..Len(t) : i = Len(s) + j
  <2> SUFFICES ASSUME NEW i \in 1..Len(u), i \notin 1..Len(s)
               PROVE  \E j \in 1..Len(t) : i = Len(s) + j
    OBVIOUS
  <2>1. i - Len(s) \in 1..Len(t) /\ i = Len(s) + (i - Len(s))
    BY <1>1
  <2> QED BY <2>1
<1> HIDE DEF u
<1>5. ASSUME Distinct(u)
      PROVE  Distinct(s) /\ Distinct(t) /\ InSeq(s) \cap InSeq(t) = {}
  <2>1. Distinct(s)
    BY <1>2, <1>5 DEF Distinct
  <2>2. Distinct(t)
    <3> SUFFICES ASSUME NEW i \in 1..Len(t), NEW j \in 1..Len(t), t[i] = t[j]
                 PROVE  i = j
      BY DEF Distinct
    <3>1. Len(s) + i = Len(s) + j
      BY <1>3, <1>5 DEF Distinct
    <3> QED BY <1>1, <3>1
  <2>3. \A i \in 1..Len(s), j \in 1..Len(t) : s[i] # t[j]
    <3> SUFFICES ASSUME NEW i \in 1..Len(s), NEW j \in 1..Len(t), s[i] = t[j]
                 PROVE  FALSE
      OBVIOUS
    <3>1. i = Len(s) + j
      BY <1>2, <1>3, <1>5 DEF Distinct
    <3> QED BY <1>1, <3>1
  <2> QED BY <2>1, <2>2, <2>3 DEF InSeq
<1>6. ASSUME Distinct(s), Distinct(t), InSeq(s) \cap InSeq(t) = {}
      PROVE  Distinct(u)
  <2>1. \A i \in 1..Len(s), j \in 1..Len(t) : s[i] # t[j]
    BY <1>6 DEF InSeq
  <2> SUFFICES ASSUME NEW i \in 1..Len(u), NEW j \in 1..Len(u), u[i] = u[j]
               PROVE  i = j
    BY DEF Distinct
  <2>2. CASE i \in 1..Len(s) /\ j \in 1..Len(s)
    BY <1>2, <1>6, <2>2 DEF Distinct
  <2>3. CASE i \in 1..Len(s) /\ j \notin 1..Len(s)
    BY <1>2, <1>3, <1>4, <2>1, <2>3, SMTT(30), ZenonT(60), Z3T(60)
  <2>4. CASE i \notin 1..Len(s) /\ j \in 1..Len(s)
    BY <1>2, <1>3, <1>4, <2>1, <2>4, SMTT(30), ZenonT(60), Z3T(60)
  <2>5. CASE i \notin 1..Len(s) /\ j \notin 1..Len(s)
    <3>1. PICK k \in 1..Len(t) : i = Len(s) + k
      BY <1>4, <2>5
    <3>2. PICK l \in 1..Len(t) : j = Len(s) + l
      BY <1>4, <2>5
    <3>3. k = l
      BY <1>3, <1>6, <3>1, <3>2 DEF Distinct
    <3> QED BY <3>1, <3>2, <3>3
  <2> QED BY <2>2, <2>3, <2>4, <2>5
<1> QED BY <1>5, <1>6 DEF u

\* A sequence is its first n elements and the rest.
LEMMA CutInTwo ==
    ASSUME NEW S, NEW q \in Seq(S), NEW n \in 0..Len(q)
    PROVE  /\ SubSeq(q, 1, n) \in Seq(S) /\ SubSeq(q, n + 1, Len(q)) \in Seq(S)
           /\ SubSeq(q, 1, n) \o SubSeq(q, n + 1, Len(q)) = q
<1>1. Len(q) \in Nat /\ \A i \in 1..Len(q) : q[i] \in S
  BY LenProperties, ElementOfSeq
<1>2. SubSeq(q, 1, n) \in Seq(S)
  <2>1. \A i \in 1..n : q[i] \in S
    BY <1>1
  <2> QED BY <1>1, <2>1, SubSeqProperties
<1>3. SubSeq(q, n + 1, Len(q)) \in Seq(S)
  <2>1. \A i \in n + 1..Len(q) : q[i] \in S
    BY <1>1
  <2> QED BY <1>1, <2>1, SubSeqProperties
<1>4. 1 \in 1..Len(q) + 1 /\ n \in 1 - 1..Len(q) /\ Len(q) \in n..Len(q)
  BY <1>1
<1>5. SubSeq(q, 1, n) \o SubSeq(q, n + 1, Len(q)) = SubSeq(q, 1, Len(q))
  BY <1>4, ConcatAdjacentSubSeq
<1> QED BY <1>2, <1>3, <1>5, SubSeqFull

\* What a step of the ledger keeps: every event is in one place, once.
Backlog == batch \o queue
OnePlace == /\ Distinct(posted) /\ Distinct(Backlog)
            /\ InSeq(posted) \cap InSeq(Backlog) = {}
            /\ (InSeq(posted) \cup InSeq(Backlog)) \cap dropped = {}

LEMMA InitOnePlace == SInit => OnePlace
<1>1. <<>> \o <<>> = <<>> /\ Len(<<>>) = 0
  BY EmptySeq, ConcatEmptySeq
<1> QED BY <1>1 DEF SInit, OnePlace, Backlog, Distinct, InSeq

LEMMA StepOnePlace ==
    ShipperTypes /\ OnePlace /\ [Ledger!LNext]_<<batch \o queue, posted, dropped>> => OnePlace'
<1> SUFFICES ASSUME ShipperTypes, OnePlace, Ledger!LNext \/ UNCHANGED <<Backlog, posted, dropped>>
             PROVE  OnePlace'
  BY DEF Backlog
<1>0. Backlog \in Seq(Events) /\ posted \in Seq(Events)
  BY ConcatProperties DEF Backlog, ShipperTypes
<1>e. \A q : Ledger!Elements(q) = InSeq(q)
  BY DEF Ledger!Elements, InSeq
<1>1. ASSUME NEW e \in Events, Ledger!Accept(e) PROVE OnePlace'
  <2>1. /\ e \notin InSeq(Backlog) \cup InSeq(posted) \cup dropped
        /\ Backlog' = Append(Backlog, e) /\ UNCHANGED <<posted, dropped>>
    BY <1>1, <1>e DEF Ledger!Accept, Ledger!New, Backlog
  <2>2. Append(Backlog, e) = Backlog \o <<e>> /\ <<e>> \in Seq(Events)
    BY <1>0, AppendIsConcat
  <2>3. Len(<<e>>) = 1 /\ InSeq(<<e>>) = {e} /\ Distinct(<<e>>)
    BY DEF InSeq, Distinct
  <2>4. InSeq(Backlog) \cap InSeq(<<e>>) = {} /\ Distinct(Backlog)
    BY <2>1, <2>3 DEF OnePlace
  <2>5. Distinct(Backlog \o <<e>>)
    BY <1>0, <2>2, <2>3, <2>4, DistinctConcat
  <2>6. InSeq(Backlog \o <<e>>) = InSeq(Backlog) \cup {e}
    <3>1. \A t \in Seq(Events) : InSeq(Backlog \o t) = InSeq(Backlog) \cup InSeq(t)
      BY <1>0, ElementsOfConcat
    <3>2. <<e>> \in Seq(Events)
      BY <2>2
    <3>3. InSeq(Backlog \o <<e>>) = InSeq(Backlog) \cup InSeq(<<e>>)
      BY <3>1, <3>2
    <3> QED BY <2>3, <3>3
  <2>7. Distinct(Backlog') /\ InSeq(Backlog') = InSeq(Backlog) \cup {e}
    BY <2>1, <2>2, <2>5, <2>6
  <2> QED BY <2>1, <2>7 DEF OnePlace
<1>2. ASSUME NEW e \in Events, Ledger!Refuse(e) PROVE OnePlace'
  <2>1. /\ e \notin InSeq(Backlog) \cup InSeq(posted)
        /\ Backlog' = Backlog /\ posted' = posted /\ dropped' = dropped \cup {e}
    BY <1>2, <1>e DEF Ledger!Refuse, Ledger!New, Backlog
  <2> QED BY <2>1 DEF OnePlace
<1>3. ASSUME NEW n \in 0..Len(Backlog),
             \/ Ledger!Ship(n)
             \/ Ledger!Lose(n)
             \/ Ledger!GiveUp(n)
      PROVE  OnePlace'
  <2> DEFINE a == SubSeq(Backlog, 1, n)
             b == SubSeq(Backlog, n + 1, Len(Backlog))
  <2>1. a \in Seq(Events) /\ b \in Seq(Events) /\ a \o b = Backlog
    BY <1>0, CutInTwo
  <2>2. /\ Distinct(a) /\ Distinct(b) /\ InSeq(a) \cap InSeq(b) = {}
        /\ InSeq(Backlog) = InSeq(a) \cup InSeq(b)
    <3> HIDE DEF a, b
    <3>1. Distinct(a \o b) /\ InSeq(a \o b) = InSeq(Backlog)
      BY <2>1 DEF OnePlace
    <3>2. Distinct(a) /\ Distinct(b) /\ InSeq(a) \cap InSeq(b) = {}
      BY <2>1, <3>1, DistinctConcat
    <3>3. InSeq(a \o b) = InSeq(a) \cup InSeq(b)
      BY <2>1, ElementsOfConcat, SMTT(30), ZenonT(60), Z3T(60)
    <3> QED BY <3>1, <3>2, <3>3
  <2>3. CASE Ledger!Ship(n)
    <3>1. posted' = posted \o a /\ Backlog' = b /\ dropped' = dropped
      BY <2>3 DEF Ledger!Ship, Ledger!Upto, Ledger!After, Backlog
    <3> HIDE DEF a, b
    <3>2. Distinct(posted') /\ InSeq(posted') = InSeq(posted) \cup InSeq(a)
      BY <1>0, <2>1, <2>2, <3>1, DistinctConcat, ElementsOfConcat DEF OnePlace
    <3> QED BY <2>2, <3>1, <3>2 DEF OnePlace
  <2>4. CASE Ledger!Lose(n)
    <3>1. posted' = posted /\ Backlog' = b /\ dropped' = dropped \cup InSeq(a)
      BY <1>e, <2>4 DEF Ledger!Lose, Ledger!Upto, Ledger!After, Backlog
    <3> HIDE DEF a, b
    <3> QED BY <2>2, <3>1 DEF OnePlace
  <2>5. CASE Ledger!GiveUp(n)
    <3>1. posted' = posted /\ Backlog' = a /\ dropped' = dropped \cup InSeq(b)
      BY <1>e, <2>5 DEF Ledger!GiveUp, Ledger!Upto, Ledger!After, Backlog
    <3> HIDE DEF a, b
    <3> QED BY <2>2, <3>1 DEF OnePlace
  <2> QED BY <1>3, <2>3, <2>4, <2>5
<1>4. CASE UNCHANGED <<Backlog, posted, dropped>>
  BY <1>4 DEF OnePlace
<1>5. CASE Ledger!LNext
  <2>1. Len(Backlog) \in Nat
    BY <1>0, LenProperties
  <2> QED BY <1>1, <1>2, <1>3, <1>5, <2>1 DEF Ledger!LNext, Backlog
<1> QED BY <1>4, <1>5

\* The exporter (drain, post, Close) posts no event twice, and none that it
\* counts as dropped, whatever the sizes.
THEOREM NoneTwiceHolds == SSpec => []NoneTwice
<1>1. OnePlace => NoneTwice
  BY DEF OnePlace, NoneTwice
<1>2. ShipperTypes /\ OnePlace /\ [SNext]_lvars => OnePlace'
  BY StepImplements, StepOnePlace
<1> QED BY InitShipperTypes, StepTypes, InitOnePlace, <1>1, <1>2, PTL DEF SSpec


(*************************************************************************)
(* Catalog: a call through an endpoint runs where the endpoint reaches,   *)
(* on the machine the listing named, for any path, any configuration of   *)
(* the clients and any names.  An endpoint's target is a fold over its    *)
(* path, so first: what is defined from 0 upwards.                        *)
(*************************************************************************)

LEMMA LeastIn ==
    ASSUME NEW T, T \subseteq Nat, T # {}
    PROVE  \E x \in T : \A y \in T : x <= y
<1> DEFINE Less == {q \in Nat \X Nat : q[1] < q[2]}
<1>1. IsWellFoundedOn(Less, Nat)
  BY NatLessThanWellFounded DEF OpToRel
<1>2. PICK x \in T : \A y \in T : ~ (<<y, x>> \in Less)
  BY <1>1, WFMin
<1>3. ASSUME NEW y \in T PROVE x <= y
  <2>1. <<y, x>> \in Nat \X Nat
    OBVIOUS
  <2>2. ~ (y < x)
    BY <1>2, <2>1
  <2> QED BY <2>2
<1> QED BY <1>3

\* A function that is defined from 0 upwards exists, whatever it computes.
IsUpto(f, A, base, step, n) ==
    /\ f \in [0..n -> A]
    /\ f = [i \in 0..n |-> IF i = 0 THEN base ELSE step[<<f[i - 1], i>>]]

LEMMA Recursion ==
    ASSUME NEW A, NEW base \in A, NEW n \in Nat, NEW step \in [A \X Nat -> A]
    PROVE  \E f : IsUpto(f, A, base, step, n)
<1> DEFINE Upto(f, k) == IsUpto(f, A, base, step, k)
           T == {k \in Nat : ~ \E f : Upto(f, k)}
<1>1. SUFFICES T = {}
  <2>1. ASSUME T = {} PROVE \E f : Upto(f, n)
    BY <2>1
  <2> QED BY <2>1
<1>2. SUFFICES ASSUME T # {} PROVE FALSE
  OBVIOUS
<1>3. PICK k \in T : \A j \in T : k <= j
  BY <1>2, LeastIn
<1>4. k # 0
  <2> SUFFICES ASSUME k = 0 PROVE FALSE
    OBVIOUS
  <2>1. Upto([i \in 0..0 |-> base], 0)
    BY DEF IsUpto
  <2> QED BY <1>3, <2>1
<1>5. k \in Nat /\ k - 1 \in Nat /\ ~(k <= k - 1)
  BY <1>3, <1>4
<1>6. PICK f : Upto(f, k - 1)
  BY <1>3, <1>5
<1>f. /\ f \in [0..k - 1 -> A]
      /\ f = [i \in 0..k - 1 |-> IF i = 0 THEN base ELSE step[<<f[i - 1], i>>]]
  BY <1>6 DEF IsUpto
<1> DEFINE g == [i \in 0..k |-> IF i = k THEN step[<<f[k - 1], k>>] ELSE f[i]]
<1>7. step[<<f[k - 1], k>>] \in A
  <2>1. f[k - 1] \in A
    BY <1>5, <1>f
  <2>2. <<f[k - 1], k>> \in A \X Nat
    BY <1>5, <2>1
  <2> QED BY <2>2
<1>8. g \in [0..k -> A]
  BY <1>5, <1>f, <1>7
<1>9. ASSUME NEW i \in 0..k
      PROVE  g[i] = IF i = 0 THEN base ELSE step[<<g[i - 1], i>>]
  <2>1. CASE i = 0
    BY <1>4, <1>5, <1>f, <2>1
  <2>2. CASE i = k
    <3>1. g[k] = step[<<f[k - 1], k>>] /\ g[k - 1] = f[k - 1]
      BY <1>5
    <3> QED BY <1>4, <2>2, <3>1
  <2>3. CASE i # 0 /\ i # k
    <3>1. i \in 0..k - 1 /\ i - 1 \in 0..k /\ i - 1 # k
      BY <1>5, <2>3
    <3>2. g[i] = f[i] /\ g[i - 1] = f[i - 1]
      BY <2>3, <3>1
    <3> QED BY <1>f, <2>3, <3>1, <3>2
  <2> QED BY <2>1, <2>2, <2>3
<1>10. Upto(g, k)
  <2>1. g = [i \in 0..k |-> IF i = 0 THEN base ELSE step[<<g[i - 1], i>>]]
    <3> HIDE DEF g
    <3>1. g = [i \in 0..k |-> g[i]]
      BY <1>8
    <3> QED BY <1>9, <3>1
  <2> QED BY <1>8, <2>1 DEF IsUpto
<1> QED
  <2> HIDE DEF g
  <2> QED BY <1>3, <1>10

\* What holds at 0 and is passed on from one to the next holds everywhere.
LEMMA PassedOn ==
    ASSUME NEW A, NEW n \in Nat, NEW f, f[0] \in A,
           \A i \in 1..n : f[i - 1] \in A => f[i] \in A
    PROVE  \A i \in 0..n : f[i] \in A
<1> DEFINE T == {i \in 0..n : f[i] \notin A}
<1>1. SUFFICES ASSUME T # {} PROVE FALSE
  OBVIOUS
<1>2. PICK i \in T : \A j \in T : i <= j
  <2>1. T \subseteq Nat
    OBVIOUS
  <2> QED BY <1>1, <2>1, LeastIn
<1>3. i \in 1..n /\ i - 1 \in 0..n /\ ~(i <= i - 1)
  BY <1>2
<1>4. f[i - 1] \in A
  BY <1>2, <1>3
<1> QED BY <1>2, <1>3, <1>4

\* A target of the host l, with a project and a server or without.
At(scope, l, project, server) ==
    [scope |-> scope, label |-> <<l>>, project |-> project, server |-> server]
Targets(l, V) == {NotFound, At("host", l, None, None)}
                 \cup {At("project", l, <<v>>, None) : v \in V}
                 \cup {At("server", l, None, <<v>>) : v \in V}
                 \cup {At("project_server", l, <<v[1]>>, <<v[2]>>) : v \in V \X V}

\* A pair narrows the target or there is none.
LEMMA NarrowStays ==
    ASSUME NEW l, NEW V, NEW t \in Targets(l, V), NEW pair, pair[2] \in V
    PROVE  Narrow(t, pair) \in Targets(l, V)
<1>1. CASE t.scope = "host" /\ pair[1] = "project"
  <2>1. t = At("host", l, None, None)
    BY <1>1 DEF Targets, At, NotFound, Reach
  <2>2. Narrow(t, pair) = At("project", l, <<pair[2]>>, None)
    BY <1>1, <2>1 DEF Narrow, At
  <2> QED BY <2>2 DEF Targets
<1>2. CASE t.scope = "host" /\ pair[1] = "server"
  <2>1. t = At("host", l, None, None)
    BY <1>2 DEF Targets, At, NotFound, Reach
  <2>2. Narrow(t, pair) = At("server", l, None, <<pair[2]>>)
    BY <1>2, <2>1 DEF Narrow, At
  <2> QED BY <2>2 DEF Targets
<1>3. CASE t.scope = "project" /\ pair[1] = "server"
  <2>1. PICK v \in V : t = At("project", l, <<v>>, None)
    BY <1>3 DEF Targets, At, NotFound, Reach
  <2>2. Narrow(t, pair) = At("project_server", l, <<v>>, <<pair[2]>>)
    BY <1>3, <2>1 DEF Narrow, At
  <2>3. \E w \in V \X V : Narrow(t, pair) = At("project_server", l, <<w[1]>>, <<w[2]>>)
    <3>1. <<v, pair[2]>> \in V \X V /\ <<v, pair[2]>>[1] = v /\ <<v, pair[2]>>[2] = pair[2]
      OBVIOUS
    <3> QED BY <2>2, <3>1
  <2> QED BY <2>3 DEF Targets
<1>4. CASE /\ ~(t.scope = "host" /\ pair[1] \in {"project", "server"})
           /\ ~(t.scope = "project" /\ pair[1] = "server")
  BY <1>4 DEF Narrow, Targets
<1> QED BY <1>1, <1>2, <1>3, <1>4

\* parseTarget: a path that is served reaches all, or what its pairs say.
LEMMA TargetReaches ==
    ASSUME CatalogAssumption, NEW p \in Paths, Target(p) # NotFound
    PROVE  \/ Target(p) = [scope |-> "all", label |-> None, project |-> None, server |-> None]
           \/ \E V : Target(p) \in Targets(p[1], V)
<1>1. CASE p = None
  BY <1>1 DEF Target, Reach
<1>2. CASE p # None
  <2> DEFINE n == Len(p[2])
             V == {p[2][i][2] : i \in 1..n}
             A == Targets(p[1], V)
             base == Reach("host", <<p[1]>>)
             step == [x \in A \X Nat |->
                        IF x[2] \in 1..n THEN Narrow(x[1], p[2][x[2]]) ELSE x[1]]
             upto == CHOOSE f : f = [i \in 0..n |->
                        IF i = 0 THEN base ELSE Narrow(f[i - 1], p[2][i])]
  <2>1. n \in Nat
    BY <1>2 DEF CatalogAssumption
  <2>2. base \in A
    <3>1. base = At("host", p[1], None, None)
      BY DEF Reach, At
    <3> QED BY <3>1 DEF Targets
  <2>3. step \in [A \X Nat -> A]
    <3> SUFFICES ASSUME NEW t \in A, NEW i \in 1..n PROVE Narrow(t, p[2][i]) \in A
      OBVIOUS
    <3>1. p[2][i][2] \in V
      OBVIOUS
    <3> HIDE DEF V
    <3> QED BY <3>1, NarrowStays
  <2>4. PICK f : IsUpto(f, A, base, step, n)
    <3> HIDE DEF n, A, base, step
    <3> QED BY <2>1, <2>2, <2>3, Recursion
  <2>f. /\ f \in [0..n -> A]
        /\ f = [i \in 0..n |-> IF i = 0 THEN base ELSE step[<<f[i - 1], i>>]]
    <3> HIDE DEF n, A, base, step
    <3> QED BY <2>4 DEF IsUpto
  <2>5. ASSUME NEW i \in 0..n, i # 0 PROVE step[<<f[i - 1], i>>] = Narrow(f[i - 1], p[2][i])
    <3>1. i - 1 \in 0..n /\ i \in 1..n /\ i \in Nat
      BY <2>1, <2>5
    <3>2. f[i - 1] \in A
      BY <2>f, <3>1
    <3>3. <<f[i - 1], i>> \in A \X Nat
      BY <3>1, <3>2
    <3> HIDE DEF A, n
    <3> QED BY <3>1, <3>3
  <2>6. f = [i \in 0..n |-> IF i = 0 THEN base ELSE Narrow(f[i - 1], p[2][i])]
    <3> HIDE DEF n, A, base, step
    <3> QED BY <2>f, <2>5
  <2>7. upto = [i \in 0..n |-> IF i = 0 THEN base ELSE Narrow(upto[i - 1], p[2][i])]
    <3> HIDE DEF n, A, base
    <3> QED BY <2>6
  <2>8. upto[n] \in A
    <3> HIDE DEF upto
    <3>1. upto[0] \in A
      BY <2>1, <2>2, <2>7
    <3>2. ASSUME NEW i \in 1..n, upto[i - 1] \in A PROVE upto[i] \in A
      <4>1. upto[i] = Narrow(upto[i - 1], p[2][i])
        <5>1. i \in 0..n /\ i # 0
          BY <2>1
        <5> HIDE DEF n, A, base
        <5> QED BY <2>7, <5>1
      <4>2. p[2][i][2] \in V
        OBVIOUS
      <4> HIDE DEF V
      <4> QED BY <3>2, <4>1, <4>2, NarrowStays
    <3> HIDE DEF n, A
    <3>3. n \in 0..n
      BY <2>1
    <3> QED BY <2>1, <3>1, <3>2, <3>3, PassedOn
  <2>9. Target(p) = upto[n]
    BY <1>2 DEF Target
  <2> QED BY <2>8, <2>9
<1> QED BY <1>1, <1>2
-----------------------------------------------------------------------------
(* Names.                                                                  *)

Names == {n \in Seq(Chars) : ValidName(n)}
Places == [label : Names, project : {None} \cup {<<n>> : n \in Names}, server : Names]

\* An entry of a listing at t, whatever connection it is of.
IsEntry(t, e) ==
    /\ e = [name |-> e.name, link |-> e.link, place |-> e.place, tool |-> e.tool]
    /\ e.name = Compose(t.scope, e.place, e.tool) /\ e.name # None
    /\ TargetMatches(t, e.place) /\ e.place \in Places /\ e.tool \in Seq(Chars)

LEMMA SeparatorIs ==
    Underscore \in Chars /\ NameSeparator = <<Underscore, Underscore>>
BY CatalogAssumption DEF CatalogAssumption, NameSeparator

\* A part that the first separator of a name ends.
Part(S, n) == /\ n \in Seq(S) /\ Len(n) \in Nat \ {0} /\ n[Len(n)] # Underscore
              /\ \A i \in 1..Len(n) - 1 : n[i] # Underscore \/ n[i + 1] # Underscore

LEMMA NameIsPart ==
    ASSUME NEW n \in Names, n[Len(n)] # Underscore
    PROVE  Part(Chars, n)
<1>1. n \in Seq(Chars) /\ n # <<>> /\ \A i \in 1..Len(n) - 1 : <<n[i], n[i + 1]>> # NameSeparator
  BY DEF Names, ValidName
<1>2. Len(n) \in Nat \ {0}
  BY <1>1, EmptySeq, LenProperties
<1>3. \A i \in 1..Len(n) - 1 : n[i] # Underscore \/ n[i + 1] # Underscore
  BY <1>1, SeparatorIs
<1> QED BY <1>1, <1>2, <1>3 DEF Part

\* What a name joined from a part and the rest is, character by character.
SpellsJoin(S, n, p, r) ==
    /\ n \in Seq(S) /\ Len(p) \in Nat /\ Len(r) \in Nat /\ Len(n) = Len(p) + 2 + Len(r)
    /\ \A i \in 1..Len(p) : n[i] = p[i]
    /\ n[Len(p) + 1] = Underscore /\ n[Len(p) + 2] = Underscore
    /\ \A i \in 1..Len(r) : n[Len(p) + 2 + i] = r[i]

LEMMA JoinIs ==
    ASSUME NEW S, Underscore \in S, NEW p \in Seq(S), NEW r \in Seq(S)
    PROVE  SpellsJoin(S, Join(p, r), p, r)
<1>h. PICK h : h = p \o NameSeparator
  OBVIOUS
<1>1. /\ NameSeparator \in Seq(S) /\ Len(NameSeparator) = 2
      /\ NameSeparator[1] = Underscore /\ NameSeparator[2] = Underscore
  <2>1. /\ <<Underscore, Underscore>> \in Seq(S) /\ Len(<<Underscore, Underscore>>) = 2
        /\ <<Underscore, Underscore>>[1] = Underscore /\ <<Underscore, Underscore>>[2] = Underscore
    OBVIOUS
  <2> QED BY <2>1, SeparatorIs
<1>2. Len(p) \in Nat /\ Len(r) \in Nat
  BY LenProperties
<1>3. /\ h \in Seq(S) /\ Len(h) = Len(p) + 2
      /\ \A i \in 1..(Len(p) + 2) : h[i] = IF i <= Len(p) THEN p[i] ELSE NameSeparator[i - Len(p)]
  <2>1. /\ h \in Seq(S) /\ Len(h) = Len(p) + Len(NameSeparator)
        /\ \A i \in 1..(Len(p) + Len(NameSeparator)) :
             h[i] = IF i <= Len(p) THEN p[i] ELSE NameSeparator[i - Len(p)]
    BY <1>1, <1>h, ConcatProperties
  <2> QED BY <1>1, <2>1
<1>4. h[Len(p) + 1] = Underscore /\ h[Len(p) + 2] = Underscore
  <2>1. /\ Len(p) + 1 \in 1..Len(p) + 2 /\ ~(Len(p) + 1 <= Len(p)) /\ Len(p) + 1 - Len(p) = 1
        /\ Len(p) + 2 \in 1..Len(p) + 2 /\ ~(Len(p) + 2 <= Len(p)) /\ Len(p) + 2 - Len(p) = 2
    BY <1>2
  <2> QED BY <1>1, <1>3, <2>1
<1>5. \A i \in 1..Len(p) : h[i] = p[i]
  BY <1>2, <1>3
<1>6. Join(p, r) = h \o r
  BY <1>h DEF Join
<1>7. /\ h \o r \in Seq(S) /\ Len(h \o r) = Len(h) + Len(r)
      /\ \A i \in 1..(Len(h) + Len(r)) : (h \o r)[i] = IF i <= Len(h) THEN h[i] ELSE r[i - Len(h)]
  <2>1. h \in Seq(S) /\ r \in Seq(S)
    BY <1>3
  <2> QED BY ONLY <2>1, ConcatProperties
<1>8. \A i \in 1..Len(h) : (h \o r)[i] = h[i]
  BY <1>2, <1>3, <1>7
<1>9. \A i \in 1..Len(r) : (h \o r)[Len(h) + i] = r[i]
  <2> SUFFICES ASSUME NEW i \in 1..Len(r) PROVE (h \o r)[Len(h) + i] = r[i]
    OBVIOUS
  <2>1. Len(h) + i \in 1..Len(h) + Len(r) /\ ~(Len(h) + i <= Len(h)) /\ Len(h) + i - Len(h) = i
    BY <1>2, <1>3
  <2> QED BY <1>7, <2>1
<1>10. /\ Len(p) + 1 \in 1..Len(h) /\ Len(p) + 2 \in 1..Len(h)
       /\ \A i \in 1..Len(p) : i \in 1..Len(h)
  BY <1>2, <1>3
<1> QED BY <1>2, <1>3, <1>4, <1>5, <1>6, <1>7, <1>8, <1>9, <1>10 DEF SpellsJoin

\* The shorter of two parts of one name would end the longer one.
LEMMA NotShorter ==
    ASSUME NEW S, Underscore \in S, NEW p, NEW q, Part(S, p), Part(S, q),
           NEW r \in Seq(S), NEW z \in Seq(S), Join(p, r) = Join(q, z)
    PROVE  ~(Len(p) < Len(q))
<1> SUFFICES ASSUME Len(p) < Len(q) PROVE FALSE
  OBVIOUS
<1>1. p \in Seq(S) /\ q \in Seq(S) /\ Len(p) \in Nat \ {0} /\ Len(q) \in Nat \ {0}
  BY DEF Part
<1>2. PICK n : n = Join(p, r) /\ n = Join(q, z)
  OBVIOUS
<1>3. SpellsJoin(S, n, p, r) /\ SpellsJoin(S, n, q, z)
  BY <1>1, <1>2, JoinIs
<1>4. q[Len(p) + 1] = Underscore
  <2>1. Len(p) + 1 \in 1..Len(q)
    BY <1>1
  <2> QED BY <1>3, <2>1 DEF SpellsJoin
<1>5. CASE Len(p) + 2 <= Len(q)
  <2>1. Len(p) + 2 \in 1..Len(q) /\ Len(p) + 1 \in 1..Len(q) - 1 /\ Len(p) + 1 + 1 = Len(p) + 2
    BY <1>1, <1>5
  <2>2. q[Len(p) + 2] = Underscore
    BY <1>3, <2>1 DEF SpellsJoin
  <2> QED BY <1>4, <2>1, <2>2 DEF Part
<1>6. CASE Len(p) + 1 = Len(q)
  BY <1>4, <1>6 DEF Part
<1> QED BY <1>1, <1>5, <1>6

\* So a name tells its first part and its rest.
LEMMA JoinTells ==
    ASSUME NEW S, Underscore \in S, NEW p, NEW q, Part(S, p), Part(S, q),
           NEW r \in Seq(S), NEW z \in Seq(S), Join(p, r) = Join(q, z)
    PROVE  p = q /\ r = z
<1>1. p \in Seq(S) /\ q \in Seq(S) /\ Len(p) \in Nat /\ Len(q) \in Nat
  BY DEF Part
<1>2. ~(Len(p) < Len(q)) /\ ~(Len(q) < Len(p))
  BY NotShorter
<1>3. Len(p) = Len(q)
  BY <1>1, <1>2
<1>4. PICK n : n = Join(p, r) /\ n = Join(q, z)
  OBVIOUS
<1>5. SpellsJoin(S, n, p, r) /\ SpellsJoin(S, n, q, z)
  BY <1>1, <1>4, JoinIs
<1>6. p = q
  <2>1. \A i \in 1..Len(p) : p[i] = q[i]
    BY <1>3, <1>5 DEF SpellsJoin
  <2> QED BY <1>1, <1>3, <2>1, SeqEqual
<1>7. r = z
  <2>1. Len(r) = Len(z)
    BY <1>3, <1>5 DEF SpellsJoin
  <2>2. \A i \in 1..Len(r) : r[i] = z[i]
    BY <1>3, <1>5, <2>1 DEF SpellsJoin
  <2> QED BY <2>1, <2>2, SeqEqual
<1> QED BY <1>6, <1>7

\* What is behind the label: the server and the tool, and a project before them
\* or none.
Behind(place, tool) == IF place.project = None THEN Join(place.server, tool)
                       ELSE Join(place.project[1], Join(place.server, tool))
Apart(a, b) == (a.project = None) # (b.project = None)

LEMMA BehindIs ==
    ASSUME NEW a \in Places, NEW tool \in Seq(Chars)
    PROVE  /\ a.label \in Seq(Chars) /\ a.server \in Seq(Chars)
           /\ a.project # None => a.project[1] \in Seq(Chars)
           /\ Join(a.server, tool) \in Seq(Chars) /\ Behind(a, tool) \in Seq(Chars)
<1>1. a.label \in Names /\ a.server \in Names /\ (a.project # None => a.project[1] \in Names)
  BY DEF Places
<1>2. a.label \in Seq(Chars) /\ a.server \in Seq(Chars) /\ (a.project # None => a.project[1] \in Seq(Chars))
  BY <1>1 DEF Names
<1>3. Join(a.server, tool) \in Seq(Chars)
  BY <1>2, JoinIs, SeparatorIs DEF SpellsJoin
<1>4. a.project # None => Join(a.project[1], Join(a.server, tool)) \in Seq(Chars)
  BY <1>2, <1>3, JoinIs, SeparatorIs DEF SpellsJoin
<1> QED BY <1>2, <1>3, <1>4 DEF Behind

\* The parts of a place no name blurs.
LEMMA PlaceParts ==
    ASSUME NEW a \in Places, ~Blurred(a)
    PROVE  /\ Part(Chars, a.label) /\ Part(Chars, a.server)
           /\ a.project # None => Part(Chars, a.project[1])
<1>1. a.label \in Names /\ a.server \in Names /\ (a.project # None => a.project[1] \in Names)
  BY DEF Places
<1> QED BY <1>1, NameIsPart, Zenon DEF Blurred

LEMMA BehindTells ==
    ASSUME NEW a \in Places, NEW b \in Places, ~Blurred(a), ~Blurred(b),
           NEW y \in Seq(Chars), NEW z \in Seq(Chars), Behind(a, y) = Behind(b, z)
    PROVE  (a.server = b.server /\ y = z) \/ Apart(a, b)
<1>1. /\ Part(Chars, a.server) /\ Part(Chars, b.server)
      /\ a.project # None => Part(Chars, a.project[1])
      /\ b.project # None => Part(Chars, b.project[1])
  BY PlaceParts
<1>2. Join(a.server, y) \in Seq(Chars) /\ Join(b.server, z) \in Seq(Chars)
  BY BehindIs
<1>3. CASE a.project = None /\ b.project = None
  <2>1. Join(a.server, y) = Join(b.server, z)
    BY <1>3 DEF Behind
  <2> QED BY <1>1, <2>1, JoinTells, SeparatorIs
<1>4. CASE a.project # None /\ b.project # None
  <2>1. Join(a.project[1], Join(a.server, y)) = Join(b.project[1], Join(b.server, z))
    BY <1>4 DEF Behind
  <2>2. Join(a.server, y) = Join(b.server, z)
    BY <1>1, <1>2, <1>4, <2>1, JoinTells, SeparatorIs
  <2> QED BY <1>1, <2>2, JoinTells, SeparatorIs
<1> QED BY <1>3, <1>4 DEF Apart

\* Two entries of one listing that have one name are on one machine, and of one
\* tool of one server unless only one of them has a project.
OneMachine(t, e, f) ==
    /\ e.place.label = f.place.label
    /\ \/ e.place.server = f.place.server /\ e.tool = f.tool
       \/ t.scope \in {"all", "host"} /\ Apart(e.place, f.place)

LEMMA NamesTell ==
    ASSUME NEW t, t = Reach("all", None) \/ \E l : \E V : t \in Targets(l, V),
           t # NotFound, NEW e, NEW f, IsEntry(t, e), IsEntry(t, f), e.name = f.name,
           ~Blurred(e.place), ~Blurred(f.place)
    PROVE  OneMachine(t, e, f)
<1>1. PICK a, b : a = e.place /\ b = f.place
  OBVIOUS
<1>2. PICK y, z : y = e.tool /\ z = f.tool
  OBVIOUS
<1>3. a \in Places /\ b \in Places /\ y \in Seq(Chars) /\ z \in Seq(Chars)
  BY <1>1, <1>2 DEF IsEntry
<1>4. ~Blurred(a) /\ ~Blurred(b)
  BY <1>1
<1>5. TargetMatches(t, a) /\ TargetMatches(t, b)
  BY <1>1 DEF IsEntry
<1>6. /\ Compose(t.scope, a, y) = Compose(t.scope, b, z)
      /\ Compose(t.scope, a, y) # None /\ Compose(t.scope, b, z) # None
  BY <1>1, <1>2 DEF IsEntry
<1>7. /\ Behind(a, y) \in Seq(Chars) /\ Behind(b, z) \in Seq(Chars)
      /\ Part(Chars, a.server) /\ Part(Chars, b.server)
      /\ Part(Chars, a.label) /\ Part(Chars, b.label)
  BY <1>3, <1>4, BehindIs, PlaceParts
<1>8. Behind(a, y) = Behind(b, z) => (a.server = b.server /\ y = z) \/ Apart(a, b)
  BY <1>3, <1>4, BehindTells
<1>9. SUFFICES /\ a.label = b.label
               /\ \/ a.server = b.server /\ y = z
                  \/ t.scope \in {"all", "host"} /\ Apart(a, b)
  BY <1>1, <1>2 DEF OneMachine
<1>all. CASE t = Reach("all", None)
  <2>1. t.scope = "all"
    BY <1>all DEF Reach
  <2>2. Join(a.label, Behind(a, y)) = Join(b.label, Behind(b, z))
    BY <1>6, <2>1 DEF Compose, Behind
  <2>3. a.label = b.label /\ Behind(a, y) = Behind(b, z)
    BY <1>7, <2>2, JoinTells, SeparatorIs
  <2> QED BY <1>8, <2>1, <2>3
<1>one. CASE \E l : \E V : t \in Targets(l, V)
  <2>1. PICK l, V : t \in Targets(l, V)
    BY <1>one
  <2>2. CASE t = At("host", l, None, None)
    <3>1. t.scope = "host" /\ a.label = b.label
      BY <1>5, <2>2 DEF At, TargetMatches, Optional, None
    <3>2. Behind(a, y) = Behind(b, z)
      BY <1>6, <3>1 DEF Compose, Behind
    <3> QED BY <1>8, <3>1, <3>2
  <2>3. CASE \E v : t = At("project", l, <<v>>, None)
    <3>1. t.scope = "project" /\ a.label = b.label
      BY <1>5, <2>3 DEF At, TargetMatches, Optional, None
    <3>2. Join(a.server, y) = Join(b.server, z)
      BY <1>6, <3>1 DEF Compose
    <3>3. a.server = b.server /\ y = z
      BY <1>3, <1>7, <3>2, JoinTells, SeparatorIs
    <3> QED BY <3>1, <3>3
  <2>4. CASE \E v : \/ t = At("server", l, None, <<v>>)
                    \/ \E w : t = At("project_server", l, <<w>>, <<v>>)
    <3>1. PICK v : \/ t = At("server", l, None, <<v>>)
                   \/ \E w : t = At("project_server", l, <<w>>, <<v>>)
      BY <2>4
    <3>2. /\ t.scope \in {"server", "project_server"} /\ t.label = <<l>> /\ t.server = <<v>>
      BY <3>1 DEF At
    <3>3. a.label = l /\ b.label = l /\ a.server = v /\ b.server = v
      BY <1>5, <3>2 DEF TargetMatches, Optional, None
    <3>4. y = z
      BY <1>6, <3>2 DEF Compose
    <3> QED BY <3>3, <3>4
  <2> QED BY <2>1, <2>2, <2>3, <2>4 DEF Targets
<1> QED BY <1>all, <1>one
-----------------------------------------------------------------------------
(* The invariant.                                                          *)

Phases == {"none", "session", "served", "tools"}

CatalogTypes ==
    /\ up \subseteq Links /\ config \in [Links -> Configs \cup {NoConfig}]
    /\ phase \in [Links -> [ServerNames -> Phases]]
    /\ \A k \in up : config[k] # NoConfig
    /\ path \in Paths /\ Target(path) # NotFound
    /\ steady \in BOOLEAN /\ outcome \in {"none", "unknown", "ran", "gone"}

\* What is wanted and what was picked are entries of the path's listing.
EntriesHold ==
    /\ want # NoEntry => IsEntry(Target(path), want)
    /\ picked # NoEntry => IsEntry(Target(path), picked) /\ want # NoEntry /\ picked.name = want.name
    /\ outcome = "ran" => picked # NoEntry

\* As long as nothing happened to its server, the wanted tool is still there.
Stands ==
    /\ want.link \in up /\ want.place.server \in Declared(want.link)
    /\ want.place = Place(want.link, want.place.server)
    /\ phase[want.link][want.place.server] = "served"
    /\ want.tool \in config[want.link].servers[want.place.server].tools
SteadyStands == steady /\ want # NoEntry => Stands

CatalogInv == CatalogTypes /\ EntriesHold /\ SteadyStands /\ (outcome = "unknown" => ~steady)

LEMMA NoneOrOne ==
    ASSUME NEW S, NEW x \in Seq(S), Len(x) <= 1, x # None
    PROVE  x = <<x[1]>>
<1>1. Len(x) = 1
  <2>1. Len(x) \in Nat /\ (Len(x) = 0 => x = <<>>)
    BY EmptySeq, LenProperties
  <2> QED BY <2>1 DEF None
<1>2. x[1] \in S
  BY <1>1, SMTT(30), ZenonT(60), Z3T(60)
<1> QED BY <1>1, <1>2

\* Every tool that the registry iterates over has a place and parts of a name.
LEMMA IteratedIs ==
    ASSUME CatalogAssumption, CatalogTypes, NEW x \in IterTools
    PROVE  /\ x[1] \in up /\ x[1] \in Links /\ x[2] \in ServerNames /\ x[2] \in Declared(x[1])
           /\ phase[x[1]][x[2]] \in {"served", "tools"}
           /\ x[3] \in config[x[1]].servers[x[2]].tools /\ x[3] \in Seq(Chars)
           /\ Place(x[1], x[2]) \in Places
<1>1. x[1] \in up /\ x[2] \in ServerNames /\ x[2] \in Declared(x[1]) /\ x[3] \in Tools(x[1], x[2])
  BY DEF IterTools
<1>2. x[1] \in Links /\ config[x[1]] \in Configs
  BY <1>1 DEF CatalogTypes
<1>3. phase[x[1]][x[2]] \in {"served", "tools"} /\ x[3] \in config[x[1]].servers[x[2]].tools
  BY <1>1 DEF Tools
<1> DEFINE c == config[x[1]]
           d == c.servers[x[2]]
<1>4. c \in Configs /\ x[2] \in DOMAIN c.servers
  BY <1>1, <1>2 DEF Declared
<1>5. /\ ValidName(c.label) /\ d.tools \subseteq ToolNames
      /\ d.project \in Seq(Seq(Chars)) /\ Len(d.project) <= 1
      /\ d.project # None => ValidName(d.project[1])
  BY <1>4 DEF CatalogAssumption
<1>6. x[3] \in Seq(Chars) /\ ValidName(x[2])
  BY <1>1, <1>3, <1>5 DEF CatalogAssumption
<1>7. c.label \in Names /\ x[2] \in Names /\ d.project \in {None} \cup {<<n>> : n \in Names}
  <2>1. c.label \in Names /\ x[2] \in Names /\ (d.project # None => d.project[1] \in Names)
    BY <1>5, <1>6 DEF Names, ValidName
  <2>2. PICK pr : pr = d.project
    OBVIOUS
  <2>3. pr \in Seq(Seq(Chars)) /\ Len(pr) <= 1
    BY <1>5, <2>2
  <2>4. pr # None => pr = <<pr[1]>>
    BY <2>3, NoneOrOne
  <2> QED BY <2>1, <2>2, <2>4
<1>8. Place(x[1], x[2]) \in Places
  BY <1>7 DEF Place, Places
<1> QED BY <1>1, <1>2, <1>3, <1>6, <1>8

\* So its entry at a path that reaches it is one.
LEMMA EntryIs ==
    ASSUME CatalogAssumption, CatalogTypes, NEW t, NEW x \in IterTools,
           TargetMatches(t, Place(x[1], x[2])), Entry(t, x).name # None
    PROVE  IsEntry(t, Entry(t, x))
BY IteratedIs DEF IsEntry, Entry

LEMMA InitCatalog == ASSUME CatalogAssumption, CInit PROVE CatalogInv
BY DEF CInit, CatalogInv, CatalogTypes, EntriesHold, SteadyStands, NoEntry, Phases

\* What a step that leaves the consumer alone has to show.
LEMMA ConsumerWaits ==
    ASSUME CatalogInv, UNCHANGED consumer, CatalogTypes', SteadyStands', steady' => steady
    PROVE  CatalogInv'
<1>1. EntriesHold'
  BY DEF CatalogInv, EntriesHold, consumer
<1>2. outcome' = "unknown" => ~steady'
  BY DEF CatalogInv, CatalogTypes, consumer
<1> QED BY <1>1, <1>2 DEF CatalogInv

LEMMA HelloOk ==
    ASSUME CatalogInv, NEW k \in Links, NEW c \in Configs, Hello(k, c), CatalogAssumption
    PROVE  CatalogInv'
<1> DEFINE old == {j \in up : config[j].label = c.label}
<1>1. /\ config[k] = NoConfig /\ config' = [config EXCEPT ![k] = c]
      /\ up' = (up \ old) \cup {k} /\ UNCHANGED phase /\ UNCHANGED consumer
      /\ steady' = (steady /\ \A j \in old : ~Wanted(j))
  BY DEF Hello, Lives
<1> HIDE DEF old
<1>2. CatalogTypes'
  <2>1. c # NoConfig
    BY DEF CatalogAssumption
  <2>2. steady' \in BOOLEAN
    BY <1>1
  <2> QED BY <1>1, <2>1, <2>2 DEF CatalogInv, CatalogTypes, consumer
<1>3. ASSUME steady', want' # NoEntry PROVE Stands'
  <2>1. steady /\ want # NoEntry /\ want' = want
    BY <1>1, <1>3 DEF consumer
  <2>2. Stands
    BY <2>1 DEF CatalogInv, SteadyStands
  <2>3. want.link # k
    BY <1>1, <2>2 DEF Stands, CatalogInv, CatalogTypes
  <2>4. want.link \notin old
    BY <1>1, <1>3, <2>1 DEF Wanted
  <2>5. want.link \in up' /\ config'[want.link] = config[want.link]
    BY <1>1, <2>2, <2>3, <2>4 DEF Stands, CatalogInv, CatalogTypes
  <2> QED BY <1>1, <2>1, <2>2, <2>5 DEF Stands, Declared, Place
<1> QED BY <1>1, <1>2, <1>3, ConsumerWaits DEF SteadyStands

LEMMA LeaveOk == ASSUME CatalogInv, NEW k \in Links, Leave(k) PROVE CatalogInv'
<1>1. /\ up' = up \ {k} /\ UNCHANGED <<config, phase>> /\ UNCHANGED consumer
      /\ steady' = (steady /\ ~Wanted(k))
  BY DEF Leave, Lives
<1>2. CatalogTypes'
  <2>1. steady' \in BOOLEAN
    BY <1>1
  <2> QED BY <1>1, <2>1 DEF CatalogInv, CatalogTypes, consumer
<1>3. ASSUME steady', want' # NoEntry PROVE Stands'
  <2>1. steady /\ want # NoEntry /\ want' = want /\ want.link # k
    BY <1>1, <1>3 DEF consumer, Wanted
  <2>2. Stands
    BY <2>1 DEF CatalogInv, SteadyStands
  <2> QED BY <1>1, <2>1, <2>2 DEF Stands, Declared, Place
<1> QED BY <1>1, <1>2, <1>3, ConsumerWaits DEF SteadyStands

LEMMA TurnOk == ASSUME CatalogInv, NEW k \in Links, NEW s \in ServerNames, Turn(k, s) PROVE CatalogInv'
<1>1. PICK to \in Phases : phase' = [phase EXCEPT ![k][s] = to]
  BY DEF Turn, Phases
<1>2. /\ UNCHANGED <<up, config>> /\ UNCHANGED consumer
      /\ steady' = (steady /\ ~(Wanted(k) /\ want.place.server = s))
  BY DEF Turn
<1>3. CatalogTypes'
  <2>1. steady' \in BOOLEAN
    BY <1>2
  <2>2. phase' \in [Links -> [ServerNames -> Phases]]
    BY <1>1 DEF CatalogInv, CatalogTypes
  <2> QED BY <1>2, <2>1, <2>2 DEF CatalogInv, CatalogTypes, consumer
<1>4. ASSUME steady', want' # NoEntry PROVE Stands'
  <2>1. steady /\ want # NoEntry /\ want' = want /\ (want.link # k \/ want.place.server # s)
    BY <1>2, <1>4 DEF consumer, Wanted
  <2>2. Stands
    BY <2>1 DEF CatalogInv, SteadyStands
  <2>3. phase'[want.link][want.place.server] = phase[want.link][want.place.server]
    BY <1>1, <2>1, <2>2 DEF CatalogInv, CatalogTypes, Stands
  <2> QED BY <1>2, <2>1, <2>2, <2>3 DEF Stands, Declared, Place
<1> QED BY <1>2, <1>3, <1>4, ConsumerWaits DEF SteadyStands

LEMMA ListToolsOk == ASSUME CatalogInv, CatalogAssumption, ListTools PROVE CatalogInv'
<1> DEFINE t == Target(path)
<1>1. /\ steady' = TRUE /\ picked' = NoEntry /\ outcome' = "none" /\ UNCHANGED <<up, config, phase, path>>
      /\ want' \in Entries(t, {x \in IterTools : Ready(x[1], x[2]) /\ TargetMatches(t, Place(x[1], x[2]))})
  BY DEF ListTools
<1>2. PICK x \in IterTools : /\ Ready(x[1], x[2]) /\ TargetMatches(t, Place(x[1], x[2]))
                             /\ want' = Entry(t, x) /\ want'.name # None
  BY <1>1 DEF Entries
<1>3. CatalogTypes'
  BY <1>1 DEF CatalogInv, CatalogTypes
<1>4. IsEntry(t, want')
  BY <1>2, EntryIs DEF CatalogInv
<1>5. EntriesHold'
  BY <1>1, <1>4 DEF EntriesHold
<1>7. Stands'
  <2>1. want'.link = x[1] /\ want'.place = Place(x[1], x[2]) /\ want'.tool = x[3]
        /\ want'.place.server = x[2]
    BY <1>2 DEF Entry, Place
  <2>2. /\ x[1] \in up /\ x[2] \in Declared(x[1]) /\ phase[x[1]][x[2]] = "served"
        /\ x[3] \in config[x[1]].servers[x[2]].tools
    BY <1>2, IteratedIs DEF CatalogInv, Ready
  <2> QED BY <1>1, <2>1, <2>2 DEF Stands, Declared, Place
<1> QED BY <1>1, <1>3, <1>5, <1>7 DEF CatalogInv, SteadyStands

LEMMA ResolveToolOk == ASSUME CatalogInv, CatalogAssumption, ResolveTool PROVE CatalogInv'
<1> DEFINE t == Target(path)
           S == {x \in IterTools : Filter(t, Place(x[1], x[2]))}
           found == {e \in Entries(t, S) : e.name = want.name}
<1>1. /\ want # NoEntry /\ picked = NoEntry /\ outcome = "none"
      /\ UNCHANGED <<up, config, phase, path, want, steady>>
      /\ \/ found = {} /\ outcome' = "unknown" /\ picked' = picked
         \/ picked' \in found /\ outcome' = outcome
  BY DEF ResolveTool
<1> HIDE DEF found, S
<1>2. CatalogTypes'
  BY <1>1 DEF CatalogInv, CatalogTypes
<1>3. SteadyStands'
  BY <1>1 DEF CatalogInv, SteadyStands, Stands, Declared, Place
<1>4. IsEntry(t, want)
  BY <1>1 DEF CatalogInv, EntriesHold
<1>5. ASSUME picked' \in found PROVE IsEntry(t, picked') /\ picked'.name = want.name
  <2>1. PICK x \in S : picked' = Entry(t, x) /\ picked'.name # None /\ picked'.name = want.name
    BY <1>5 DEF found, Entries
  <2>2. x \in IterTools /\ TargetMatches(t, Place(x[1], x[2]))
    BY DEF S, Filter, TargetMatches
  <2> QED BY <2>1, <2>2, EntryIs DEF CatalogInv
<1>6. EntriesHold'
  BY <1>1, <1>4, <1>5 DEF EntriesHold
<1>7. ASSUME found = {} PROVE ~steady
  <2> SUFFICES ASSUME steady PROVE FALSE
    OBVIOUS
  <2> DEFINE s == want.place.server
             x == <<want.link, s, want.tool>>
  <2>1. Stands
    BY <1>1 DEF CatalogInv, SteadyStands
  <2>2. want.link \in Links /\ want.link \in up /\ s \in Declared(want.link)
        /\ want.tool \in Tools(want.link, s) /\ want.place = Place(want.link, s)
    BY <2>1 DEF Stands, Tools, CatalogInv, CatalogTypes
  <2>3. s \in ServerNames /\ want.tool \in ToolNames
    <3>1. config[want.link] \in Configs
      BY <2>2 DEF CatalogInv, CatalogTypes
    <3> QED BY <2>1, <2>2, <3>1 DEF CatalogAssumption, Stands, Declared
  <2>4. x[1] = want.link /\ x[2] = s /\ x[3] = want.tool /\ x \in up \X ServerNames \X ToolNames
    BY <2>2, <2>3
  <2> HIDE DEF s, x
  <2>5. x \in IterTools
    BY <2>2, <2>4 DEF IterTools
  <2>6. Filter(t, Place(x[1], x[2]))
    BY <1>4, <2>2, <2>4 DEF IsEntry, TargetMatches, Filter
  <2>7. Entry(t, x) = want
    BY <1>4, <2>2, <2>4 DEF IsEntry, Entry
  <2>8. want.name # None
    BY <1>4 DEF IsEntry
  <2>9. want \in found
    BY <2>5, <2>6, <2>7, <2>8 DEF found, S, Entries
  <2> QED BY <1>7, <2>9
<1>8. outcome' = "unknown" => ~steady'
  BY <1>1, <1>7
<1> QED BY <1>2, <1>3, <1>6, <1>8 DEF CatalogInv

LEMMA CallToolOk == ASSUME CatalogInv, CallTool PROVE CatalogInv'
<1>1. /\ picked # NoEntry /\ outcome' \in {"ran", "gone"}
      /\ UNCHANGED <<up, config, phase, path, want, steady, picked>>
  BY DEF CallTool
<1>2. CatalogTypes'
  BY <1>1 DEF CatalogInv, CatalogTypes
<1>3. EntriesHold'
  BY <1>1 DEF CatalogInv, EntriesHold
<1>4. SteadyStands'
  BY <1>1 DEF CatalogInv, SteadyStands, Stands, Declared, Place
<1> QED BY <1>1, <1>2, <1>3, <1>4 DEF CatalogInv

LEMMA CatalogStep == ASSUME CatalogInv, CatalogAssumption, [CNext]_cvars PROVE CatalogInv'
<1>1. CASE UNCHANGED cvars
  BY <1>1 DEF CatalogInv, CatalogTypes, EntriesHold, SteadyStands, Stands, Declared, Place, cvars
<1>2. CASE CNext
  BY <1>2, HelloOk, LeaveOk, TurnOk, ListToolsOk, ResolveToolOk, CallToolOk DEF CNext
<1> QED BY <1>1, <1>2

\* What was called is what was listed, up to the names that read two ways.
LEMMA CatalogAnswers == ASSUME CatalogInv, CatalogAssumption PROVE AnswersAsListed
<1> DEFINE t == Target(path)
<1>1. \/ t = Reach("all", None)
      \/ \E V : t \in Targets(path[1], V)
  BY TargetReaches DEF CatalogInv, CatalogTypes, Reach
<1>2. t # NotFound
  BY DEF CatalogInv, CatalogTypes
<1>3. ASSUME outcome = "ran"
      PROVE  /\ TargetMatches(t, picked.place)
             /\ ~Blurred(picked.place) /\ ~Blurred(want.place) => OneMachine(t, picked, want)
  <2>1. IsEntry(t, picked) /\ IsEntry(t, want) /\ picked.name = want.name
    BY <1>3 DEF CatalogInv, EntriesHold
  <2>2. TargetMatches(t, picked.place)
    BY <2>1 DEF IsEntry
  <2>3. ASSUME ~Blurred(picked.place), ~Blurred(want.place) PROVE OneMachine(t, picked, want)
    <3>1. PICK u : u = t
      OBVIOUS
    <3>2. PICK e, f : e = picked /\ f = want
      OBVIOUS
    <3>3. u = Reach("all", None) \/ \E l : \E V : u \in Targets(l, V)
      BY <1>1, <3>1
    <3>4. /\ u # NotFound /\ IsEntry(u, e) /\ IsEntry(u, f) /\ e.name = f.name
          /\ ~Blurred(e.place) /\ ~Blurred(f.place)
      BY <1>2, <2>1, <2>3, <3>1, <3>2
    <3>5. OneMachine(u, e, f)
      BY ONLY <3>3, <3>4, NamesTell
    <3> QED BY <3>1, <3>2, <3>5
  <2> QED BY <2>2, <2>3
<1>4. ASSUME outcome = "ran", OneMachine(t, picked, want)
      PROVE  /\ picked.place.label = want.place.label
             /\ \/ picked.place.server = want.place.server /\ picked.tool = want.tool
                \/ t.scope \in {"all", "host"} /\ (picked.place.project = None) # (want.place.project = None)
  BY <1>4 DEF OneMachine, Apart
<1> QED BY <1>3, <1>4 DEF AnswersAsListed, CatalogInv

\* A call through an endpoint of the hub runs within what the path reaches, and,
\* when no part of the names ends with "_", on the machine the listing named and
\* the tool it listed, unless only one of the two has a project; a name is unknown
\* only when its server has changed (listTools, callTool, parseTarget, ValidateName,
\* ComposeToolName, ResolveTool).
THEOREM AnswersAsListedHolds == CSpec => []AnswersAsListed
<1>1. CInit => CatalogInv
  BY CatalogAssumption, InitCatalog
<1>2. CatalogInv /\ [CNext]_cvars => CatalogInv'
  BY CatalogAssumption, CatalogStep
<1>3. CatalogInv => AnswersAsListed
  BY CatalogAssumption, CatalogAnswers
<1> QED BY <1>1, <1>2, <1>3, PTL DEF CSpec

(*************************************************************************)
(* Prompting: what fitToWindow leaves fits, or nothing was left to cut,   *)
(* and every provider gets each result behind its call, for any           *)
(* conversation, window, limits and tools.  An answer and its results are *)
(* a round: a conversation is made of rounds and of what is said between  *)
(* them, cutting texts leaves it so, and each format keeps it.            *)
(*************************************************************************)

-----------------------------------------------------------------------------
(* Sums.                                                                   *)

\* A sum is the last of the sums of the beginnings.
IsSums(f, s) == /\ f \in [0..Len(s) -> Nat]
                /\ f[0] = 0 /\ \A i \in 1..Len(s) : f[i] = f[i - 1] + s[i]

LEMMA SumIs ==
    ASSUME NEW s, Len(s) \in Nat, \A i \in 1..Len(s) : s[i] \in Nat
    PROVE  \E f : IsSums(f, s) /\ SumOf(s) = f[Len(s)]
<1> DEFINE n == Len(s)
           base == 0
           step == [x \in Nat \X Nat |-> IF x[2] \in 1..n THEN x[1] + s[x[2]] ELSE x[1]]
           Sums(f) == f = [i \in 0..n |-> IF i = 0 THEN 0 ELSE f[i - 1] + s[i]]
           upto == CHOOSE f : Sums(f)
<1>1. n \in Nat /\ base \in Nat
  OBVIOUS
<1>2. step \in [Nat \X Nat -> Nat]
  OBVIOUS
<1>3. PICK f : IsUpto(f, Nat, base, step, n)
  <2> HIDE DEF n, base, step
  <2> QED BY <1>1, <1>2, Recursion
<1>4. /\ f \in [0..n -> Nat]
      /\ f = [i \in 0..n |-> IF i = 0 THEN base ELSE step[<<f[i - 1], i>>]]
  <2> HIDE DEF n, base, step
  <2> QED BY <1>3 DEF IsUpto
<1>5. ASSUME NEW i \in 0..n, i # 0 PROVE step[<<f[i - 1], i>>] = f[i - 1] + s[i]
  <2>1. i - 1 \in 0..n /\ i \in 1..n /\ i \in Nat
    BY <1>1, <1>5
  <2>2. f[i - 1] \in Nat
    BY <1>4, <2>1
  <2>3. <<f[i - 1], i>> \in Nat \X Nat
    BY <2>1, <2>2
  <2> HIDE DEF n
  <2> QED BY <2>1, <2>3
<1>6. Sums(f)
  <2> HIDE DEF n, step
  <2> QED BY <1>4, <1>5
<1>7. Sums(upto)
  <2> HIDE DEF Sums
  <2> QED BY <1>6
<1>8. upto[0] = 0 /\ \A i \in 1..n : upto[i] = upto[i - 1] + s[i]
  <2>1. 0 \in 0..n /\ \A i \in 1..n : i \in 0..n /\ i # 0
    BY <1>1
  <2> HIDE DEF upto, n
  <2> QED BY <1>7, <2>1
<1>9. DOMAIN upto = 0..n /\ upto = [i \in 0..n |-> upto[i]]
  <2> HIDE DEF upto, n
  <2> QED BY <1>7
<1>10. \A i \in 0..n : upto[i] \in Nat
  <2> HIDE DEF upto, n
  <2>1. upto[0] \in Nat
    BY <1>8
  <2>2. \A i \in 1..n : upto[i - 1] \in Nat => upto[i] \in Nat
    BY <1>8 DEF n
  <2> QED BY <1>1, <2>1, <2>2, PassedOn
<1>11. IsSums(upto, s)
  <2> HIDE DEF upto
  <2> QED BY <1>8, <1>9, <1>10 DEF IsSums
<1>12. SumOf(s) = upto[Len(s)]
  BY DEF SumOf
<1> QED
  <2> HIDE DEF upto
  <2> QED BY <1>11, <1>12

LEMMA SumIsNat ==
    ASSUME NEW s, Len(s) \in Nat, \A i \in 1..Len(s) : s[i] \in Nat
    PROVE  SumOf(s) \in Nat
<1>1. PICK f : IsSums(f, s) /\ SumOf(s) = f[Len(s)]
  BY SumIs
<1> QED BY <1>1 DEF IsSums

LEMMA SumOfFew ==
    ASSUME NEW s, Len(s) \in Nat, \A i \in 1..Len(s) : s[i] \in Nat
    PROVE  /\ Len(s) = 0 => SumOf(s) = 0
           /\ Len(s) = 1 => SumOf(s) = s[1]
<1>1. PICK f : IsSums(f, s) /\ SumOf(s) = f[Len(s)]
  BY SumIs
<1> QED BY <1>1 DEF IsSums

\* One summand is replaced, the others stay.
LEMMA SumSwaps ==
    ASSUME NEW s, NEW t, Len(s) \in Nat, Len(t) = Len(s),
           \A i \in 1..Len(s) : s[i] \in Nat /\ t[i] \in Nat,
           NEW k \in 1..Len(s), \A i \in 1..Len(s) : i # k => t[i] = s[i]
    PROVE  SumOf(t) + s[k] = SumOf(s) + t[k]
<1> DEFINE n == Len(s)
<1>1. PICK f : IsSums(f, s) /\ SumOf(s) = f[n]
  BY SumIs
<1>2. PICK g : IsSums(g, t) /\ SumOf(t) = g[n]
  BY SumIs
<1>3. /\ f \in [0..n -> Nat] /\ g \in [0..n -> Nat] /\ f[0] = 0 /\ g[0] = 0
      /\ \A i \in 1..n : f[i] = f[i - 1] + s[i] /\ g[i] = g[i - 1] + t[i]
  BY <1>1, <1>2 DEF IsSums
<1> DEFINE Same(i) == IF i < k THEN g[i] = f[i] ELSE g[i] + s[k] = f[i] + t[k]
           T == {i \in 0..n : Same(i)}
           id == [i \in 0..n |-> i]
<1>4. 0 \in T
  BY <1>3
<1>5. ASSUME NEW i \in 1..n, i - 1 \in T PROVE i \in T
  <2>1. i - 1 \in 0..n /\ i \in 0..n
    OBVIOUS
  <2>2. /\ f[i] \in Nat /\ g[i] \in Nat /\ f[i - 1] \in Nat /\ g[i - 1] \in Nat
        /\ s[i] \in Nat /\ t[i] \in Nat /\ s[k] \in Nat /\ t[k] \in Nat
    BY <1>3, <2>1
  <2>3. f[i] = f[i - 1] + s[i] /\ g[i] = g[i - 1] + t[i]
    BY <1>3
  <2>4. Same(i - 1)
    BY <1>5, <2>1
  <2>5. CASE i < k
    <3>1. g[i - 1] = f[i - 1] /\ t[i] = s[i]
      BY <2>4, <2>5
    <3> QED BY <2>1, <2>3, <2>5, <3>1
  <2>6. CASE i = k
    <3>1. g[i - 1] = f[i - 1]
      BY <2>4, <2>6
    <3>2. f[i] = f[i - 1] + s[k] /\ g[i] = f[i - 1] + t[k]
      BY <2>3, <2>6, <3>1
    <3>3. \A a, b, c \in Nat : (a + b) + c = (a + c) + b
      OBVIOUS
    <3>4. g[i] + s[k] = f[i] + t[k]
      BY <2>2, <3>2, <3>3
    <3> QED BY <2>1, <2>6, <3>4
  <2>7. CASE i > k
    <3>1. g[i - 1] + s[k] = f[i - 1] + t[k] /\ t[i] = s[i]
      BY <2>4, <2>7
    <3>2. f[i] = f[i - 1] + s[i] /\ g[i] = g[i - 1] + s[i]
      BY <2>3, <3>1
    <3>4. (g[i - 1] + s[i]) + s[k] = (f[i - 1] + s[i]) + t[k]
      <4>1. PICK a \in Nat : a = g[i - 1]
        BY <2>2
      <4>2. PICK b \in Nat : b = f[i - 1]
        BY <2>2
      <4>3. PICK c \in Nat : c = s[k]
        BY <2>2
      <4>4. PICK d \in Nat : d = t[k]
        BY <2>2
      <4>5. PICK e \in Nat : e = s[i]
        BY <2>2
      <4>6. a + c = b + d
        BY <3>1, <4>1, <4>2, <4>3, <4>4
      <4>7. (a + e) + c = (b + e) + d
        BY ONLY <4>6, a \in Nat, b \in Nat, c \in Nat, d \in Nat, e \in Nat
      <4> QED BY <4>1, <4>2, <4>3, <4>4, <4>5, <4>7
    <3>5. g[i] + s[k] = f[i] + t[k]
      BY <3>2, <3>4
    <3> QED BY <2>1, <2>7, <3>5
  <2> QED BY <2>5, <2>6, <2>7
<1>6. id[0] \in T /\ \A i \in 1..n : id[i - 1] \in T => id[i] \in T
  <2>1. \A i \in 1..n : id[i] = i /\ id[i - 1] = i - 1
    OBVIOUS
  <2> HIDE DEF T
  <2> QED BY <1>4, <1>5, <2>1
<1>7. id[n] \in T
  <2> HIDE DEF T, id, n
  <2>1. n \in Nat /\ n \in 0..n
    BY DEF n
  <2> QED BY <1>6, <2>1, PassedOn
<1>8. Same(n)
  BY <1>7
<1> QED BY <1>1, <1>2, <1>8
-----------------------------------------------------------------------------
(* Messages.                                                               *)

\* What is a sequence, whatever its elements are.
Listed(s) == Len(s) \in Nat /\ s = [i \in 1..Len(s) |-> s[i]]

LEMMA LenIs ==
    ASSUME NEW n \in Nat, NEW f, f = [i \in 1..n |-> f[i]]
    PROVE  Len(f) = n /\ Listed(f)
<1> DEFINE S == {f[i] : i \in 1..n}
<1>1. f \in [1..n -> S]
  <2>1. \A i \in 1..n : f[i] \in S
    OBVIOUS
  <2> HIDE DEF S
  <2> QED BY <2>1
<1>2. f \in Seq(S) /\ Len(f) = n
  <2> HIDE DEF S
  <2>1. f \in Seq(S)
    BY <1>1, SeqDef
  <2> QED BY <1>1, <2>1, LenProperties
<1> QED BY <1>2 DEF Listed

LEMMA MapListed ==
    ASSUME NEW s, Listed(s), NEW f, f = [i \in DOMAIN s |-> f[i]]
    PROVE  Listed(f) /\ Len(f) = Len(s) /\ DOMAIN f = DOMAIN s /\ DOMAIN f = 1..Len(s)
<1>1. DOMAIN s = 1..Len(s) /\ Len(s) \in Nat
  BY DEF Listed
<1>2. f = [i \in 1..Len(s) |-> f[i]]
  BY <1>1
<1>3. Len(f) = Len(s) /\ Listed(f)
  BY <1>1, <1>2, LenIs
<1> QED BY <1>1, <1>3

\* A message: the results of a call are one result, others have none.
IsMsg(m) ==
    /\ m = [role |-> m.role, blocks |-> m.blocks, calls |-> m.calls, results |-> m.results]
    /\ Listed(m.blocks) /\ (\A i \in DOMAIN m.blocks : m.blocks[i].size \in Nat)
    /\ Len(m.calls) \in Nat /\ Listed(m.results)
    /\ m.role # "tool" => Len(m.results) = 0
    /\ m.role = "tool" =>
         /\ Len(m.results) = 1 /\ m.results[1].texts \in Seq(Nat)
         /\ m.results[1] = [id |-> m.results[1].id, texts |-> m.results[1].texts]

Conversation(msgs) == Listed(msgs) /\ \A i \in DOMAIN msgs : IsMsg(msgs[i])

LEMMA TextsSum == ASSUME NEW s \in Seq(Nat) PROVE SumOf(s) \in Nat
BY SumIsNat

\* The characters of a message's results are those of its one result.
LEMMA ResultsSum ==
    ASSUME NEW m, IsMsg(m)
    PROVE  /\ ResultChars(m) \in Nat
           /\ m.role = "tool" => ResultChars(m) = SumOf(m.results[1].texts)
<1> DEFINE g == [i \in DOMAIN m.results |-> SumOf(m.results[i].texts)]
<1>1. Listed(m.results) /\ DOMAIN m.results = 1..Len(m.results)
  BY DEF IsMsg, Listed
<1>2. Listed(g) /\ Len(g) = Len(m.results)
  BY <1>1, MapListed
<1>3. ResultChars(m) = SumOf(g)
  BY DEF ResultChars, Map
<1>4. \A i \in 1..Len(g) : g[i] \in Nat
  <2> SUFFICES ASSUME NEW i \in 1..Len(g) PROVE g[i] \in Nat
    OBVIOUS
  <2>1. Len(g) = 1 /\ i = 1 /\ m.role = "tool"
    <3> HIDE DEF g
    <3>1. Len(m.results) # 0
      BY <1>2
    <3>2. m.role = "tool" /\ Len(m.results) = 1
      BY <3>1 DEF IsMsg
    <3> QED BY <1>2, <3>2
  <2>2. m.results[1].texts \in Seq(Nat)
    BY <2>1 DEF IsMsg
  <2>3. g[1] = SumOf(m.results[1].texts)
    BY <1>1, <1>2, <2>1
  <2> QED BY <2>1, <2>2, <2>3, TextsSum
<1>5. ResultChars(m) \in Nat
  <2> HIDE DEF g
  <2> QED BY <1>2, <1>3, <1>4, SumIsNat DEF Listed
<1>6. ASSUME m.role = "tool" PROVE ResultChars(m) = SumOf(m.results[1].texts)
  <2>1. Len(g) = 1 /\ 1 \in DOMAIN m.results
    BY <1>1, <1>2, <1>6 DEF IsMsg
  <2>2. g[1] = SumOf(m.results[1].texts)
    BY <2>1
  <2> HIDE DEF g
  <2> QED BY <1>2, <1>3, <1>4, <2>1, <2>2, SumOfFew DEF Listed
<1> QED BY <1>5, <1>6

OwnChars(m) == SumOf([i \in DOMAIN m.blocks |-> m.blocks[i].size]) + Len(m.calls)

LEMMA MessageSum ==
    ASSUME NEW m, IsMsg(m)
    PROVE  OwnChars(m) \in Nat /\ MessageChars(m) = OwnChars(m) + ResultChars(m) /\ MessageChars(m) \in Nat
<1> DEFINE g == [i \in DOMAIN m.blocks |-> m.blocks[i].size]
<1>1. Listed(g) /\ Len(g) = Len(m.blocks) /\ DOMAIN g = 1..Len(g) /\ DOMAIN g = DOMAIN m.blocks
  BY MapListed DEF IsMsg
<1>2. \A i \in 1..Len(g) : g[i] \in Nat
  BY <1>1 DEF IsMsg
<1>3. SumOf(g) \in Nat
  <2> HIDE DEF g
  <2> QED BY <1>1, <1>2, SumIsNat DEF Listed
<1>4. OwnChars(m) \in Nat
  BY <1>3 DEF OwnChars, IsMsg
<1>5. MessageChars(m) = OwnChars(m) + ResultChars(m)
  BY DEF MessageChars, OwnChars, Map
<1> QED BY <1>4, <1>5, ResultsSum

Ids(m) == [i \in DOMAIN m.results |-> m.results[i].id]

LEMMA WithoutTextsIs ==
    ASSUME NEW m, IsMsg(m)
    PROVE  WithoutTexts(m) = [role |-> m.role, blocks |-> m.blocks, calls |-> m.calls, results |-> Ids(m)]
<1>1. WithoutTexts(m) = [m EXCEPT !.results = Ids(m)]
  BY DEF WithoutTexts, Map, Ids
<1>2. m = [role |-> m.role, blocks |-> m.blocks, calls |-> m.calls, results |-> m.results]
  BY DEF IsMsg
<1>3. [m EXCEPT !.results = Ids(m)]
      = [role |-> m.role, blocks |-> m.blocks, calls |-> m.calls, results |-> Ids(m)]
  BY <1>2
<1> QED BY <1>1, <1>3

\* A result that is cut keeps everything but texts, and each text is short.
LEMMA ShrinkIs ==
    ASSUME PromptAssumption, NEW m, IsMsg(m), m.role = "tool", NEW keep \in Nat
    PROVE  LET w == Shrink(m, keep) IN
           /\ IsMsg(w) /\ w.role = m.role /\ w.blocks = m.blocks /\ w.calls = m.calls
           /\ WithoutTexts(w) = WithoutTexts(m)
           /\ Len(w.results[1].texts) = Len(m.results[1].texts)
           /\ \A i \in DOMAIN w.results[1].texts : w.results[1].texts[i] <= keep + Marker
<1> DEFINE w == Shrink(m, keep)
           r == m.results[1]
           kept == [i \in DOMAIN r.texts |-> ShrunkText(r.texts[i], keep)]
           rs == [i \in DOMAIN m.results |-> [m.results[i] EXCEPT !.texts =
                     [j \in DOMAIN m.results[i].texts |-> ShrunkText(m.results[i].texts[j], keep)]]]
<1>1. /\ Listed(m.results) /\ DOMAIN m.results = 1..Len(m.results) /\ Len(m.results) = 1
      /\ 1 \in DOMAIN m.results /\ r = [id |-> r.id, texts |-> r.texts] /\ r.texts \in Seq(Nat)
  BY DEF IsMsg, Listed
<1>2. w = [m EXCEPT !.results = rs]
  BY DEF Shrink, Map
<1>3. Listed(rs) /\ Len(rs) = 1 /\ DOMAIN rs = DOMAIN m.results
  BY <1>1, MapListed
<1>4. rs[1] = [id |-> r.id, texts |-> kept]
  <2>1. rs[1] = [r EXCEPT !.texts = kept]
    BY <1>1
  <2> HIDE DEF kept, rs, r
  <2> QED BY <1>1, <2>1
<1>5. /\ DOMAIN kept = 1..Len(r.texts) /\ Len(r.texts) \in Nat
      /\ \A i \in DOMAIN kept : kept[i] \in Nat /\ kept[i] <= keep + Marker
  <2>1. DOMAIN r.texts = 1..Len(r.texts) /\ \A i \in 1..Len(r.texts) : r.texts[i] \in Nat
    BY <1>1
  <2>2. Marker \in Nat
    BY DEF PromptAssumption
  <2> HIDE DEF r
  <2> QED BY <1>1, <2>1, <2>2, SMTT(30), ZenonT(60), Z3T(60) DEF ShrunkText
<1>6. kept \in Seq(Nat) /\ Len(kept) = Len(r.texts)
  <2>1. kept \in [1..Len(r.texts) -> Nat]
    BY <1>5
  <2> HIDE DEF kept
  <2>2. kept \in Seq(Nat)
    BY <1>5, <2>1, SeqDef, SMTT(30), ZenonT(60), Z3T(60)
  <2> QED BY <1>5, <2>1, <2>2, LenProperties
<1>7. w = [role |-> m.role, blocks |-> m.blocks, calls |-> m.calls, results |-> rs]
  <2> HIDE DEF rs, w
  <2> QED BY <1>2 DEF IsMsg
<1> HIDE DEF rs, w, kept
<1>8. IsMsg(w)
  BY <1>3, <1>4, <1>6, <1>7 DEF IsMsg
<1>9. WithoutTexts(w) = WithoutTexts(m)
  <2>1. \A i \in DOMAIN m.results : rs[i].id = m.results[i].id
    BY <1>1, <1>4
  <2>2. w.role = m.role /\ w.blocks = m.blocks /\ w.calls = m.calls /\ w.results = rs
    BY <1>7
  <2>3. Ids(w) = Ids(m)
    BY <1>3, <2>1, <2>2 DEF Ids
  <2> QED BY <1>8, <2>2, <2>3, WithoutTextsIs
<1>10. w.role = m.role /\ w.blocks = m.blocks /\ w.calls = m.calls /\ w.results[1].texts = kept
  BY <1>4, <1>7
<1>11. /\ Len(w.results[1].texts) = Len(m.results[1].texts)
       /\ \A i \in DOMAIN w.results[1].texts : w.results[1].texts[i] <= keep + Marker
  BY <1>5, <1>6, <1>10
<1> QED BY <1>8, <1>9, <1>10, <1>11 DEF w
-----------------------------------------------------------------------------
(* fitToWindow.                                                            *)

LEMMA SizesSum ==
    ASSUME PromptAssumption
    PROVE  SumOf(SanitizeTools) \in Nat
<1> DEFINE g == [i \in DOMAIN Toolset |-> IF Toolset[i].bad THEN 0 ELSE Toolset[i].size]
<1>1. /\ Len(Toolset) \in Nat /\ g = [i \in 1..Len(Toolset) |-> g[i]]
      /\ \A i \in 1..Len(Toolset) : g[i] \in Nat
  BY DEF PromptAssumption
<1>2. SanitizeTools = g
  BY DEF SanitizeTools, Map
<1> HIDE DEF g
<1>3. Len(g) = Len(Toolset)
  BY <1>1, LenIs
<1> QED BY <1>1, <1>2, <1>3, SumIsNat

\* The characters of a conversation, and what changes when one message does.
LEMMA UsedIsNat ==
    ASSUME PromptAssumption, NEW msgs, Conversation(msgs)
    PROVE  UsedChars(msgs) \in Nat
<1> DEFINE g == [i \in DOMAIN msgs |-> MessageChars(msgs[i])]
<1>1. Listed(g) /\ Len(g) = Len(msgs) /\ DOMAIN g = DOMAIN msgs /\ DOMAIN g = 1..Len(msgs)
  BY MapListed DEF Conversation
<1>2. \A i \in 1..Len(g) : g[i] \in Nat
  BY <1>1, MessageSum DEF Conversation
<1>3. SumOf(g) \in Nat
  <2> HIDE DEF g
  <2> QED BY <1>1, <1>2, SumIsNat DEF Listed
<1>4. UsedChars(msgs) = System + SumOf(SanitizeTools) + SumOf(g)
  BY DEF UsedChars, Map
<1> HIDE DEF g
<1> QED BY <1>3, <1>4, SizesSum DEF PromptAssumption

LEMMA UsedSwaps ==
    ASSUME PromptAssumption, NEW msgs, Conversation(msgs), NEW k \in DOMAIN msgs, NEW w, IsMsg(w)
    PROVE  /\ Conversation([msgs EXCEPT ![k] = w])
           /\ UsedChars([msgs EXCEPT ![k] = w]) + MessageChars(msgs[k]) = UsedChars(msgs) + MessageChars(w)
<1> DEFINE new == [msgs EXCEPT ![k] = w]
           g == [i \in DOMAIN msgs |-> MessageChars(msgs[i])]
           h == [i \in DOMAIN new |-> MessageChars(new[i])]
<1>1. Listed(new) /\ Len(new) = Len(msgs) /\ DOMAIN new = DOMAIN msgs /\ DOMAIN msgs = 1..Len(msgs)
  <2>1. new = [i \in DOMAIN msgs |-> new[i]]
    OBVIOUS
  <2> HIDE DEF new
  <2> QED BY <2>1, MapListed DEF Conversation
<1>2. \A i \in DOMAIN msgs : new[i] = IF i = k THEN w ELSE msgs[i]
  OBVIOUS
<1> HIDE DEF new
<1>3. Conversation(new)
  BY <1>1, <1>2 DEF Conversation
<1>4. Listed(g) /\ Len(g) = Len(msgs) /\ DOMAIN g = 1..Len(msgs)
  BY MapListed DEF Conversation
<1>5. Listed(h) /\ Len(h) = Len(msgs) /\ DOMAIN h = 1..Len(msgs)
  BY <1>1, MapListed
<1>6. /\ \A i \in 1..Len(g) : g[i] \in Nat /\ h[i] \in Nat
      /\ \A i \in 1..Len(g) : i # k => h[i] = g[i]
      /\ k \in 1..Len(g) /\ g[k] = MessageChars(msgs[k]) /\ h[k] = MessageChars(w)
  <2>1. \A i \in DOMAIN msgs : IsMsg(msgs[i]) /\ IsMsg(new[i])
    BY <1>1, <1>3 DEF Conversation
  <2> QED BY <1>1, <1>2, <1>4, <1>5, <2>1, MessageSum
<1>7. UsedChars(msgs) = System + SumOf(SanitizeTools) + SumOf(g)
  BY DEF UsedChars, Map
<1>8. UsedChars(new) = System + SumOf(SanitizeTools) + SumOf(h)
  BY DEF UsedChars, Map
<1> HIDE DEF g, h
<1>9. SumOf(h) + g[k] = SumOf(g) + h[k]
  <2>1. /\ Len(g) \in Nat /\ Len(h) = Len(g) /\ k \in 1..Len(g)
        /\ \A i \in 1..Len(g) : g[i] \in Nat /\ h[i] \in Nat
        /\ \A i \in 1..Len(g) : i # k => h[i] = g[i]
    BY ONLY <1>4, <1>5, <1>6 DEF Listed
  <2> QED BY ONLY <2>1, SumSwaps
<1>10. SumOf(g) \in Nat /\ SumOf(h) \in Nat
  BY <1>4, <1>5, <1>6, SumIsNat DEF Listed
<1>11. UsedChars(new) + MessageChars(msgs[k]) = UsedChars(msgs) + MessageChars(w)
  <2>1. PICK c \in Nat : c = System + SumOf(SanitizeTools)
    BY SizesSum DEF PromptAssumption
  <2>2. PICK a \in Nat : a = SumOf(g)
    BY <1>10
  <2>3. PICK b \in Nat : b = SumOf(h)
    BY <1>10
  <2>4. PICK x \in Nat : x = g[k]
    BY <1>6
  <2>5. PICK y \in Nat : y = h[k]
    BY <1>4, <1>5, <1>6
  <2>6. b + x = a + y
    BY <1>9, <2>2, <2>3, <2>4, <2>5
  <2>7. (c + b) + x = (c + a) + y
    BY ONLY <2>6, a \in Nat, b \in Nat, c \in Nat, x \in Nat, y \in Nat
  <2> QED BY <1>6, <1>7, <1>8, <2>1, <2>2, <2>3, <2>4, <2>5, <2>7
<1> QED BY <1>3, <1>11 DEF new

\* The latest result is the last of them.
LEMMA LastToolIs ==
    ASSUME NEW msgs, Conversation(msgs)
    PROVE  \/ LastTool(msgs) = 0 /\ \A i \in DOMAIN msgs : msgs[i].role # "tool"
           \/ LastTool(msgs) \in DOMAIN msgs /\ msgs[LastTool(msgs)].role = "tool"
<1> DEFINE I == {i \in 1..Len(msgs) : msgs[i].role = "tool"}
           n == Len(msgs)
<1>1. DOMAIN msgs = 1..n /\ n \in Nat
  BY DEF Conversation, Listed
<1>2. LastTool(msgs) = IF I # {} THEN Max(I) ELSE 0
  BY DEF LastTool, SelectLastInSeq
<1>3. ASSUME I # {} PROVE Max(I) \in I
  <2> DEFINE D == {n - i : i \in I}
  <2>1. D \subseteq Nat /\ D # {}
    BY <1>1, <1>3
  <2>2. PICK d \in D : \A e \in D : d <= e
    BY <2>1, LeastIn
  <2>3. PICK x \in I : d = n - x
    OBVIOUS
  <2>4. \A y \in I : x >= y
    <3> SUFFICES ASSUME NEW y \in I PROVE x >= y
      OBVIOUS
    <3>1. n - x <= n - y /\ x \in 1..n /\ y \in 1..n
      BY <2>2, <2>3
    <3> QED BY <1>1, <3>1
  <2> HIDE DEF I
  <2> QED BY <2>4 DEF Max
<1> QED BY <1>1, <1>2, <1>3

LEMMA SameLastTool ==
    ASSUME NEW msgs, NEW new, Len(new) = Len(msgs), \A i \in 1..Len(msgs) : new[i].role = msgs[i].role
    PROVE  LastTool(new) = LastTool(msgs)
<1>1. {i \in 1..Len(new) : new[i].role = "tool"} = {i \in 1..Len(msgs) : msgs[i].role = "tool"}
  OBVIOUS
<1> QED BY <1>1 DEF LastTool, SelectLastInSeq

\* What holds of 0 and is passed on holds up to the end, of the numbers.
LEMMA Climb ==
    ASSUME NEW n \in Nat, NEW T, 0 \in T, \A i \in 1..n : i - 1 \in T => i \in T
    PROVE  \A i \in 0..n : i \in T
<1> DEFINE id == [i \in 0..n |-> i]
<1>1. \A i \in 1..n : id[i] = i /\ id[i - 1] = i - 1
  OBVIOUS
<1>2. id[0] \in T /\ \A i \in 1..n : id[i - 1] \in T => id[i] \in T
  BY <1>1
<1>3. \A i \in 0..n : id[i] \in T
  <2> HIDE DEF id
  <2> QED BY <1>2, PassedOn
<1> QED BY <1>3

\* A conversation with the results at D cut to the least.
Cut(msgs, D) == [j \in DOMAIN msgs |-> IF j \in D THEN Shrink(msgs[j], OldKeep) ELSE msgs[j]]
OldResults(msgs) == {j \in DOMAIN msgs : msgs[j].role = "tool" /\ j # LastTool(msgs)}

LEMMA CutMore ==
    ASSUME NEW msgs, NEW D, NEW i \in DOMAIN msgs, i \notin D
    PROVE  [Cut(msgs, D) EXCEPT ![i] = Shrink(@, OldKeep)] = Cut(msgs, D \cup {i})
<1>1. /\ DOMAIN Cut(msgs, D) = DOMAIN msgs /\ Cut(msgs, D)[i] = msgs[i]
  BY DEF Cut
<1> DEFINE f == [Cut(msgs, D) EXCEPT ![i] = Shrink(@, OldKeep)]
           g == Cut(msgs, D \cup {i})
<1>2. f = [j \in DOMAIN msgs |-> f[j]] /\ g = [j \in DOMAIN msgs |-> g[j]]
  BY <1>1 DEF Cut
<1>3. ASSUME NEW j \in DOMAIN msgs PROVE f[j] = g[j]
  <2>1. g[j] = IF j \in D \/ j = i THEN Shrink(msgs[j], OldKeep) ELSE msgs[j]
    BY DEF Cut
  <2>2. Cut(msgs, D)[j] = IF j \in D THEN Shrink(msgs[j], OldKeep) ELSE msgs[j]
    BY DEF Cut
  <2>3. f[j] = IF j = i THEN Shrink(msgs[i], OldKeep) ELSE Cut(msgs, D)[j]
    BY <1>1
  <2> QED BY <2>1, <2>2, <2>3
<1> HIDE DEF f, g
<1>4. f = g
  BY <1>2, <1>3
<1> QED BY <1>4 DEF f, g

\* The loop over the old results cuts some of them; all, if it is of no use.
LEMMA FitOldIs ==
    ASSUME NEW msgs, Conversation(msgs), NEW budget
    PROVE  \E D \in SUBSET OldResults(msgs) :
              /\ FitOld(msgs, budget) = Cut(msgs, D)
              /\ UsedChars(Cut(msgs, D)) > budget => D = OldResults(msgs)
<1> DEFINE n == Len(msgs)
           Grows(D, i) == UsedChars(Cut(msgs, D)) > budget /\ i \in OldResults(msgs)
           A == SUBSET OldResults(msgs)
           base == {}
           step == [x \in A \X Nat |-> IF Grows(x[1], x[2]) THEN x[1] \cup {x[2]} ELSE x[1]]
<1>1. n \in Nat /\ DOMAIN msgs = 1..n /\ OldResults(msgs) \subseteq 1..n
  BY DEF Conversation, Listed, OldResults
<1>2. base \in A
  OBVIOUS
<1>3. step \in [A \X Nat -> A]
  OBVIOUS
<1>4. PICK g : IsUpto(g, A, base, step, n)
  <2> HIDE DEF n, A, base, step
  <2> QED BY <1>1, <1>2, <1>3, Recursion
<1>5. /\ g \in [0..n -> A]
      /\ g = [i \in 0..n |-> IF i = 0 THEN base ELSE step[<<g[i - 1], i>>]]
  <2> HIDE DEF n, A, base, step
  <2> QED BY <1>4 DEF IsUpto
<1>6. g[0] = {}
  <2>1. 0 \in 0..n
    BY <1>1
  <2> HIDE DEF n, A, step
  <2> QED BY <1>5, <2>1
<1>7. ASSUME NEW i \in 1..n
      PROVE  /\ g[i] = IF Grows(g[i - 1], i) THEN g[i - 1] \cup {i} ELSE g[i - 1]
             /\ g[i] \in A /\ g[i - 1] \in A
  <2>1. i \in 0..n /\ i - 1 \in 0..n /\ i # 0 /\ i \in Nat
    BY <1>1
  <2>2. g[i] \in A /\ g[i - 1] \in A
    <3> HIDE DEF n, A
    <3> QED BY <1>5, <2>1
  <2>3. g[i] = step[<<g[i - 1], i>>]
    <3> HIDE DEF n, A, step, base
    <3> QED BY <1>5, <2>1
  <2>4. <<g[i - 1], i>> \in A \X Nat
    <3> HIDE DEF A
    <3> QED BY <2>1, <2>2
  <2>5. step[<<g[i - 1], i>>] = IF Grows(g[i - 1], i) THEN g[i - 1] \cup {i} ELSE g[i - 1]
    <3> HIDE DEF A, Grows
    <3> QED BY <2>4
  <2> HIDE DEF A, Grows, step
  <2> QED BY <2>2, <2>3, <2>5
<1> HIDE DEF step, base
<1>8. \A i \in 0..n : g[i] \subseteq 1..i
  <2> DEFINE T == {i \in 0..n : g[i] \subseteq 1..i}
  <2>1. 0 \in T
    BY <1>1, <1>6
  <2>2. ASSUME NEW i \in 1..n, i - 1 \in T PROVE i \in T
    <3>1. g[i] \subseteq g[i - 1] \cup {i} /\ g[i - 1] \subseteq 1..i - 1
      BY <1>7, <2>2
    <3>2. \A j \in 1..i - 1 : j \in 1..i
      BY <1>1
    <3>3. i \in 0..n /\ i \in 1..i
      BY <1>1
    <3> QED BY <3>1, <3>2, <3>3
  <2> HIDE DEF n, T
  <2>3. \A i \in 0..n : i \in T
    BY <1>1, <2>1, <2>2, Climb
  <2> QED BY <2>3 DEF T
<1>9. ASSUME NEW i \in 1..n
      PROVE  Cut(msgs, g[i]) =
                IF UsedChars(Cut(msgs, g[i - 1])) > budget /\ msgs[i].role = "tool" /\ i # LastTool(msgs)
                  THEN [Cut(msgs, g[i - 1]) EXCEPT ![i] = Shrink(@, OldKeep)]
                ELSE Cut(msgs, g[i - 1])
  <2>1. i \in OldResults(msgs) <=> msgs[i].role = "tool" /\ i # LastTool(msgs)
    BY <1>1 DEF OldResults
  <2>2. i \notin g[i - 1] /\ i \in DOMAIN msgs
    <3>1. i - 1 \in 0..n /\ i \notin 1..i - 1
      BY <1>1
    <3> QED BY <1>1, <1>8, <3>1
  <2>3. [Cut(msgs, g[i - 1]) EXCEPT ![i] = Shrink(@, OldKeep)] = Cut(msgs, g[i - 1] \cup {i})
    BY <2>2, CutMore, ZenonT(60)
  <2> QED BY <1>7, <2>1, <2>3
<1> DEFINE f == [i \in 0..n |-> Cut(msgs, g[i])]
           Fits(u) == u = [i \in 0..n |->
                IF i = 0 THEN msgs
                ELSE IF UsedChars(u[i - 1]) > budget /\ msgs[i].role = "tool" /\ i # LastTool(msgs)
                       THEN [u[i - 1] EXCEPT ![i] = Shrink(@, OldKeep)]
                ELSE u[i - 1]]
           upto == CHOOSE u : Fits(u)
<1>10. Cut(msgs, {}) = msgs
  BY DEF Cut, Conversation, Listed
<1>11. f[0] = msgs
  BY <1>1, <1>6, <1>10, SMTT(30), ZenonT(60), Z3T(60)
<1>12. ASSUME NEW i \in 0..n, i # 0
       PROVE  f[i] = IF UsedChars(f[i - 1]) > budget /\ msgs[i].role = "tool" /\ i # LastTool(msgs)
                       THEN [f[i - 1] EXCEPT ![i] = Shrink(@, OldKeep)]
                     ELSE f[i - 1]
  <2>1. i \in 1..n /\ i - 1 \in 0..n
    BY <1>1, <1>12
  <2>2. f[i] = Cut(msgs, g[i]) /\ f[i - 1] = Cut(msgs, g[i - 1])
    BY <2>1
  <2> HIDE DEF f
  <2> QED BY <1>9, <2>1, <2>2
<1>13. Fits(f)
  <2>1. f = [i \in 0..n |-> f[i]]
    OBVIOUS
  <2> HIDE DEF f, n
  <2> QED BY <1>11, <1>12, <2>1
<1>14. Fits(upto)
  <2> HIDE DEF Fits, f
  <2> QED BY <1>13
<1>15. FitOld(msgs, budget) = upto[n]
  BY DEF FitOld
<1> HIDE DEF upto
<1>16. \A i \in 0..n : upto[i] = f[i]
  <2> DEFINE T == {i \in 0..n : upto[i] = f[i]}
  <2>1. 0 \in T
    <3>1. 0 \in 0..n
      BY <1>1
    <3>2. upto[0] = msgs
      <4> HIDE DEF n
      <4> QED BY <1>14, <3>1
    <3> HIDE DEF f
    <3> QED BY <1>11, <3>1, <3>2
  <2>2. ASSUME NEW i \in 1..n, i - 1 \in T PROVE i \in T
    <3>1. i \in 0..n /\ i # 0 /\ upto[i - 1] = f[i - 1]
      BY <1>1, <2>2
    <3>2. upto[i] = IF UsedChars(upto[i - 1]) > budget /\ msgs[i].role = "tool" /\ i # LastTool(msgs)
                      THEN [upto[i - 1] EXCEPT ![i] = Shrink(@, OldKeep)]
                    ELSE upto[i - 1]
      <4> HIDE DEF n
      <4> QED BY <1>14, <3>1
    <3> HIDE DEF f
    <3>3. upto[i] = f[i]
      BY <1>12, <3>1, <3>2
    <3> QED BY <3>1, <3>3
  <2> HIDE DEF n, T
  <2>3. \A i \in 0..n : i \in T
    BY <1>1, <2>1, <2>2, Climb
  <2> QED BY <2>3 DEF T
<1>17. n \in 0..n
  BY <1>1
<1>18. FitOld(msgs, budget) = Cut(msgs, g[n]) /\ g[n] \in SUBSET OldResults(msgs)
  <2>1. f[n] = Cut(msgs, g[n])
    BY <1>17
  <2> HIDE DEF f, n
  <2> QED BY <1>5, <1>15, <1>16, <1>17, <2>1
<1>19. ASSUME UsedChars(Cut(msgs, g[n])) > budget PROVE g[n] = OldResults(msgs)
  <2> DEFINE P(i) == UsedChars(Cut(msgs, g[i])) > budget =>
                       \A j \in OldResults(msgs) : j <= i => j \in g[i]
             T == {i \in 0..n : P(i)}
  <2>1. 0 \in T
    BY <1>1
  <2>2. ASSUME NEW i \in 1..n, i - 1 \in T PROVE i \in T
    <3>1. i \in 0..n /\ P(i - 1)
      BY <1>1, <2>2
    <3>2. ASSUME UsedChars(Cut(msgs, g[i])) > budget, NEW j \in OldResults(msgs), j <= i
          PROVE  j \in g[i]
      <4>1. UsedChars(Cut(msgs, g[i - 1])) > budget
        BY <1>7, <3>2
      <4>2. CASE j = i
        BY <1>7, <4>1, <4>2, <3>2
      <4>3. CASE j # i
        <5>1. j <= i - 1
          BY <1>1, <3>2, <4>3
        <5>2. j \in g[i - 1]
          BY <3>1, <4>1, <5>1
        <5> QED BY <1>7, <5>2
      <4> QED BY <4>2, <4>3
    <3> QED BY <3>1, <3>2
  <2> HIDE DEF n, T
  <2>3. \A i \in 0..n : i \in T
    BY <1>1, <2>1, <2>2, Climb
  <2>4. P(n)
    BY <1>17, <2>3 DEF T
  <2>5. \A j \in OldResults(msgs) : j <= n
    BY <1>1
  <2> QED BY <1>18, <1>19, <2>4, <2>5
<1> QED BY <1>18, <1>19
\* What the texts of a message are.
LEMMA TextsAre ==
    ASSUME NEW m, IsMsg(m), NEW n \in AllTexts(m)
    PROVE  m.role = "tool" /\ \E j \in DOMAIN m.results[1].texts : n = m.results[1].texts[j]
<1>1. PICK i \in DOMAIN m.results : n \in ToSet(m.results[i].texts)
  BY DEF AllTexts
<1>2. DOMAIN m.results = 1..Len(m.results) /\ Len(m.results) \in Nat
  BY DEF IsMsg, Listed
<1>3. Len(m.results) # 0
  BY <1>1, <1>2
<1>4. m.role = "tool" /\ Len(m.results) = 1
  BY <1>3 DEF IsMsg
<1>5. i = 1
  BY <1>1, <1>2, <1>4
<1> QED BY <1>1, <1>4, <1>5 DEF ToSet

\* A conversation that differs in the texts of its results only.
SameButTexts(new, msgs) ==
    /\ Conversation(new) /\ Len(new) = Len(msgs) /\ DOMAIN new = DOMAIN msgs
    /\ \A i \in DOMAIN msgs : new[i].role = msgs[i].role /\ WithoutTexts(new[i]) = WithoutTexts(msgs[i])
    /\ LastTool(new) = LastTool(msgs)

ShortTexts(m, keep) == \A n \in AllTexts(m) : n <= keep + Marker

LEMMA CutIs ==
    ASSUME PromptAssumption, NEW msgs, Conversation(msgs), NEW D \in SUBSET OldResults(msgs)
    PROVE  /\ SameButTexts(Cut(msgs, D), msgs)
           /\ \A i \in D : ShortTexts(Cut(msgs, D)[i], OldKeep)
<1> DEFINE new == Cut(msgs, D)
<1>1. /\ new = [j \in DOMAIN msgs |-> new[j]]
      /\ \A j \in DOMAIN msgs : new[j] = IF j \in D THEN Shrink(msgs[j], OldKeep) ELSE msgs[j]
  BY DEF Cut
<1>2. Listed(msgs) /\ DOMAIN msgs = 1..Len(msgs)
  BY DEF Conversation, Listed
<1>3. Listed(new) /\ Len(new) = Len(msgs) /\ DOMAIN new = DOMAIN msgs
  <2> HIDE DEF new
  <2> QED BY <1>1, <1>2, MapListed
<1>4. ASSUME NEW j \in D
      PROVE  /\ IsMsg(new[j]) /\ new[j].role = msgs[j].role /\ WithoutTexts(new[j]) = WithoutTexts(msgs[j])
             /\ ShortTexts(new[j], OldKeep)
  <2>1. j \in DOMAIN msgs /\ msgs[j].role = "tool" /\ new[j] = Shrink(msgs[j], OldKeep)
    BY <1>1 DEF OldResults
  <2>2. IsMsg(msgs[j]) /\ OldKeep \in Nat
    BY <2>1 DEF Conversation, PromptAssumption
  <2> DEFINE w == Shrink(msgs[j], OldKeep)
  <2>3. /\ IsMsg(w) /\ w.role = msgs[j].role /\ WithoutTexts(w) = WithoutTexts(msgs[j])
        /\ \A i \in DOMAIN w.results[1].texts : w.results[1].texts[i] <= OldKeep + Marker
    BY <2>1, <2>2, ShrinkIs
  <2> HIDE DEF w
  <2>4. ShortTexts(w, OldKeep)
    BY <2>3, TextsAre, SMTT(30), ZenonT(60), Z3T(60) DEF ShortTexts
  <2>5. new[j] = w
    BY <2>1 DEF w
  <2> HIDE DEF new
  <2> QED BY <2>3, <2>4, <2>5
<1>5. ASSUME NEW j \in DOMAIN msgs
      PROVE IsMsg(new[j]) /\ new[j].role = msgs[j].role /\ WithoutTexts(new[j]) = WithoutTexts(msgs[j])
  BY <1>1, <1>4 DEF Conversation
<1> HIDE DEF new
<1>6. LastTool(new) = LastTool(msgs)
  BY <1>2, <1>3, <1>5, SameLastTool
<1>7. SameButTexts(new, msgs)
  BY <1>3, <1>5, <1>6 DEF SameButTexts, Conversation
<1> QED BY <1>4, <1>7 DEF new

\* The latest result is cut to the room there is: then the prompt fits, or the
\* least was left of it, or it has more than one text.
LEMMA CutLatest ==
    ASSUME PromptAssumption, NEW msgs, Conversation(msgs), NEW budget \in Nat, UsedChars(msgs) > budget,
           LastTool(msgs) # 0
    PROVE  LET last == LastTool(msgs)
               new == FitLatest(msgs, budget)
           IN  /\ SameButTexts(new, msgs)
               /\ \A i \in DOMAIN msgs : i # last => new[i] = msgs[i]
               /\ \/ UsedChars(new) <= budget
                  \/ ShortTexts(new[last], LatestMin)
                  \/ Len(new[last].results[1].texts) > 1
<1> DEFINE last == LastTool(msgs)
           m == msgs[last]
           others == UsedChars(msgs) - ResultChars(m)
           room == IF budget >= others + Allowance THEN budget - others - Allowance ELSE 0
           keep == IF room > LatestMin THEN room ELSE LatestMin
           w == Shrink(m, keep)
           new == [msgs EXCEPT ![last] = w]
<1>1. last \in DOMAIN msgs /\ m.role = "tool" /\ IsMsg(m)
  BY LastToolIs DEF Conversation
<1>2. UsedChars(msgs) \in Nat /\ ResultChars(m) \in Nat /\ Allowance \in Nat /\ LatestMin \in Nat
      /\ Marker \in Nat /\ Marker <= Allowance
  BY <1>1, UsedIsNat, ResultsSum DEF PromptAssumption
<1>3. FitLatest(msgs, budget) = new
  <2>1. ~(UsedChars(msgs) <= budget \/ last = 0)
    BY <1>2
  <2> QED BY <2>1 DEF FitLatest
<1>4. keep \in Nat
  <2>1. others \in Int
    BY <1>2
  <2> HIDE DEF others
  <2> QED BY <1>2, <2>1
<1>5. /\ IsMsg(w) /\ w.role = m.role /\ w.blocks = m.blocks /\ w.calls = m.calls
      /\ WithoutTexts(w) = WithoutTexts(m)
      /\ Len(w.results[1].texts) = Len(m.results[1].texts)
      /\ \A i \in DOMAIN w.results[1].texts : w.results[1].texts[i] <= keep + Marker
  <2> HIDE DEF keep, m
  <2> QED BY <1>1, <1>4, ShrinkIs
<1>6. Conversation(new) /\ UsedChars(new) + MessageChars(m) = UsedChars(msgs) + MessageChars(w)
  <2> HIDE DEF w, last
  <2> QED BY <1>1, <1>5, UsedSwaps
<1>7. /\ DOMAIN new = DOMAIN msgs
      /\ \A i \in DOMAIN msgs : new[i] = IF i = last THEN w ELSE msgs[i]
  OBVIOUS
<1>8. SameButTexts(new, msgs)
  <2>1. Len(new) = Len(msgs)
    <3>1. new = [i \in DOMAIN msgs |-> new[i]] /\ Listed(msgs)
      BY DEF Conversation
    <3> HIDE DEF new
    <3> QED BY <3>1, MapListed
  <2>2. \A i \in DOMAIN msgs : new[i].role = msgs[i].role /\ WithoutTexts(new[i]) = WithoutTexts(msgs[i])
    <3> HIDE DEF new, w
    <3> QED BY <1>5, <1>7
  <2>3. LastTool(new) = LastTool(msgs)
    <3>1. DOMAIN msgs = 1..Len(msgs)
      BY DEF Conversation, Listed
    <3> HIDE DEF new
    <3> QED BY <2>1, <2>2, <3>1, SameLastTool
  <2> HIDE DEF new
  <2> QED BY <1>6, <1>7, <2>1, <2>2, <2>3 DEF SameButTexts
<1>9. new[last] = w /\ \A i \in DOMAIN msgs : i # last => new[i] = msgs[i]
  BY <1>1, <1>7
<1> DEFINE lens == w.results[1].texts
<1>10. ShortTexts(w, keep)
  <2> HIDE DEF w, keep
  <2> QED BY <1>5, TextsAre DEF ShortTexts
<1>11. ASSUME keep = room, room > LatestMin, ~(Len(lens) > 1)
       PROVE  UsedChars(new) <= budget
  <2>1. lens \in Seq(Nat) /\ ResultChars(w) = SumOf(lens)
    <3> HIDE DEF w
    <3> QED BY <1>1, <1>5, ResultsSum DEF IsMsg
  <2>2. ResultChars(w) <= keep + Marker /\ ResultChars(w) \in Nat
    <3> HIDE DEF lens, w, keep
    <3>1. Len(lens) \in Nat /\ DOMAIN lens = 1..Len(lens) /\ \A i \in 1..Len(lens) : lens[i] \in Nat
      BY <2>1, LenProperties, ElementOfSeq
    <3>2. CASE Len(lens) = 0
      BY <1>2, <1>4, <2>1, <3>1, <3>2, SumOfFew
    <3>3. CASE Len(lens) = 1
      <4>1. 1 \in DOMAIN lens /\ SumOf(lens) = lens[1] /\ lens[1] \in Nat
        BY <3>1, <3>3, SumOfFew
      <4>2. lens[1] <= keep + Marker
        BY <1>5, <4>1 DEF lens
      <4> QED BY <2>1, <4>1, <4>2
    <3> QED BY <1>11, <3>1, <3>2, <3>3
  <2>3. OwnChars(w) = OwnChars(m)
    <3> HIDE DEF w
    <3> QED BY <1>5 DEF OwnChars
  <2> HIDE DEF w, keep, m, new, lens
  <2>4. PICK o \in Nat : o = OwnChars(m) /\ MessageChars(m) = o + ResultChars(m) /\ MessageChars(w) = o + ResultChars(w)
    BY <1>1, <1>5, <2>3, MessageSum
  <2>5. PICK u \in Nat : u = UsedChars(msgs)
    BY <1>2
  <2>6. PICK v \in Nat : v = UsedChars(new)
    BY <1>6, UsedIsNat
  <2>7. PICK x \in Nat : x = ResultChars(m)
    BY <1>2
  <2>8. PICK y \in Nat : y = ResultChars(w)
    BY <2>2
  <2>9. v + (o + x) = u + (o + y)
    BY <1>6, <2>4, <2>5, <2>6, <2>7, <2>8
  <2>10. budget >= (u - x) + Allowance /\ keep = budget - (u - x) - Allowance
    <3>1. room # 0
      BY <1>2, <1>11
    <3> QED BY <1>11, <2>5, <2>7, <3>1
  <2>11. y <= keep + Marker
    BY <2>2, <2>8
  <2>12. v <= budget
    BY <1>2, <1>4, <2>9, <2>10, <2>11
  <2> QED BY <2>6, <2>12
<1>12. keep = LatestMin \/ (keep = room /\ room > LatestMin)
  <2>1. ASSUME NEW r, NEW k, k = IF r > LatestMin THEN r ELSE LatestMin
        PROVE  k = LatestMin \/ (k = r /\ r > LatestMin)
    BY <2>1
  <2> HIDE DEF room
  <2> QED BY <2>1
<1> HIDE DEF keep, room, w, new
<1>13. \/ UsedChars(new) <= budget
       \/ ShortTexts(new[last], LatestMin)
       \/ Len(new[last].results[1].texts) > 1
  BY <1>9, <1>10, <1>11, <1>12
<1> QED BY <1>3, <1>8, <1>9, <1>13
\* What a prompt for Ollama has become: it fits, or nothing was left to cut.
FlooredIn(new, i) ==
    LET last == LastTool(new) IN
    \/ ShortTexts(new[i], IF i = last THEN LatestMin ELSE OldKeep)
    \/ i = last /\ \E j \in DOMAIN new[i].results : Len(new[i].results[j].texts) > 1

LEMMA OthersHaveNone ==
    ASSUME NEW m, IsMsg(m), m.role # "tool", NEW keep
    PROVE  ShortTexts(m, keep)
BY TextsAre DEF ShortTexts

LEMMA FitToWindowIs ==
    ASSUME PromptAssumption, NEW msgs, Conversation(msgs), NEW budget \in Nat
    PROVE  LET new == FitToWindow(msgs, budget) IN
           /\ SameButTexts(new, msgs)
           /\ budget = 0 \/ UsedChars(new) <= budget \/ \A i \in DOMAIN msgs : FlooredIn(new, i)
<1>0. SameButTexts(msgs, msgs)
  BY DEF SameButTexts
<1>1. CASE budget = 0 \/ UsedChars(msgs) <= budget
  BY <1>0, <1>1 DEF FitToWindow
<1>2. CASE ~(budget = 0 \/ UsedChars(msgs) <= budget)
  <2>1. PICK D \in SUBSET OldResults(msgs) :
              /\ FitOld(msgs, budget) = Cut(msgs, D)
              /\ UsedChars(Cut(msgs, D)) > budget => D = OldResults(msgs)
    BY FitOldIs
  <2> DEFINE old == Cut(msgs, D)
             new == FitLatest(old, budget)
             last == LastTool(msgs)
  <2>2. FitToWindow(msgs, budget) = new
    BY <1>2, <2>1 DEF FitToWindow
  <2>3. SameButTexts(old, msgs) /\ \A i \in D : ShortTexts(old[i], OldKeep)
    BY CutIs
  <2>4. Conversation(old) /\ UsedChars(old) \in Nat /\ LastTool(old) = last
    BY <2>3, UsedIsNat DEF SameButTexts
  <2>5. CASE UsedChars(old) <= budget
    <3>1. new = old
      BY <2>5 DEF FitLatest
    <3> HIDE DEF new, old
    <3> QED BY <2>2, <2>3, <2>5, <3>1
  <2>6. CASE UsedChars(old) > budget
    <3>1. ASSUME NEW i \in DOMAIN msgs, i # last PROVE ShortTexts(old[i], OldKeep)
      <4>1. IsMsg(old[i]) /\ old[i].role = msgs[i].role
        BY <2>3 DEF SameButTexts, Conversation
      <4>2. CASE msgs[i].role = "tool"
        <5>1. i \in D
          BY <2>1, <2>6, <3>1, <4>2 DEF OldResults
        <5> QED BY <2>3, <5>1
      <4>3. CASE msgs[i].role # "tool"
        <5> HIDE DEF old
        <5> QED BY <4>1, <4>3, OthersHaveNone
      <4> QED BY <4>2, <4>3
    <3>2. CASE last = 0
      <4>1. new = old
        BY <2>4, <3>2 DEF FitLatest
      <4>2. \A i \in DOMAIN msgs : i # last
        BY <3>2 DEF Conversation, Listed
      <4>3. \A i \in DOMAIN msgs : FlooredIn(old, i)
        <5> HIDE DEF old, last
        <5> QED BY <2>4, <3>1, <4>2 DEF FlooredIn
      <4> HIDE DEF old, new, last
      <4> QED BY <2>2, <2>3, <4>1, <4>3
    <3>3. CASE last # 0
      <4> HIDE DEF old
      <4>1. /\ SameButTexts(new, old)
            /\ \A i \in DOMAIN old : i # last => new[i] = old[i]
            /\ \/ UsedChars(new) <= budget
               \/ ShortTexts(new[last], LatestMin)
               \/ Len(new[last].results[1].texts) > 1
        BY <2>4, <2>6, <3>3, CutLatest
      <4> HIDE DEF new, last
      <4>2. SameButTexts(new, msgs)
        BY <2>3, <4>1 DEF SameButTexts
      <4>3. ASSUME ~(UsedChars(new) <= budget), NEW i \in DOMAIN msgs PROVE FlooredIn(new, i)
        <5>1. LastTool(new) = last
          BY <4>2 DEF SameButTexts, last
        <5>2. CASE i # last
          <6>1. new[i] = old[i]
            BY <2>3, <4>1, <5>2 DEF SameButTexts
          <6> QED BY <3>1, <5>1, <5>2, <6>1 DEF FlooredIn
        <5>3. CASE i = last
          <6>1. CASE ShortTexts(new[last], LatestMin)
            BY <5>1, <5>3, <6>1 DEF FlooredIn
          <6>2. CASE Len(new[last].results[1].texts) > 1
            <7>1. new[last].role = "tool" /\ IsMsg(new[last])
              <8>1. last \in DOMAIN new /\ Conversation(new)
                BY <4>2, <5>3 DEF SameButTexts
              <8> QED BY <3>3, <5>1, <8>1, LastToolIs DEF Conversation
            <7>2. 1 \in DOMAIN new[last].results
              BY <7>1 DEF IsMsg, Listed
            <7> QED BY <5>1, <5>3, <6>2, <7>2 DEF FlooredIn
          <6> QED BY <4>1, <4>3, <6>1, <6>2
        <5> QED BY <5>2, <5>3
      <4> QED BY <2>2, <4>2, <4>3
    <3> QED BY <3>2, <3>3
  <2> QED BY <2>4, <2>5, <2>6
<1> QED BY <1>1, <1>2

-----------------------------------------------------------------------------
(* The conversation is one, and what is sent was made of it.               *)

PromptTypes == Conversation(prompt) /\ window \in Windows
SentIs == sent.provider = "ollama" => sent.msgs = FitToWindow(prompt, ContextWindow(window))
PromptInv == PromptTypes /\ SentIs

LEMMA AppendMsgs ==
    ASSUME NEW msgs, Conversation(msgs), NEW more, Conversation(more)
    PROVE  Conversation(msgs \o more)
<1> DEFINE n == Len(msgs)
           k == Len(more)
           S == {msgs[i] : i \in 1..n} \cup {more[i] : i \in 1..k}
           all == msgs \o more
<1>1. /\ n \in Nat /\ DOMAIN msgs = 1..n /\ msgs = [i \in 1..n |-> msgs[i]]
      /\ k \in Nat /\ DOMAIN more = 1..k /\ more = [i \in 1..k |-> more[i]]
  BY DEF Conversation, Listed
<1>2. msgs \in Seq(S) /\ more \in Seq(S)
  <2>1. msgs \in [1..n -> S] /\ more \in [1..k -> S]
    <3>1. (\A i \in 1..n : msgs[i] \in S) /\ (\A i \in 1..k : more[i] \in S)
      OBVIOUS
    <3> HIDE DEF S, n, k
    <3> QED BY <1>1, <3>1
  <2> HIDE DEF S
  <2> QED BY <1>1, <2>1, SeqDef
<1>3. \A m \in S : IsMsg(m)
  BY <1>1 DEF Conversation
<1> HIDE DEF S
<1>4. all \in Seq(S)
  BY <1>2, ConcatProperties
<1> HIDE DEF all
<1>5. Len(all) \in Nat /\ all = [i \in 1..Len(all) |-> all[i]] /\ \A i \in 1..Len(all) : all[i] \in S
  BY <1>4
<1>6. Conversation(all)
  BY <1>3, <1>5 DEF Conversation, Listed
<1> QED BY <1>6 DEF all

LEMMA AppendIs ==
    ASSUME NEW msgs, Conversation(msgs), NEW m, IsMsg(m)
    PROVE  Conversation(Append(msgs, m))
<1> DEFINE n == Len(msgs)
           S == {msgs[i] : i \in 1..n} \cup {m}
           all == Append(msgs, m)
<1>1. /\ n \in Nat /\ DOMAIN msgs = 1..n /\ msgs = [i \in 1..n |-> msgs[i]]
  BY DEF Conversation, Listed
<1>2. msgs \in Seq(S) /\ m \in S
  <2>1. msgs \in [1..n -> S]
    <3>1. \A i \in 1..n : msgs[i] \in S
      OBVIOUS
    <3> HIDE DEF S, n
    <3> QED BY <1>1, <3>1
  <2>2. m \in S
    OBVIOUS
  <2> HIDE DEF S
  <2> QED BY <1>1, <2>1, <2>2, SeqDef
<1>3. \A x \in S : IsMsg(x)
  BY <1>1 DEF Conversation
<1> HIDE DEF S
<1>4. all \in Seq(S)
  BY <1>2, AppendProperties
<1> HIDE DEF all
<1>5. Len(all) \in Nat /\ all = [i \in 1..Len(all) |-> all[i]] /\ \A i \in 1..Len(all) : all[i] \in S
  BY <1>4
<1>6. Conversation(all)
  BY <1>3, <1>5 DEF Conversation, Listed
<1> QED BY <1>6 DEF all

\* capBlocks gives as many texts as it got.
LEMMA CapIs ==
    ASSUME PromptAssumption, NEW lens \in Seq(Nat)
    PROVE  CapBlocks(lens) \in Seq(Nat)
<1> DEFINE n == Len(lens)
           base == ResultMax
           step == [x \in Nat \X Nat |->
                      IF x[2] \in 1..n /\ lens[x[2]] <= x[1] THEN x[1] - lens[x[2]] ELSE 0]
           Lefts(f) == f = [i \in 0..n |->
                         IF i = 0 THEN ResultMax
                         ELSE IF lens[i] <= f[i - 1] THEN f[i - 1] - lens[i] ELSE 0]
           left == CHOOSE f : Lefts(f)
           kept(i) == IF left[i - 1] < HeadTail THEN HeadTail ELSE left[i - 1]
           trimmed == [i \in DOMAIN lens |->
                     IF lens[i] <= left[i - 1] \/ lens[i] <= kept(i) THEN lens[i]
                     ELSE kept(i) + Marker]
<1>1. n \in Nat /\ base \in Nat /\ DOMAIN lens = 1..n /\ \A i \in 1..n : lens[i] \in Nat
  BY DEF PromptAssumption
<1>2. step \in [Nat \X Nat -> Nat]
  <2>1. \A a \in Nat, i \in Nat : i \in 1..n /\ lens[i] <= a => a - lens[i] \in Nat
    BY <1>1
  <2> HIDE DEF n
  <2> QED BY <2>1
<1>3. PICK f : IsUpto(f, Nat, base, step, n)
  <2> HIDE DEF n, base, step
  <2> QED BY <1>1, <1>2, Recursion
<1>4. /\ f \in [0..n -> Nat]
      /\ f = [i \in 0..n |-> IF i = 0 THEN base ELSE step[<<f[i - 1], i>>]]
  <2> HIDE DEF n, base, step
  <2> QED BY <1>3 DEF IsUpto
<1>5. ASSUME NEW i \in 0..n, i # 0
      PROVE  step[<<f[i - 1], i>>] = IF lens[i] <= f[i - 1] THEN f[i - 1] - lens[i] ELSE 0
  <2>1. i - 1 \in 0..n /\ i \in 1..n /\ i \in Nat
    BY <1>1, <1>5
  <2>2. f[i - 1] \in Nat
    BY <1>4, <2>1
  <2>3. <<f[i - 1], i>> \in Nat \X Nat
    BY <2>1, <2>2
  <2> HIDE DEF n
  <2> QED BY <2>1, <2>3
<1>6. Lefts(f)
  <2> HIDE DEF n, step
  <2> QED BY <1>4, <1>5
<1>7. Lefts(left)
  <2> HIDE DEF Lefts
  <2> QED BY <1>6
<1> HIDE DEF left
<1>8. \A i \in 0..n : left[i] \in Nat
  <2>1. 0 \in 0..n /\ \A i \in 1..n : i \in 0..n /\ i # 0
    BY <1>1
  <2>2. left[0] \in Nat
    <3> HIDE DEF n
    <3> QED BY <1>1, <1>7, <2>1
  <2>3. ASSUME NEW i \in 1..n, left[i - 1] \in Nat PROVE left[i] \in Nat
    <3>1. left[i] = IF lens[i] <= left[i - 1] THEN left[i - 1] - lens[i] ELSE 0
      <4> HIDE DEF n
      <4> QED BY <1>7, <2>1
    <3>2. lens[i] \in Nat
      BY <1>1
    <3> QED BY <2>3, <3>1, <3>2
  <2> HIDE DEF n
  <2> QED BY <1>1, <2>2, <2>3, PassedOn
<1>9. \A i \in 1..n : trimmed[i] \in Nat
  <2> SUFFICES ASSUME NEW i \in 1..n PROVE trimmed[i] \in Nat
    OBVIOUS
  <2>1. left[i - 1] \in Nat
    <3>1. i - 1 \in 0..n
      BY <1>1
    <3> QED BY <1>8, <3>1
  <2>2. lens[i] \in Nat /\ HeadTail \in Nat /\ Marker \in Nat /\ i \in DOMAIN lens
    BY <1>1 DEF PromptAssumption
  <2> QED BY <2>1, <2>2
<1>10. trimmed \in Seq(Nat)
  <2>1. trimmed \in [1..n -> Nat]
    <3>1. trimmed = [i \in 1..n |-> trimmed[i]]
      BY <1>1
    <3> HIDE DEF trimmed, n
    <3> QED BY <1>9, <3>1
  <2> HIDE DEF trimmed, n
  <2> QED BY <1>1, <2>1, SeqDef
<1>11. CapBlocks(lens) = IF SumOf(lens) <= ResultMax THEN lens ELSE trimmed
  BY DEF CapBlocks, left
<1> QED BY <1>10, <1>11

-----------------------------------------------------------------------------
(* The actions.                                                            *)

LEMMA InitPrompt == ASSUME PromptAssumption, PromptInit PROVE PromptInv
<1>1. Conversation(<<>>)
  BY DEF Conversation, Listed
<1> QED BY <1>1 DEF PromptInit, PromptInv, PromptTypes, SentIs, Nothing

\* What somebody says, or the hub notes, is a message without results.
LEMMA SaidIsMsg ==
    ASSUME NEW n \in Nat, NEW role, role # "tool"
    PROVE  IsMsg(Msg(role, <<TextBlock(n)>>, <<>>, <<>>))
<1>1. Listed(<<>>) /\ Len(<<>>) = 0
  BY DEF Listed
<1>2. Listed(<<TextBlock(n)>>) /\ DOMAIN <<TextBlock(n)>> = {1} /\ <<TextBlock(n)>>[1].size = n
  <2>1. <<TextBlock(n)>> = [i \in 1..1 |-> <<TextBlock(n)>>[i]]
    OBVIOUS
  <2> QED BY <2>1 DEF Listed, TextBlock
<1> QED BY <1>1, <1>2 DEF IsMsg, Msg

LEMMA NextMsgs ==
    ASSUME PromptInv, Conversation(prompt'), sent' = Nothing, window' = window
    PROVE  PromptInv'
BY DEF PromptInv, PromptTypes, SentIs, Nothing

\* An order of n calls gives each place one of them.
LEMMA OrderIs ==
    ASSUME NEW n, NEW p \in Orders(n)
    PROVE  p \in [1..n -> 1..n] /\ \A k \in 1..n : p[k] \in 1..n
BY DEF Orders, Bijection, Injection, Surjection

LEMMA AnswerIs ==
    ASSUME PromptAssumption, Conversation(prompt), NEW t \in Turns, NEW outs \in [DOMAIN t.calls -> Outputs],
           NEW order \in Orders(Len(t.calls))
    PROVE  Conversation(Append(prompt, Msg("assistant", t.blocks, t.calls, <<>>)) \o
                 [k \in DOMAIN t.calls |-> Result(t.calls[order[k]], outs[order[k]])])
<1> DEFINE said == Msg("assistant", t.blocks, t.calls, <<>>)
           more == [k \in DOMAIN t.calls |-> Result(t.calls[order[k]], outs[order[k]])]
<1>0. Listed(<<>>) /\ Len(<<>>) = 0 /\ DOMAIN <<>> = {}
  BY DEF Listed
<1>1. /\ Len(t.blocks) \in Nat /\ DOMAIN t.blocks = 1..Len(t.blocks)
      /\ t.blocks = [i \in DOMAIN t.blocks |-> t.blocks[i]]
      /\ \A i \in DOMAIN t.blocks : t.blocks[i].size \in Nat
      /\ Len(t.calls) \in Nat /\ DOMAIN t.calls = 1..Len(t.calls)
  <2> DEFINE B == [type : {"text", "thinking"}, size : Nat, at : Nat, signed : BOOLEAN]
  <2>1. t.blocks \in Seq(B) /\ Len(t.calls) \in Nat /\ DOMAIN t.calls = 1..Len(t.calls)
    BY DEF PromptAssumption
  <2>2. \A b \in B : b.size \in Nat
    OBVIOUS
  <2> HIDE DEF B
  <2>3. PICK s \in Seq(B) : s = t.blocks
    BY <2>1
  <2>4. Len(s) \in Nat /\ DOMAIN s = 1..Len(s) /\ s = [i \in DOMAIN s |-> s[i]]
    BY LenProperties
  <2>5. \A i \in DOMAIN s : s[i].size \in Nat
    BY <2>2, <2>4, ElementOfSeq
  <2> QED BY ONLY <2>1, <2>3, <2>4, <2>5
<1>2. IsMsg(said)
  <2>1. said = [role |-> "assistant", blocks |-> t.blocks, calls |-> t.calls, results |-> <<>>]
    BY DEF Msg
  <2> HIDE DEF said
  <2> QED BY <1>0, <1>1, <2>1 DEF IsMsg, Listed
<1>3. Conversation(Append(prompt, said))
  <2> HIDE DEF said
  <2> QED BY <1>2, AppendIs
<1>4. ASSUME NEW i \in DOMAIN t.calls PROVE IsMsg(more[i])
  <2>0. PICK c \in DOMAIN t.calls : c = order[i]
    BY <1>1, OrderIs
  <2> DEFINE r == [id |-> t.calls[c].id, texts |-> CapBlocks(outs[c])]
             m == Msg("tool", <<>>, <<>>, <<r>>)
  <2>1. CapBlocks(outs[c]) \in Seq(Nat)
    <3>1. outs[c] \in Seq(Nat)
      BY DEF PromptAssumption
    <3> QED BY <3>1, CapIs
  <2>2. r.texts \in Seq(Nat) /\ r = [id |-> r.id, texts |-> r.texts]
    BY <2>1
  <2>5. more[i] = m
    BY <2>0 DEF Result
  <2> HIDE DEF r
  <2>3. Listed(<<r>>) /\ Len(<<r>>) = 1 /\ <<r>>[1] = r
    <3>1. <<r>> = [j \in 1..1 |-> <<r>>[j]]
      OBVIOUS
    <3> QED BY <3>1 DEF Listed
  <2>4. m = [role |-> "tool", blocks |-> <<>>, calls |-> <<>>, results |-> <<r>>]
    BY DEF Msg
  <2> HIDE DEF m, more
  <2>6. IsMsg(m)
    BY <1>0, <2>2, <2>3, <2>4 DEF IsMsg
  <2> QED BY <2>5, <2>6
<1>5. Conversation(more)
  <2>1. more = [i \in 1..Len(t.calls) |-> more[i]] /\ DOMAIN more = DOMAIN t.calls
    BY <1>1
  <2> HIDE DEF more
  <2>2. Listed(more)
    BY <1>1, <2>1, LenIs
  <2> QED BY <1>4, <2>1, <2>2 DEF Conversation
<1> HIDE DEF said, more
<1>6. Conversation(Append(prompt, said) \o more)
  BY <1>3, <1>5, AppendMsgs
<1> QED BY <1>6 DEF said, more

LEMMA PromptStep == ASSUME PromptAssumption, PromptInv, [PromptNext]_promptvars PROVE PromptInv'
<1>c. Conversation(prompt) /\ Says \subseteq Nat
  BY DEF PromptInv, PromptTypes, PromptAssumption
<1>1. ASSUME NEW n \in Says, Say(n) PROVE PromptInv'
  <2>1. IsMsg(Msg("user", <<TextBlock(n)>>, <<>>, <<>>))
    BY <1>c, SaidIsMsg
  <2>2. Conversation(prompt')
    BY <1>c, <1>1, <2>1, AppendIs DEF Say
  <2> QED BY <1>1, <2>2, NextMsgs DEF Say
<1>2. ASSUME Note PROVE PromptInv'
  <2>1. IsMsg(Msg("system", <<TextBlock(1)>>, <<>>, <<>>))
    BY SaidIsMsg
  <2>2. Conversation(prompt')
    BY <1>c, <1>2, <2>1, AppendIs DEF Note
  <2> QED BY <1>2, <2>2, NextMsgs DEF Note
<1>3. ASSUME NEW t \in Turns, NEW outs \in [DOMAIN t.calls -> Outputs],
             NEW order \in Orders(Len(t.calls)), Answer(t, outs, order)
      PROVE  PromptInv'
  <2>1. Conversation(prompt')
    BY <1>c, <1>3, AnswerIs DEF Answer
  <2> QED BY <1>3, <2>1, NextMsgs DEF Answer
<1>4. ASSUME NEW p \in {"openai", "ollama", "anthropic"}, SendPrompt(p) PROVE PromptInv'
  <2>1. /\ UNCHANGED <<prompt, window>> /\ sent'.provider = p
        /\ sent'.msgs = IF p = "ollama" THEN FitToWindow(prompt, ContextWindow(window)) ELSE prompt
    BY <1>4 DEF SendPrompt
  <2> QED BY <2>1 DEF PromptInv, PromptTypes, SentIs
<1>5. CASE UNCHANGED promptvars
  BY <1>5 DEF promptvars, PromptInv, PromptTypes, SentIs
<1> QED BY <1>1, <1>2, <1>3, <1>4, <1>5 DEF PromptNext

LEMMA WindowIs ==
    ASSUME PromptAssumption, NEW w \in Windows
    PROVE  /\ ContextWindow(w) \in Nat /\ w.chat \in Nat
           /\ w.chat > 0 => ContextWindow(w) > 0 /\ ContextWindow(w) <= w.chat
<1>1. w.declared \in Nat /\ w.setting \in Nat /\ w.shown \in Nat /\ w.chat \in Nat /\ AutoCap \in Nat
  BY DEF PromptAssumption
<1> DEFINE own == IF w.declared > 0 THEN w.declared
                  ELSE IF w.setting > 0 THEN w.setting ELSE Least(w.shown, AutoCap)
<1>2. own \in Nat
  BY <1>1 DEF Least
<1>3. ContextWindow(w) = IF w.chat > 0 /\ (own = 0 \/ w.chat < own) THEN w.chat ELSE own
  BY DEF ContextWindow
<1> HIDE DEF own
<1> QED BY <1>1, <1>2, <1>3

LEMMA PromptFits == ASSUME PromptAssumption, PromptInv PROVE FitsOrFloored
<1> SUFFICES ASSUME sent.provider = "ollama"
             PROVE  /\ \A i \in DOMAIN prompt : WithoutTexts(sent.msgs[i]) = WithoutTexts(prompt[i])
                    /\ \/ window.chat > 0 /\ UsedChars(sent.msgs) <= window.chat
                       \/ window.chat = 0 /\ (ContextWindow(window) = 0
                                             \/ UsedChars(sent.msgs) <= ContextWindow(window))
                       \/ \A i \in DOMAIN prompt : Floored(i)
  BY DEF FitsOrFloored
<1> DEFINE w == ContextWindow(window)
<1>1. w \in Nat /\ window.chat \in Nat /\ (window.chat > 0 => w > 0 /\ w <= window.chat)
  BY WindowIs DEF PromptInv, PromptTypes
<1>2. sent.msgs = FitToWindow(prompt, w) /\ Conversation(prompt)
  BY DEF PromptInv, PromptTypes, SentIs
<1> HIDE DEF w
<1>3. /\ SameButTexts(sent.msgs, prompt)
      /\ w = 0 \/ UsedChars(sent.msgs) <= w \/ \A i \in DOMAIN prompt : FlooredIn(sent.msgs, i)
  BY <1>1, <1>2, FitToWindowIs
<1>4. \A i \in DOMAIN prompt : FlooredIn(sent.msgs, i) => Floored(i)
  BY DEF FlooredIn, Floored, ShortTexts
<1>5. UsedChars(sent.msgs) \in Nat
  BY <1>3, UsedIsNat DEF SameButTexts
<1>6. \/ window.chat > 0 /\ UsedChars(sent.msgs) <= window.chat
      \/ window.chat = 0 /\ (w = 0 \/ UsedChars(sent.msgs) <= w)
      \/ \A i \in DOMAIN prompt : Floored(i)
  BY <1>1, <1>3, <1>4, <1>5
<1> QED BY <1>3, <1>6 DEF SameButTexts, w

\* A prompt for Ollama is within the model's window and the chat's budget, or
\* there was nothing left to cut of its results; and nothing else of the
\* conversation is changed (fitToWindow, contextWindow, capBlocks).
THEOREM FitsOrFlooredHolds == PromptSpec => []FitsOrFloored
<1>1. PromptInit => PromptInv
  BY PromptAssumption, InitPrompt
<1>2. PromptInv /\ [PromptNext]_promptvars => PromptInv'
  BY PromptAssumption, PromptStep
<1>3. PromptInv => FitsOrFloored
  BY PromptAssumption, PromptFits
<1> QED BY <1>1, <1>2, <1>3, PTL DEF PromptSpec

-----------------------------------------------------------------------------
(* The three formats.  Sequences first, whatever their elements are.       *)

Elems(s) == {s[i] : i \in 1..Len(s)}

LEMMA SeqIn == ASSUME NEW s, Listed(s), NEW S, Elems(s) \subseteq S PROVE s \in Seq(S)
<1>1. \A i \in 1..Len(s) : s[i] \in S
  BY DEF Elems
<1>2. s \in [1..Len(s) -> S] /\ Len(s) \in Nat
  BY <1>1 DEF Listed
<1> QED BY <1>2, SeqDef

LEMMA SeqIsListed == ASSUME NEW S, NEW s \in Seq(S) PROVE Listed(s) /\ DOMAIN s = 1..Len(s)
BY LenProperties DEF Listed

LEMMA SamePlaces ==
    ASSUME NEW a, Listed(a), NEW b, Listed(b), Len(a) = Len(b), \A i \in 1..Len(a) : a[i] = b[i]
    PROVE  a = b
BY DEF Listed

LEMMA ConcatIs ==
    ASSUME NEW a, Listed(a), NEW b, Listed(b)
    PROVE  /\ Listed(a \o b) /\ Len(a \o b) = Len(a) + Len(b)
           /\ \A i \in 1..Len(a) : (a \o b)[i] = a[i]
           /\ \A i \in 1..Len(b) : (a \o b)[Len(a) + i] = b[i]
<1>1. Len(a) \in Nat /\ Len(b) \in Nat
  BY DEF Listed
<1> DEFINE S == Elems(a) \cup Elems(b)
<1>4. a \in Seq(S) /\ b \in Seq(S)
  BY SeqIn
<1> HIDE DEF S
<1>5. /\ a \o b \in Seq(S) /\ Len(a \o b) = Len(a) + Len(b)
      /\ \A i \in 1..(Len(a) + Len(b)) :
           (a \o b)[i] = IF i <= Len(a) THEN a[i] ELSE b[i - Len(a)]
  BY <1>4, ConcatProperties
<1>6. Listed(a \o b)
  BY <1>5, SeqIsListed
<1>7. \A i \in 1..Len(b) : /\ Len(a) + i \in 1..(Len(a) + Len(b))
                           /\ ~(Len(a) + i <= Len(a)) /\ (Len(a) + i) - Len(a) = i
  BY <1>1
<1>8. \A i \in 1..Len(a) : i \in 1..(Len(a) + Len(b)) /\ i <= Len(a)
  BY <1>1
<1> QED BY <1>5, <1>6, <1>7, <1>8

LEMMA SingleIs == ASSUME NEW x PROVE Listed(<<x>>) /\ Len(<<x>>) = 1 /\ <<x>>[1] = x
<1>1. <<x>> = [j \in 1..1 |-> <<x>>[j]]
  OBVIOUS
<1> QED BY <1>1 DEF Listed

LEMMA NoneIs ==
    /\ Listed(<<>>) /\ Len(<<>>) = 0
    /\ \A s : Listed(s) /\ Len(s) = 0 => s = <<>>
<1>1. Listed(<<>>) /\ Len(<<>>) = 0
  BY DEF Listed
<1>2. ASSUME NEW s, Listed(s), Len(s) = 0 PROVE s = <<>>
  BY <1>1, <1>2, SamePlaces
<1> QED BY <1>1, <1>2

LEMMA AppendedIs ==
    ASSUME NEW a, Listed(a), NEW x
    PROVE  /\ Listed(Append(a, x)) /\ Len(Append(a, x)) = Len(a) + 1
           /\ \A i \in 1..Len(a) : Append(a, x)[i] = a[i]
           /\ Append(a, x)[Len(a) + 1] = x
<1>1. Len(a) \in Nat
  BY DEF Listed
<1> DEFINE S == Elems(a) \cup {x}
<1>3. a \in Seq(S) /\ x \in S
  <2>1. x \in S /\ \A i \in 1..Len(a) : a[i] \in S
    BY DEF Elems
  <2> HIDE DEF S
  <2>2. a \in [1..Len(a) -> S]
    BY <2>1 DEF Listed
  <2> QED BY <1>1, <2>1, <2>2, SeqDef
<1> HIDE DEF S
<1>4. /\ Append(a, x) \in Seq(S) /\ Len(Append(a, x)) = Len(a) + 1
      /\ \A i \in 1..Len(a) : Append(a, x)[i] = a[i]
      /\ Append(a, x)[Len(a) + 1] = x
  BY <1>3, AppendProperties
<1>5. Listed(Append(a, x))
  BY <1>4, SeqIsListed
<1> QED BY <1>4, <1>5

LEMMA PartIs ==
    ASSUME NEW s, Listed(s), NEW p \in 0..Len(s), NEW q \in p..Len(s)
    PROVE  /\ Listed(SubSeq(s, p + 1, q)) /\ Len(SubSeq(s, p + 1, q)) = q - p
           /\ \A i \in 1..(q - p) : SubSeq(s, p + 1, q)[i] = s[p + i]
<1>1. Len(s) \in Nat /\ p \in Nat /\ q \in Nat /\ q - p \in Nat
  BY DEF Listed
<1>2. SubSeq(s, p + 1, q) = [i \in 1..(q - p) |-> s[p + i]]
  BY <1>1
<1> DEFINE t == [i \in 1..(q - p) |-> s[p + i]]
<1>3. t = [i \in 1..(q - p) |-> t[i]] /\ \A i \in 1..(q - p) : t[i] = s[p + i]
  OBVIOUS
<1> HIDE DEF t
<1>4. Listed(t) /\ Len(t) = q - p
  BY <1>1, <1>3, LenIs
<1> QED BY <1>2, <1>3, <1>4 DEF t
\* FlattenSeq in steps, each of which joins one more sequence.
LEMMA FlattenSteps ==
    ASSUME NEW S, NEW q \in Seq(Seq(S))
    PROVE  \E g : /\ g[0] = <<>> /\ \A k \in 1..Len(q) : g[k] = g[k - 1] \o q[k]
                  /\ FlattenSeq(q) = g[Len(q)]
<1> DEFINE Joined(f, k) == f = [i \in 1..k |-> IF i = 1 THEN q[i] ELSE f[i - 1] \o q[i]]
           T == {k \in Nat : k \in 1..Len(q) /\ ~ \E f : Joined(f, k)}
<1>1. PICK n : n = Len(q)
  OBVIOUS
<1>2. n \in Nat /\ \A k \in 1..n : q[k] \in Seq(S)
  BY <1>1, LenProperties, ElementOfSeq
<1>3. T = {}
  <2>1. SUFFICES ASSUME T # {} PROVE FALSE
    OBVIOUS
  <2>2. PICK k \in T : \A j \in T : k <= j
    <3>1. T \subseteq Nat
      OBVIOUS
    <3> QED BY <2>1, <3>1, LeastIn
  <2>3. k \in 1..n /\ k \in Nat
    BY <1>1, <1>2
  <2>4. \E f : Joined(f, k)
    <3>1. CASE k = 1
      <4>1. Joined([i \in 1..1 |-> q[i]], 1)
        OBVIOUS
      <4> QED BY <3>1, <4>1
    <3>2. CASE k # 1
      <4>1. k - 1 \in 1..n /\ ~(k <= k - 1) /\ 1..k = (1..(k - 1)) \cup {k} /\ k \notin 1..(k - 1)
        BY <1>2, <2>3, <3>2
      <4>2. PICK f : Joined(f, k - 1)
        <5>1. k - 1 \notin T
          BY <2>2, <4>1
        <5>2. k - 1 \in Nat /\ k - 1 \in 1..Len(q)
          BY <1>1, <2>3, <4>1
        <5> HIDE DEF Joined
        <5> QED BY <5>1, <5>2
      <4>3. PICK g : g = [i \in 1..k |-> IF i = k THEN f[k - 1] \o q[k] ELSE f[i]]
        OBVIOUS
      <4>4. \A i \in 1..(k - 1) : g[i] = f[i] /\ (i # 1 => i - 1 \in 1..(k - 1) /\ g[i - 1] = f[i - 1])
        BY <2>3, <4>1, <4>3
      <4>5. \A i \in 1..(k - 1) : f[i] = IF i = 1 THEN q[i] ELSE f[i - 1] \o q[i]
        BY <4>2
      <4>6. g[k] = g[k - 1] \o q[k]
        <5>1. g[k - 1] = f[k - 1] /\ g[k] = f[k - 1] \o q[k]
          <6>1. k \in 1..k /\ k - 1 \in 1..k /\ k - 1 # k
            BY <2>3, <3>2
          <6> QED BY <4>3, <6>1
        <5> QED BY <5>1
      <4>7. \A i \in 1..k : g[i] = IF i = 1 THEN q[i] ELSE g[i - 1] \o q[i]
        BY <3>2, <4>1, <4>4, <4>5, <4>6
      <4>8. Joined(g, k)
        BY <4>3, <4>7
      <4> QED BY <4>8
    <3> QED BY <3>1, <3>2
  <2> QED BY <2>2, <2>4
<1>4. CASE n = 0
  <2>1. q = <<>>
    BY <1>1, <1>4, EmptySeq
  <2>2. FlattenSeq(q) = <<>>
    BY <1>1, <1>4, <2>1 DEF FlattenSeq
  <2>3. PICK g : g = [i \in {0} |-> <<>>]
    OBVIOUS
  <2> QED BY <1>1, <1>4, <2>2, <2>3
<1>5. CASE n # 0
  <2>1. n \in 1..n
    BY <1>2, <1>5
  <2>2. \E f : f = [i \in 1..n |-> IF i = 1 THEN q[i] ELSE f[i - 1] \o q[i]]
    <3>1. n \notin T
      BY <1>3
    <3>2. \E f : Joined(f, n)
      <4>1. n \in Nat /\ n \in 1..Len(q)
        BY <1>1, <1>2, <2>1
      <4> HIDE DEF Joined
      <4> QED BY <3>1, <4>1
    <3> QED BY <3>2
  <2>3. PICK f : f = [i \in 1..n |-> IF i = 1 THEN q[i] ELSE f[i - 1] \o q[i]]
                 /\ FlattenSeq(q) = f[n]
    BY <1>1, <1>5, <2>2 DEF FlattenSeq
  <2>4. PICK g : g = [i \in 0..n |-> IF i = 0 THEN <<>> ELSE f[i]]
    OBVIOUS
  <2>5. g[0] = <<>> /\ \A i \in 1..n : g[i] = f[i] /\ (i # 1 => i - 1 \in 1..n /\ g[i - 1] = f[i - 1])
    BY <1>2, <2>4
  <2>6. \A i \in 1..n : f[i] = IF i = 1 THEN q[i] ELSE f[i - 1] \o q[i]
    BY <2>3
  <2>7. ASSUME NEW i \in 1..n PROVE g[i] = g[i - 1] \o q[i]
    <3>1. CASE i = 1
      <4>0. PICK b \in Seq(S) : b = q[1]
        BY <1>2, <2>7, <3>1
      <4>1. <<>> \o q[1] = q[1]
        BY <4>0, ConcatEmptySeq
      <4>2. g[1] = q[1] /\ g[0] = <<>>
        BY <2>5, <2>6, <2>7, <3>1
      <4>3. i - 1 = 0
        BY <3>1
      <4> QED BY <3>1, <4>1, <4>2, <4>3
    <3>2. CASE i # 1
      BY <2>5, <2>6, <2>7, <3>2
    <3> QED BY <3>1, <3>2
  <2>8. FlattenSeq(q) = g[n]
    BY <2>1, <2>3, <2>5
  <2>9. /\ g[0] = <<>> /\ \A k \in 1..n : g[k] = g[k - 1] \o q[k]
        /\ FlattenSeq(q) = g[n]
    BY <2>5, <2>7, <2>8
  <2> QED BY <1>1, <2>9
<1> QED BY <1>4, <1>5

\* What joining the first sequences gives, step by step.
IsJoin(g, q) == g[0] = <<>> /\ \A k \in 1..Len(q) : g[k] = g[k - 1] \o q[k]
Lists(q) == Listed(q) /\ \A i \in 1..Len(q) : Listed(q[i])

LEMMA FlattenIs ==
    ASSUME NEW q, Lists(q)
    PROVE  \E g : IsJoin(g, q) /\ FlattenSeq(q) = g[Len(q)]
<1> DEFINE S == UNION {Elems(q[i]) : i \in 1..Len(q)}
<1>1. \A i \in 1..Len(q) : q[i] \in Seq(S)
  <2> SUFFICES ASSUME NEW i \in 1..Len(q) PROVE q[i] \in Seq(S)
    OBVIOUS
  <2>1. Listed(q[i])
    BY DEF Lists
  <2>2. \A j \in 1..Len(q[i]) : q[i][j] \in S
    BY DEF Elems
  <2> HIDE DEF S
  <2>3. q[i] \in [1..Len(q[i]) -> S] /\ Len(q[i]) \in Nat
    BY <2>1, <2>2 DEF Listed
  <2> QED BY <2>3, SeqDef
<1> HIDE DEF S
<1>2. q \in Seq(Seq(S))
  <2>1. q \in [1..Len(q) -> Seq(S)] /\ Len(q) \in Nat
    BY <1>1 DEF Lists, Listed
  <2> QED BY <2>1, SeqDef
<1>3. PICK g : /\ g[0] = <<>> /\ \A k \in 1..Len(q) : g[k] = g[k - 1] \o q[k]
               /\ FlattenSeq(q) = g[Len(q)]
  BY <1>2, FlattenSteps
<1> QED BY <1>3 DEF IsJoin

LEMMA JoinsAreListed ==
    ASSUME NEW q, Lists(q), NEW g, IsJoin(g, q)
    PROVE  \A k \in 0..Len(q) : Listed(g[k])
<1> DEFINE Holds(k) == Listed(g[k])
           n == Len(q)
<1>1. n \in Nat
  BY DEF Lists, Listed
<1>2. Holds(0)
  BY NoneIs DEF IsJoin
<1>3. ASSUME NEW k \in 1..n, Listed(g[k - 1]) PROVE Listed(g[k])
  <2>1. g[k] = g[k - 1] \o q[k] /\ Listed(q[k])
    BY DEF IsJoin, Lists
  <2> QED BY <1>3, <2>1, ConcatIs
<1> DEFINE A == {k \in 0..n : Holds(k)}
           f == [k \in 0..n |-> k]
<1>4. f[0] \in A
  BY <1>1, <1>2
<1>5. ASSUME NEW k \in 1..n, f[k - 1] \in A PROVE f[k] \in A
  <2>1. k - 1 \in 0..n /\ k \in 0..n
    BY <1>1
  <2>2. Holds(k - 1)
    BY <1>5, <2>1
  <2>3. Holds(k)
    BY <1>3, <2>2
  <2> QED BY <2>1, <2>3
<1>6. \A k \in 0..n : f[k] \in A
  <2> HIDE DEF A, f, n
  <2> QED BY <1>1, <1>4, <1>5, PassedOn
<1> QED BY <1>6

LEMMA ConcatNone == ASSUME NEW a, Listed(a) PROVE a \o <<>> = a /\ <<>> \o a = a
<1>1. a \in Seq(Elems(a))
  BY SeqIn
<1> QED BY <1>1, ConcatEmptySeq

LEMMA ConcatThree ==
    ASSUME NEW a, Listed(a), NEW b, Listed(b), NEW c, Listed(c)
    PROVE  (a \o b) \o c = a \o (b \o c)
<1> DEFINE S == Elems(a) \cup Elems(b) \cup Elems(c)
<1>1. a \in Seq(S) /\ b \in Seq(S) /\ c \in Seq(S)
  BY SeqIn
<1> HIDE DEF S
<1> QED BY <1>1, ConcatAssociative

JoinedAt(g, q, k) ==
    /\ Listed(g[k - 1]) /\ Listed(g[k]) /\ Listed(q[k])
    /\ Len(g[k]) = Len(g[k - 1]) + Len(q[k])
    /\ \A i \in 1..Len(g[k - 1]) : g[k][i] = g[k - 1][i]
    /\ \A i \in 1..Len(q[k]) : g[k][Len(g[k - 1]) + i] = q[k][i]

LEMMA JoinStep ==
    ASSUME NEW q, Lists(q), NEW g, IsJoin(g, q)
    PROVE  \A k \in 1..Len(q) : JoinedAt(g, q, k)
<1> SUFFICES ASSUME NEW k \in 1..Len(q) PROVE JoinedAt(g, q, k)
  OBVIOUS
<1>1. k - 1 \in 0..Len(q)
  BY DEF Lists, Listed
<1>2. PICK a, b : a = g[k - 1] /\ b = q[k]
  OBVIOUS
<1>3. Listed(a) /\ Listed(b) /\ g[k] = a \o b
  BY <1>1, <1>2, JoinsAreListed DEF IsJoin, Lists
<1>4. /\ Listed(a \o b) /\ Len(a \o b) = Len(a) + Len(b)
      /\ \A i \in 1..Len(a) : (a \o b)[i] = a[i]
      /\ \A i \in 1..Len(b) : (a \o b)[Len(a) + i] = b[i]
  BY <1>3, ConcatIs
<1> QED BY <1>2, <1>3, <1>4 DEF JoinedAt

\* Sequences of one element each are joined to the sequence of these.
LEMMA FlattenSingles ==
    ASSUME NEW q, Lists(q), \A i \in 1..Len(q) : Len(q[i]) = 1
    PROVE  /\ Listed(FlattenSeq(q)) /\ Len(FlattenSeq(q)) = Len(q)
           /\ \A i \in 1..Len(q) : FlattenSeq(q)[i] = q[i][1]
<1> DEFINE n == Len(q)
<1>1. PICK g : IsJoin(g, q) /\ FlattenSeq(q) = g[n]
  BY FlattenIs
<1>2. n \in Nat
  BY DEF Lists, Listed
<1>g. \A k \in 0..n : Listed(g[k])
  BY <1>1, JoinsAreListed
<1> DEFINE Firsts(k) == Len(g[k]) = k /\ \A i \in 1..k : g[k][i] = q[i][1]
           T == {k \in 0..n : Firsts(k)}
<1>3. 0 \in T
  <2>1. Firsts(0)
    BY <1>1, NoneIs DEF IsJoin
  <2> QED BY <1>2, <2>1
<1>4. ASSUME NEW k \in 1..n, k - 1 \in T PROVE k \in T
  <2>1. Firsts(k - 1) /\ k - 1 \in 0..n /\ k \in 0..n /\ k \in Nat
    BY <1>2, <1>4
  <2>2. Len(q[k]) = 1 /\ Len(g[k - 1]) = k - 1
    BY <1>4, <2>1
  <2>3. /\ Len(g[k]) = (k - 1) + 1
        /\ \A i \in 1..k - 1 : g[k][i] = g[k - 1][i]
        /\ \A i \in 1..1 : g[k][(k - 1) + i] = q[k][i]
    <3>1. /\ Len(g[k]) = Len(g[k - 1]) + Len(q[k])
          /\ \A i \in 1..Len(g[k - 1]) : g[k][i] = g[k - 1][i]
          /\ \A i \in 1..Len(q[k]) : g[k][Len(g[k - 1]) + i] = q[k][i]
      <4>1. k \in 1..Len(q) => JoinedAt(g, q, k)
        BY <1>1, JoinStep
      <4> QED BY <1>4, <4>1 DEF JoinedAt
    <3> QED BY <2>2, <3>1
  <2>4. g[k][k] = q[k][1]
    <3>1. 1 \in 1..1 /\ (k - 1) + 1 = k
      BY <2>1
    <3> QED BY <2>3, <3>1
  <2>5. \A i \in 1..k : i = k \/ i \in 1..k - 1
    BY <2>1
  <2>6. Firsts(k)
    BY <2>1, <2>3, <2>4, <2>5
  <2> QED BY <2>1, <2>6
<1>5. n \in T
  <2> HIDE DEF T, n
  <2>1. \A k \in 0..n : k \in T
    BY <1>2, <1>3, <1>4, Climb
  <2> QED BY <1>2, <2>1
<1>6. n \in 0..n
  BY <1>2
<1> QED BY <1>1, <1>5, <1>6, <1>g

LEMMA FlattenTwo ==
    ASSUME NEW p, Lists(p), NEW q, Lists(q)
    PROVE  /\ Lists(p \o q) /\ FlattenSeq(p \o q) = FlattenSeq(p) \o FlattenSeq(q)
           /\ Listed(FlattenSeq(p)) /\ Listed(FlattenSeq(q))
<1> DEFINE m == Len(p)
           n == Len(q)
           r == p \o q
<1>1. /\ Listed(p) /\ Listed(q) /\ m \in Nat /\ n \in Nat
      /\ Listed(r) /\ Len(r) = m + n
      /\ \A i \in 1..m : r[i] = p[i]
      /\ \A i \in 1..n : r[m + i] = q[i]
  BY ConcatIs DEF Lists, Listed
<1> HIDE DEF r
<1>2. Lists(r)
  <2> SUFFICES ASSUME NEW i \in 1..m + n PROVE Listed(r[i])
    BY <1>1 DEF Lists
  <2>1. CASE i \in 1..m
    BY <1>1, <2>1 DEF Lists
  <2>2. CASE i \notin 1..m
    <3>1. i - m \in 1..n /\ i = m + (i - m)
      BY <1>1, <2>2
    <3> QED BY <1>1, <3>1 DEF Lists
  <2> QED BY <2>1, <2>2
<1>3. PICK g : IsJoin(g, p) /\ FlattenSeq(p) = g[m]
  BY FlattenIs
<1>4. PICK f : IsJoin(f, q) /\ FlattenSeq(q) = f[n]
  BY FlattenIs
<1>5. PICK h : IsJoin(h, r) /\ FlattenSeq(r) = h[Len(r)]
  BY <1>2, FlattenIs
<1>6. /\ \A k \in 0..m : Listed(g[k])
      /\ \A k \in 0..n : Listed(f[k])
  BY <1>3, <1>4, JoinsAreListed
<1> DEFINE T == {k \in 0..m : h[k] = g[k]}
           U == {k \in 0..n : h[m + k] = g[m] \o f[k]}
<1>7. m \in T
  <2>1. 0 \in T
    BY <1>1, <1>3, <1>5 DEF IsJoin
  <2>2. ASSUME NEW k \in 1..m, k - 1 \in T PROVE k \in T
    <3>1. k \in 1..Len(r) /\ k \in 0..m /\ h[k - 1] = g[k - 1]
      BY <1>1, <2>2
    <3>2. h[k] = h[k - 1] \o r[k] /\ g[k] = g[k - 1] \o p[k] /\ r[k] = p[k]
      BY <1>1, <1>3, <1>5, <3>1 DEF IsJoin
    <3> QED BY <3>1, <3>2
  <2> HIDE DEF T, m
  <2>3. \A k \in 0..m : k \in T
    BY <1>1, <2>1, <2>2, Climb
  <2> QED BY <1>1, <2>3
<1>8. n \in U
  <2>1. 0 \in U
    <3>1. f[0] = <<>> /\ Listed(g[m]) /\ m + 0 = m /\ h[m] = g[m] /\ 0 \in 0..n
      BY <1>1, <1>4, <1>6, <1>7 DEF IsJoin
    <3>2. g[m] \o <<>> = g[m]
      BY <3>1, ConcatNone
    <3> QED BY <3>1, <3>2
  <2>2. ASSUME NEW k \in 1..n, k - 1 \in U PROVE k \in U
    <3>0. h[m + (k - 1)] = g[m] \o f[k - 1]
      BY <2>2
    <3>1. /\ m + k \in 1..Len(r) /\ (m + k) - 1 = m + (k - 1) /\ k \in 0..n /\ k - 1 \in 0..n
          /\ h[m + (k - 1)] = g[m] \o f[k - 1]
      BY <1>1, <3>0
    <3>2. h[m + k] = h[m + (k - 1)] \o r[m + k]
      BY <1>5, <3>1 DEF IsJoin
    <3>3. f[k] = f[k - 1] \o q[k] /\ r[m + k] = q[k]
      BY <1>1, <1>4 DEF IsJoin
    <3>4. Listed(g[m]) /\ Listed(f[k - 1]) /\ Listed(q[k])
      BY <1>1, <1>6, <3>1 DEF Lists
    <3>5. (g[m] \o f[k - 1]) \o q[k] = g[m] \o (f[k - 1] \o q[k])
      <4>1. PICK a, b, c : a = g[m] /\ b = f[k - 1] /\ c = q[k]
        OBVIOUS
      <4>2. (a \o b) \o c = a \o (b \o c)
        <5>1. Listed(a) /\ Listed(b) /\ Listed(c)
          BY <3>4, <4>1
        <5> QED BY ONLY <5>1, ConcatThree
      <4> QED BY <4>1, <4>2
    <3>6. h[m + k] = g[m] \o f[k]
      BY <3>1, <3>2, <3>3, <3>5
    <3> QED BY <3>1, <3>6
  <2> HIDE DEF U, n
  <2>3. \A k \in 0..n : k \in U
    BY <1>1, <2>1, <2>2, Climb
  <2> QED BY <1>1, <2>3
<1>9. FlattenSeq(r) = FlattenSeq(p) \o FlattenSeq(q)
  BY <1>1, <1>3, <1>4, <1>5, <1>8
<1> QED BY <1>1, <1>2, <1>3, <1>4, <1>6, <1>9 DEF r

\* What is joined of elements of a set has its elements in it.
LEMMA FlattenWithin ==
    ASSUME NEW q, Listed(q), NEW S, \A i \in 1..Len(q) : q[i] \in Seq(S)
    PROVE  Lists(q) /\ FlattenSeq(q) \in Seq(S)
<1> DEFINE n == Len(q)
<1>1. Lists(q) /\ n \in Nat
  BY SeqIsListed DEF Lists, Listed
<1>2. PICK g : IsJoin(g, q) /\ FlattenSeq(q) = g[n]
  BY <1>1, FlattenIs
<1> DEFINE T == {k \in 0..n : g[k] \in Seq(S)}
<1>3. 0 \in T
  <2>1. g[0] = <<>>
    BY <1>2 DEF IsJoin
  <2>2. g[0] \in Seq(S) /\ 0 \in 0..n
    BY <1>1, <2>1, EmptySeq
  <2> QED BY <2>2
<1>4. ASSUME NEW k \in 1..n, k - 1 \in T PROVE k \in T
  <2>1. PICK a, b : a = g[k - 1] /\ b = q[k]
    OBVIOUS
  <2>2. a \in Seq(S) /\ b \in Seq(S)
    BY <1>4, <2>1
  <2>3. a \o b \in Seq(S)
    BY <2>2, ConcatProperties
  <2>4. g[k] = a \o b
    BY <1>2, <2>1 DEF IsJoin
  <2>5. k \in 0..n
    BY <1>1
  <2> QED BY <2>3, <2>4, <2>5
<1>5. n \in T
  <2> HIDE DEF T, n
  <2>1. \A k \in 0..n : k \in T
    BY <1>1, <1>3, <1>4, Climb
  <2> QED BY <1>1, <2>1
<1> QED BY <1>1, <1>2, <1>5

-----------------------------------------------------------------------------
(* The blocks of one type.                                                 *)

Parts(s, type) == [i \in DOMAIN s |-> IF s[i].type = type THEN <<s[i]>> ELSE <<>>]

LEMMA PartsAre ==
    ASSUME NEW s, Listed(s), NEW type
    PROVE  /\ OfType(s, type) = FlattenSeq(Parts(s, type))
           /\ Lists(Parts(s, type)) /\ Len(Parts(s, type)) = Len(s)
           /\ \A i \in 1..Len(s) : Parts(s, type)[i] = IF s[i].type = type THEN <<s[i]>> ELSE <<>>
<1> DEFINE p == Parts(s, type)
<1>1. DOMAIN s = 1..Len(s) /\ Len(s) \in Nat
  BY DEF Listed
<1>2. p = [i \in DOMAIN s |-> p[i]]
  BY DEF Parts
<1>3. \A i \in 1..Len(s) : p[i] = IF s[i].type = type THEN <<s[i]>> ELSE <<>>
  BY <1>1 DEF Parts
<1>4. OfType(s, type) = FlattenSeq(p)
  BY DEF OfType, Map, Parts
<1> HIDE DEF p
<1>5. Listed(p) /\ Len(p) = Len(s)
  BY <1>2, MapListed
<1>6. ASSUME NEW i \in 1..Len(s) PROVE Listed(p[i])
  <2>1. CASE s[i].type = type
    <3>1. p[i] = <<s[i]>>
      BY <1>3, <2>1
    <3> QED BY <3>1, SingleIs
  <2>2. CASE s[i].type # type
    <3>1. p[i] = <<>>
      BY <1>3, <2>2
    <3> QED BY <3>1, NoneIs
  <2> QED BY <2>1, <2>2
<1>7. Lists(p)
  BY <1>5, <1>6 DEF Lists
<1> QED BY <1>3, <1>4, <1>5, <1>7 DEF p

LEMMA OfTypeTwo ==
    ASSUME NEW a, Listed(a), NEW b, Listed(b), NEW type
    PROVE  /\ OfType(a \o b, type) = OfType(a, type) \o OfType(b, type)
           /\ Listed(OfType(a, type)) /\ Listed(OfType(b, type))
<1>1. PICK p, q, r : p = Parts(a, type) /\ q = Parts(b, type) /\ r = Parts(a \o b, type)
  OBVIOUS
<1>2. /\ Listed(a \o b) /\ Len(a \o b) = Len(a) + Len(b)
      /\ \A i \in 1..Len(a) : (a \o b)[i] = a[i]
      /\ \A i \in 1..Len(b) : (a \o b)[Len(a) + i] = b[i]
  BY ConcatIs
<1>3. /\ OfType(a, type) = FlattenSeq(p) /\ Lists(p) /\ Len(p) = Len(a)
      /\ \A i \in 1..Len(a) : p[i] = IF a[i].type = type THEN <<a[i]>> ELSE <<>>
  BY <1>1, PartsAre
<1>4. /\ OfType(b, type) = FlattenSeq(q) /\ Lists(q) /\ Len(q) = Len(b)
      /\ \A i \in 1..Len(b) : q[i] = IF b[i].type = type THEN <<b[i]>> ELSE <<>>
  BY <1>1, PartsAre
<1>5. PICK c : c = a \o b
  OBVIOUS
<1>6. /\ OfType(c, type) = FlattenSeq(r) /\ Lists(r) /\ Len(r) = Len(c)
      /\ \A i \in 1..Len(c) : r[i] = IF c[i].type = type THEN <<c[i]>> ELSE <<>>
  <2>1. Listed(c) /\ r = Parts(c, type)
    BY <1>1, <1>2, <1>5
  <2> QED BY <2>1, PartsAre
<1>7. PICK z : z = p \o q
  OBVIOUS
<1>8. /\ Lists(z) /\ FlattenSeq(z) = FlattenSeq(p) \o FlattenSeq(q)
      /\ Listed(FlattenSeq(p)) /\ Listed(FlattenSeq(q))
  BY <1>3, <1>4, <1>7, FlattenTwo
<1>9. /\ Len(z) = Len(p) + Len(q)
      /\ \A i \in 1..Len(p) : z[i] = p[i]
      /\ \A i \in 1..Len(q) : z[Len(p) + i] = q[i]
  <2>1. Listed(p) /\ Listed(q)
    BY <1>3, <1>4 DEF Lists
  <2> QED BY <1>7, <2>1, ConcatIs
<1>10. Len(a) \in Nat /\ Len(b) \in Nat
  BY DEF Listed
<1>11. ASSUME NEW i \in 1..Len(r) PROVE r[i] = z[i]
  <2>1. CASE i \in 1..Len(a)
    <3>1. c[i] = a[i] /\ z[i] = p[i] /\ i \in 1..Len(c)
      BY <1>2, <1>3, <1>5, <1>6, <1>9, <1>11, <2>1
    <3> QED BY <1>3, <1>6, <2>1, <3>1
  <2>2. CASE i \notin 1..Len(a)
    <3>1. PICK j \in 1..Len(b) : i = Len(a) + j
      <4>1. i - Len(a) \in 1..Len(b) /\ i = Len(a) + (i - Len(a))
        BY <1>2, <1>5, <1>6, <1>10, <1>11, <2>2
      <4> QED BY <4>1
    <3>2. c[i] = b[j] /\ z[i] = q[j]
      BY <1>2, <1>3, <1>4, <1>5, <1>9, <3>1
    <3> QED BY <1>4, <1>6, <1>11, <3>1, <3>2
  <2> QED BY <2>1, <2>2
<1>12. r = z
  <2>1. Listed(r) /\ Listed(z) /\ Len(r) = Len(z)
    BY <1>2, <1>3, <1>4, <1>5, <1>6, <1>8, <1>9 DEF Lists
  <2> QED BY <1>11, <2>1, SamePlaces
<1> QED BY <1>3, <1>4, <1>5, <1>6, <1>8, <1>12

LEMMA OfTypeAll ==
    ASSUME NEW s, Listed(s), NEW type, \A i \in 1..Len(s) : s[i].type = type
    PROVE  OfType(s, type) = s
<1>1. PICK p : p = Parts(s, type)
  OBVIOUS
<1>2. /\ OfType(s, type) = FlattenSeq(p) /\ Lists(p) /\ Len(p) = Len(s)
      /\ \A i \in 1..Len(s) : p[i] = <<s[i]>>
  BY <1>1, PartsAre
<1>3. \A i \in 1..Len(p) : Len(p[i]) = 1 /\ p[i][1] = s[i]
  BY <1>2, SingleIs
<1>4. PICK f : f = FlattenSeq(p)
  OBVIOUS
<1>5. Listed(f) /\ Len(f) = Len(s) /\ \A i \in 1..Len(s) : f[i] = s[i]
  BY <1>2, <1>3, <1>4, FlattenSingles
<1> QED BY <1>2, <1>4, <1>5, SamePlaces

LEMMA OfTypeNone ==
    ASSUME NEW s, Listed(s), NEW type, \A i \in 1..Len(s) : s[i].type # type
    PROVE  OfType(s, type) = <<>>
<1>1. PICK p : p = Parts(s, type)
  OBVIOUS
<1>2. /\ OfType(s, type) = FlattenSeq(p) /\ Listed(p) /\ Len(p) = Len(s)
      /\ \A i \in 1..Len(s) : p[i] = <<>>
  <2>1. /\ OfType(s, type) = FlattenSeq(p) /\ Lists(p) /\ Len(p) = Len(s)
        /\ \A i \in 1..Len(s) : p[i] = IF s[i].type = type THEN <<s[i]>> ELSE <<>>
    BY <1>1, PartsAre
  <2>2. ASSUME NEW i \in 1..Len(s) PROVE p[i] = <<>>
    <3>1. s[i].type # type
      OBVIOUS
    <3> QED BY <2>1, <3>1
  <2>3. Listed(p)
    BY <2>1 DEF Lists
  <2> QED BY <2>1, <2>2, <2>3
<1>3. \A i \in 1..Len(p) : p[i] \in Seq({})
  BY <1>2, EmptySeq
<1>4. FlattenSeq(p) \in Seq({})
  BY <1>2, <1>3, FlattenWithin
<1>5. PICK f : f = FlattenSeq(p)
  OBVIOUS
<1>6. f \in Seq({}) /\ Listed(f) /\ Len(f) \in Nat
  BY <1>4, <1>5, SeqIsListed DEF Listed
<1>7. Len(f) = 0
  <2>1. \A i \in 1..Len(f) : f[i] \in {}
    BY <1>6, ElementOfSeq
  <2> QED BY <1>6, <2>1
<1> QED BY <1>2, <1>5, <1>6, <1>7, NoneIs

-----------------------------------------------------------------------------
(* The blocks of an answer in the order of their places.                   *)

LEMMA MaxIs ==
    ASSUME NEW n \in Nat, NEW I, I \subseteq 0..n, I # {}
    PROVE  Max(I) \in I /\ \A y \in I : y <= Max(I)
<1> DEFINE D == {n - i : i \in I}
<1>1. D \subseteq Nat /\ D # {}
  <2>1. \A i \in I : n - i \in Nat
    OBVIOUS
  <2> QED BY <2>1
<1>2. PICK d \in D : \A e \in D : d <= e
  <2> HIDE DEF D
  <2> QED BY <1>1, LeastIn
<1>3. PICK x \in I : d = n - x
  OBVIOUS
<1>4. \A y \in I : x >= y
  <2> SUFFICES ASSUME NEW y \in I PROVE x >= y
    OBVIOUS
  <2>1. n - x <= n - y /\ x \in 0..n /\ y \in 0..n
    BY <1>2, <1>3
  <2> QED BY <2>1
<1>5. Max(I) \in I /\ \A y \in I : Max(I) >= y
  BY <1>4 DEF Max
<1>6. \A y \in I : y \in Nat
  OBVIOUS
<1> QED BY <1>5, <1>6

InPlaces(s) == /\ Listed(s) /\ \A i \in 1..Len(s) : s[i].at \in Nat
               /\ \A i, j \in 1..Len(s) : i <= j => s[i].at <= s[j].at

\* Where an item is placed: behind the first k.
PlacedAt(s, x, k) ==
    /\ Placed(s, x) = (SubSeq(s, 1, k) \o <<x>>) \o SubSeq(s, k + 1, Len(s))
    /\ \A j \in k + 1..Len(s) : ~(s[j].at <= x.at)
    /\ k # 0 => s[k].at <= x.at

LEMMA PlacedIs ==
    ASSUME NEW s, Listed(s), NEW x
    PROVE  \E k \in 0..Len(s) : PlacedAt(s, x, k)
<1> DEFINE I == {0} \cup {j \in DOMAIN s : s[j].at <= x.at}
<1>1. Len(s) \in Nat /\ DOMAIN s = 1..Len(s)
  BY DEF Listed
<1>2. I \subseteq 0..Len(s) /\ I # {}
  BY <1>1
<1>3. Max(I) \in I /\ \A y \in I : y <= Max(I)
  <2> HIDE DEF I
  <2> QED BY <1>1, <1>2, MaxIs
<1>4. PICK k : k = Max(I)
  OBVIOUS
<1>5. k \in 0..Len(s) /\ (k # 0 => s[k].at <= x.at)
  BY <1>2, <1>3, <1>4
<1>6. ASSUME NEW j \in k + 1..Len(s) PROVE ~(s[j].at <= x.at)
  <2>1. j \in DOMAIN s /\ ~(j <= k)
    BY <1>1, <1>5
  <2>2. j \notin I
    BY <1>3, <1>4, <2>1
  <2> QED BY <2>1, <2>2
<1>7. Placed(s, x) = (SubSeq(s, 1, k) \o <<x>>) \o SubSeq(s, k + 1, Len(s))
  BY <1>4 DEF Placed
<1> QED BY <1>5, <1>6, <1>7 DEF PlacedAt

LEMMA PlacedIn ==
    ASSUME NEW S, NEW s \in Seq(S), NEW x \in S
    PROVE  Placed(s, x) \in Seq(S)
<1>1. PICK k \in 0..Len(s) : PlacedAt(s, x, k)
  BY SeqIsListed, PlacedIs
<1>2. SubSeq(s, 1, k) \in Seq(S) /\ SubSeq(s, k + 1, Len(s)) \in Seq(S)
  BY CutInTwo
<1>3. <<x>> \in Seq(S)
  OBVIOUS
<1>4. PICK a, b, c : a = SubSeq(s, 1, k) /\ b = SubSeq(s, k + 1, Len(s)) /\ c = <<x>>
  OBVIOUS
<1>5. a \in Seq(S) /\ b \in Seq(S) /\ c \in Seq(S)
  BY <1>2, <1>3, <1>4
<1>6. a \o c \in Seq(S)
  BY <1>5, ConcatProperties
<1>7. (a \o c) \o b \in Seq(S)
  BY <1>5, <1>6, ConcatProperties
<1> QED BY <1>1, <1>4, <1>7 DEF PlacedAt

\* What is placed among others keeps the order and loses none of them.
LEMMA PlacedKeeps ==
    ASSUME NEW s, InPlaces(s), NEW x, x.at \in Nat
    PROVE  /\ InPlaces(Placed(s, x))
           /\ \A j \in 1..Len(Placed(s, x)) :
                Placed(s, x)[j] = x \/ \E h \in 1..Len(s) : Placed(s, x)[j] = s[h]
<1>0. Listed(s) /\ Len(s) \in Nat
  BY DEF InPlaces, Listed
<1>1. PICK k \in 0..Len(s) : PlacedAt(s, x, k)
  BY <1>0, PlacedIs
<1>2. PICK a, b, c, d, r : /\ a = SubSeq(s, 0 + 1, k) /\ b = SubSeq(s, k + 1, Len(s)) /\ c = <<x>>
                           /\ d = a \o c /\ r = d \o b
  OBVIOUS
<1>3. Placed(s, x) = r
  <2>1. 0 + 1 = 1
    OBVIOUS
  <2> QED BY <1>1, <1>2, <2>1 DEF PlacedAt
<1>4. k \in Nat /\ 0 \in 0..Len(s) /\ k \in 0..Len(s) /\ Len(s) \in k..Len(s)
  BY <1>0
<1>5. /\ Listed(a) /\ Len(a) = k - 0 /\ \A i \in 1..(k - 0) : a[i] = s[0 + i]
  BY <1>0, <1>2, <1>4, PartIs
<1>6. Listed(b) /\ Len(b) = Len(s) - k /\ \A i \in 1..(Len(s) - k) : b[i] = s[k + i]
  BY <1>0, <1>2, <1>4, PartIs
<1>7. Listed(c) /\ Len(c) = 1 /\ c[1] = x
  BY <1>2, SingleIs
<1>8. /\ Listed(d) /\ Len(d) = Len(a) + Len(c)
      /\ \A i \in 1..Len(a) : d[i] = a[i]
      /\ \A i \in 1..Len(c) : d[Len(a) + i] = c[i]
  BY <1>2, <1>5, <1>7, ConcatIs
<1>9. /\ Listed(r) /\ Len(r) = Len(d) + Len(b)
      /\ \A i \in 1..Len(d) : r[i] = d[i]
      /\ \A i \in 1..Len(b) : r[Len(d) + i] = b[i]
  <2>1. Listed(d) /\ Listed(b) /\ r = d \o b
    BY <1>2, <1>6, <1>8
  <2> QED BY ONLY <2>1, ConcatIs
<1>10. Len(r) = Len(s) + 1 /\ Len(d) = k + 1
  BY <1>0, <1>4, <1>5, <1>6, <1>7, <1>8, <1>9
<1>11. \A i \in 1..k : r[i] = s[i]
  <2> SUFFICES ASSUME NEW i \in 1..k PROVE r[i] = s[i]
    OBVIOUS
  <2>1. i \in 1..Len(d) /\ i \in 1..Len(a) /\ 0 + i = i /\ k - 0 = k
    BY <1>4, <1>5, <1>10
  <2> QED BY <1>5, <1>8, <1>9, <2>1
<1>12. r[k + 1] = x
  <2>1. k + 1 \in 1..Len(d) /\ Len(a) = k /\ 1 \in 1..Len(c)
    BY <1>4, <1>5, <1>7, <1>10
  <2> QED BY <1>7, <1>8, <1>9, <2>1
<1>13. \A i \in k + 2..Len(s) + 1 : i - 1 \in k + 1..Len(s) /\ r[i] = s[i - 1]
  <2> SUFFICES ASSUME NEW i \in k + 2..Len(s) + 1
               PROVE  i - 1 \in k + 1..Len(s) /\ r[i] = s[i - 1]
    OBVIOUS
  <2>1. PICK j \in 1..(Len(s) - k) : i = (k + 1) + j
    <3>1. i - (k + 1) \in 1..(Len(s) - k) /\ i = (k + 1) + (i - (k + 1))
      BY <1>0, <1>4
    <3> QED BY <3>1
  <2>2. r[i] = b[j] /\ b[j] = s[k + j] /\ k + j = i - 1
    BY <1>4, <1>6, <1>9, <1>10, <2>1
  <2> QED BY <1>0, <1>4, <2>2
<1>14. \A i \in 1..Len(r) : i \in 1..k \/ i = k + 1 \/ i \in k + 2..Len(s) + 1
  BY <1>0, <1>4, <1>10
<1>15. \A i \in 1..Len(s) : i <= k => s[i].at <= x.at
  <2> SUFFICES ASSUME NEW i \in 1..Len(s), i <= k PROVE s[i].at <= x.at
    OBVIOUS
  <2>1. k \in 1..Len(s) /\ k # 0
    BY <1>4
  <2>2. s[i].at <= s[k].at /\ s[k].at <= x.at
    BY <1>1, <2>1 DEF PlacedAt, InPlaces
  <2>3. s[i].at \in Nat /\ s[k].at \in Nat
    BY <2>1 DEF InPlaces
  <2> QED BY <2>2, <2>3
<1>16. \A i \in 1..Len(s) : i > k => x.at <= s[i].at
  <2> SUFFICES ASSUME NEW i \in 1..Len(s), i > k PROVE x.at <= s[i].at
    OBVIOUS
  <2>1. i \in k + 1..Len(s) /\ s[i].at \in Nat
    BY <1>4 DEF InPlaces
  <2>2. ~(s[i].at <= x.at)
    BY <1>1, <2>1 DEF PlacedAt
  <2> QED BY <2>1, <2>2
<1>17. \A i \in 1..Len(r) : r[i] = x \/ \E h \in 1..Len(s) : r[i] = s[h]
  <2> SUFFICES ASSUME NEW i \in 1..Len(r) PROVE r[i] = x \/ \E h \in 1..Len(s) : r[i] = s[h]
    OBVIOUS
  <2>1. CASE i \in 1..k
    BY <1>0, <1>4, <1>11, <2>1
  <2>2. CASE i = k + 1
    BY <1>12, <2>2
  <2>3. CASE i \in k + 2..Len(s) + 1
    <3>1. i - 1 \in 1..Len(s) /\ r[i] = s[i - 1]
      BY <1>0, <1>4, <1>13, <2>3
    <3> QED BY <3>1
  <2> QED BY <1>14, <2>1, <2>2, <2>3
<1>18. \A i \in 1..Len(r) : r[i].at \in Nat
  BY <1>17 DEF InPlaces
<1>19. ASSUME NEW i \in 1..Len(r), NEW j \in 1..Len(r), i <= j PROVE r[i].at <= r[j].at
  <2>1. CASE i \in 1..k
    <3>1. i \in 1..Len(s) /\ r[i] = s[i] /\ i <= k /\ s[i].at <= x.at
      BY <1>0, <1>4, <1>11, <1>15, <2>1
    <3>2. CASE j \in 1..k
      BY <1>0, <1>4, <1>11, <1>19, <3>1, <3>2 DEF InPlaces
    <3>3. CASE j = k + 1
      BY <1>12, <3>1, <3>3
    <3>4. CASE j \in k + 2..Len(s) + 1
      <4>1. j - 1 \in 1..Len(s) /\ r[j] = s[j - 1] /\ i <= j - 1
        BY <1>0, <1>4, <1>13, <3>1, <3>4
      <4> QED BY <3>1, <4>1 DEF InPlaces
    <3> QED BY <1>14, <3>2, <3>3, <3>4
  <2>2. CASE i = k + 1
    <3>1. CASE j = k + 1
      BY <1>12, <2>2, <3>1
    <3>2. CASE j \in k + 2..Len(s) + 1
      <4>1. j - 1 \in 1..Len(s) /\ r[j] = s[j - 1] /\ j - 1 > k
        BY <1>0, <1>4, <1>13, <3>2
      <4> QED BY <1>12, <1>16, <2>2, <4>1
    <3> QED BY <1>4, <1>14, <1>19, <2>2, <3>1, <3>2
  <2>3. CASE i \in k + 2..Len(s) + 1
    <3>1. j \in k + 2..Len(s) + 1
      BY <1>0, <1>4, <1>10, <1>19, <2>3
    <3>2. /\ i - 1 \in 1..Len(s) /\ r[i] = s[i - 1]
          /\ j - 1 \in 1..Len(s) /\ r[j] = s[j - 1] /\ i - 1 <= j - 1
      BY <1>0, <1>4, <1>13, <1>19, <2>3, <3>1
    <3> QED BY <3>2 DEF InPlaces
  <2> QED BY <1>14, <2>1, <2>2, <2>3
<1>20. InPlaces(r)
  BY <1>9, <1>18, <1>19 DEF InPlaces
<1> QED BY <1>3, <1>17, <1>20

\* Blocks of a type that come in the order of their places keep theirs.
LEMMA PlacedType ==
    ASSUME NEW s, Listed(s), NEW x, NEW type,
           x.type = type => \A j \in 1..Len(s) : s[j].type = type => s[j].at <= x.at
    PROVE  OfType(Placed(s, x), type) = OfType(s, type) \o OfType(<<x>>, type)
<1>0. Len(s) \in Nat
  BY DEF Listed
<1>1. PICK k \in 0..Len(s) : PlacedAt(s, x, k)
  BY PlacedIs
<1>2. PICK a, b, c, d : /\ a = SubSeq(s, 0 + 1, k) /\ b = SubSeq(s, k + 1, Len(s)) /\ c = <<x>>
                        /\ d = a \o c
  OBVIOUS
<1>3. Placed(s, x) = d \o b
  <2>1. 0 + 1 = 1
    OBVIOUS
  <2> QED BY <1>1, <1>2, <2>1 DEF PlacedAt
<1>4. k \in Nat /\ 0 \in 0..Len(s) /\ k \in 0..Len(s) /\ Len(s) \in k..Len(s)
  BY <1>0
<1>5. Listed(a)
  BY <1>0, <1>2, <1>4, PartIs
<1>6. Listed(b) /\ Len(b) = Len(s) - k /\ \A i \in 1..(Len(s) - k) : b[i] = s[k + i]
  BY <1>0, <1>2, <1>4, PartIs
<1>7. Listed(c) /\ c[1] = x /\ Len(c) = 1
  BY <1>2, SingleIs
<1>8. Listed(d)
  BY <1>2, <1>5, <1>7, ConcatIs
<1>9. a \o b = s
  <2>1. s \in Seq(Elems(s))
    BY SeqIn
  <2>2. 0 + 1 = 1
    OBVIOUS
  <2> QED BY <1>2, <2>1, <2>2, CutInTwo
<1>10. PICK A, B, C : A = OfType(a, type) /\ B = OfType(b, type) /\ C = OfType(c, type)
  OBVIOUS
<1>11. OfType(d, type) = A \o C /\ Listed(A) /\ Listed(C)
  <2>1. /\ OfType(a \o c, type) = OfType(a, type) \o OfType(c, type)
        /\ Listed(OfType(a, type)) /\ Listed(OfType(c, type))
    BY ONLY <1>5, <1>7, OfTypeTwo
  <2> QED BY <1>2, <1>10, <2>1
<1>12. OfType(d \o b, type) = OfType(d, type) \o B /\ Listed(B)
  <2>1. /\ OfType(d \o b, type) = OfType(d, type) \o OfType(b, type)
        /\ Listed(OfType(d, type)) /\ Listed(OfType(b, type))
    BY ONLY <1>6, <1>8, OfTypeTwo
  <2> QED BY <1>10, <2>1
<1>13. OfType(s, type) = A \o B
  <2>1. OfType(a \o b, type) = A \o B
    <3>1. /\ OfType(a \o b, type) = OfType(a, type) \o OfType(b, type)
          /\ Listed(OfType(a, type)) /\ Listed(OfType(b, type))
      BY ONLY <1>5, <1>6, OfTypeTwo
    <3> QED BY <1>10, <3>1
  <2> QED BY <1>9, <2>1
<1>14. CASE x.type # type
  <2>1. C = <<>>
    <3>1. \A i \in 1..Len(c) : c[i].type # type
      BY <1>7, <1>14
    <3> QED BY <1>7, <1>10, <3>1, OfTypeNone
  <2>2. A \o C = A /\ (A \o B) \o C = A \o B
    <3>1. Listed(A \o B)
      BY <1>11, <1>12, ConcatIs
    <3>2. PICK z : z = A \o B
      OBVIOUS
    <3>3. A \o <<>> = A /\ z \o <<>> = z
      BY <1>11, <3>1, <3>2, ConcatNone
    <3> QED BY <2>1, <3>2, <3>3
  <2> QED BY <1>2, <1>3, <1>10, <1>11, <1>12, <1>13, <2>2
<1>15. CASE x.type = type
  <2>1. B = <<>>
    <3>1. ASSUME NEW i \in 1..Len(b) PROVE b[i].type # type
      <4>1. k + i \in k + 1..Len(s) /\ k + i \in 1..Len(s) /\ b[i] = s[k + i]
        BY <1>0, <1>4, <1>6
      <4>2. ~(s[k + i].at <= x.at)
        BY <1>1, <4>1 DEF PlacedAt
      <4> QED BY <1>15, <4>1, <4>2
    <3> QED BY <1>6, <1>10, <3>1, OfTypeNone
  <2>2. (A \o C) \o B = A \o C /\ A \o B = A
    <3>1. Listed(A \o C)
      BY <1>11, ConcatIs
    <3>2. PICK z : z = A \o C
      OBVIOUS
    <3>3. A \o <<>> = A /\ z \o <<>> = z
      BY <1>11, <3>1, <3>2, ConcatNone
    <3> QED BY <2>1, <3>2, <3>3
  <2> QED BY <1>2, <1>3, <1>10, <1>11, <1>12, <1>13, <2>2
<1> QED BY <1>14, <1>15

IsSort(f, items) ==
    /\ f[0] = <<>> /\ \A i \in 1..Len(items) : f[i] = Placed(f[i - 1], items[i])

\* The loop of anthAssistantBlocks in steps, each of which places one item.
\* What an answer says and what it calls, before they are put in order.
Uses(m) == [i \in DOMAIN m.calls |-> Use(m.calls[i])]
BlocksOf(m) == AnthBlocks(m.blocks) \o Uses(m)

LEMMA SortIs ==
    ASSUME NEW m, NEW items, items = BlocksOf(m), Listed(items)
    PROVE  \E f : IsSort(f, items) /\ AssistantBlocks(m) = f[Len(items)]
<1> DEFINE n == Len(items)
           S == Elems(items)
           base == <<>>
           step == [x \in Seq(S) \X Nat |->
                      IF x[2] \in 1..n THEN Placed(x[1], items[x[2]]) ELSE x[1]]
           Sorts(f) == f = [i \in 0..n |-> IF i = 0 THEN <<>> ELSE Placed(f[i - 1], items[i])]
           placed == CHOOSE f : Sorts(f)
<1>1. n \in Nat /\ \A i \in 1..n : items[i] \in S
  BY DEF Listed, Elems
<1> HIDE DEF n, S
<1>2. base \in Seq(S)
  BY EmptySeq
<1>3. step \in [Seq(S) \X Nat -> Seq(S)]
  <2>1. \A s \in Seq(S), i \in 1..n : Placed(s, items[i]) \in Seq(S)
    BY <1>1, PlacedIn
  <2> QED BY <2>1
<1>4. PICK f : IsUpto(f, Seq(S), base, step, n)
  <2> HIDE DEF base, step
  <2> QED BY <1>1, <1>2, <1>3, Recursion
<1>5. /\ f \in [0..n -> Seq(S)]
      /\ f = [i \in 0..n |-> IF i = 0 THEN base ELSE step[<<f[i - 1], i>>]]
  <2> HIDE DEF base, step
  <2> QED BY <1>4 DEF IsUpto
<1>6. ASSUME NEW i \in 0..n, i # 0 PROVE step[<<f[i - 1], i>>] = Placed(f[i - 1], items[i])
  <2>1. i - 1 \in 0..n /\ i \in 1..n /\ i \in Nat
    BY <1>1, <1>6
  <2>2. f[i - 1] \in Seq(S)
    BY <1>5, <2>1
  <2>3. <<f[i - 1], i>> \in Seq(S) \X Nat
    BY <2>1, <2>2
  <2> QED BY <2>1, <2>3
<1>7. Sorts(f)
  <2> HIDE DEF step
  <2> QED BY <1>5, <1>6
<1>8. Sorts(placed)
  <2> HIDE DEF Sorts
  <2> QED BY <1>7
<1>9. placed[0] = <<>> /\ \A i \in 1..n : placed[i] = Placed(placed[i - 1], items[i])
  <2>1. 0 \in 0..n /\ \A i \in 1..n : i \in 0..n /\ i # 0
    BY <1>1
  <2> HIDE DEF placed
  <2> QED BY <1>8, <2>1
<1>10. AssistantBlocks(m) = placed[n]
  BY DEF AssistantBlocks, Map, n, BlocksOf, Uses
<1> QED
  <2> HIDE DEF placed
  <2> QED BY <1>9, <1>10 DEF IsSort, n

LEMMA SortKeeps ==
    ASSUME NEW items, Listed(items), \A i \in 1..Len(items) : items[i].at \in Nat,
           NEW type,
           \A i, j \in 1..Len(items) :
             i <= j /\ items[i].type = type /\ items[j].type = type => items[i].at <= items[j].at,
           NEW f, IsSort(f, items)
    PROVE  InPlaces(f[Len(items)]) /\ OfType(f[Len(items)], type) = OfType(items, type)
<1> DEFINE n == Len(items)
           first(i) == SubSeq(items, 0 + 1, i)
           From(i) == \A j \in 1..Len(f[i]) : \E h \in 1..i : f[i][j] = items[h]
           Keeps(i) == /\ InPlaces(f[i]) /\ From(i)
                       /\ OfType(f[i], type) = OfType(first(i), type)
           T == {i \in 0..n : Keeps(i)}
<1>1. n \in Nat
  BY DEF Listed
<1>2. \A i \in 0..n : Listed(first(i)) /\ Len(first(i)) = i /\ \A j \in 1..i : first(i)[j] = items[j]
  <2> SUFFICES ASSUME NEW i \in 0..n
               PROVE  Listed(first(i)) /\ Len(first(i)) = i /\ \A j \in 1..i : first(i)[j] = items[j]
    OBVIOUS
  <2>1. 0 \in 0..Len(items) /\ i \in 0..Len(items) /\ i - 0 = i /\ \A j \in 1..i : 0 + j = j
    BY <1>1
  <2>2. /\ Listed(SubSeq(items, 0 + 1, i)) /\ Len(SubSeq(items, 0 + 1, i)) = i - 0
        /\ \A j \in 1..(i - 0) : SubSeq(items, 0 + 1, i)[j] = items[0 + j]
    BY <2>1, PartIs
  <2> QED BY <2>1, <2>2
<1> HIDE DEF first
<1>3. 0 \in T
  <2>1. f[0] = <<>> /\ Len(<<>>) = 0 /\ Listed(<<>>) /\ 0 \in 0..n
    BY <1>1, NoneIs DEF IsSort
  <2>2. InPlaces(f[0]) /\ From(0)
    BY <2>1 DEF InPlaces
  <2>3. first(0) = <<>>
    BY <1>2, <2>1, NoneIs
  <2> QED BY <2>1, <2>2, <2>3
<1>4. ASSUME NEW i \in 1..n, i - 1 \in T PROVE i \in T
  <2>1. /\ i \in 0..n /\ i - 1 \in 0..n /\ i \in Nat
        /\ InPlaces(f[i - 1]) /\ From(i - 1)
        /\ OfType(f[i - 1], type) = OfType(first(i - 1), type)
    BY <1>1, <1>4
  <2>2. PICK s, x, r, p : s = f[i - 1] /\ x = items[i] /\ r = f[i] /\ p = first(i - 1)
    OBVIOUS
  <2>3. r = Placed(s, x) /\ x.at \in Nat /\ InPlaces(s) /\ Listed(s)
    BY <2>1, <2>2 DEF IsSort, InPlaces
  <2>4. InPlaces(r) /\ \A j \in 1..Len(r) : r[j] = x \/ \E h \in 1..Len(s) : r[j] = s[h]
    BY <2>3, PlacedKeeps
  <2>5. From(i)
    <3> SUFFICES ASSUME NEW j \in 1..Len(f[i]) PROVE \E h \in 1..i : f[i][j] = items[h]
      OBVIOUS
    <3>1. CASE r[j] = x
      <4>1. i \in 1..i /\ f[i][j] = items[i]
        BY <2>1, <2>2, <3>1
      <4> QED BY <4>1
    <3>2. CASE \E h \in 1..Len(s) : r[j] = s[h]
      <4>1. PICK h \in 1..Len(f[i - 1]) : f[i][j] = f[i - 1][h]
        BY <2>2, <3>2
      <4>2. PICK g \in 1..i - 1 : f[i - 1][h] = items[g]
        BY <2>1, <4>1
      <4>3. g \in 1..i
        BY <2>1
      <4> QED BY <4>1, <4>2, <4>3
    <3> QED BY <2>2, <2>4, <3>1, <3>2
  <2>6. ASSUME x.type = type, NEW j \in 1..Len(s), s[j].type = type PROVE s[j].at <= x.at
    <3>1. PICK h \in 1..i - 1 : s[j] = items[h]
      BY <2>1, <2>2, <2>6
    <3>2. h \in 1..Len(items) /\ i \in 1..Len(items) /\ h <= i
      BY <1>1, <2>1
    <3> QED BY <2>2, <2>6, <3>1, <3>2
  <2>7. OfType(r, type) = OfType(s, type) \o OfType(<<x>>, type)
    BY <2>3, <2>6, PlacedType
  <2>8. Listed(p) /\ Listed(<<x>>) /\ Len(<<x>>) = 1 /\ <<x>>[1] = x
    BY <1>2, <2>1, <2>2, SingleIs
  <2>9. first(i) = p \o <<x>>
    <3>1. PICK c, d, e : c = <<x>> /\ d = p \o c /\ e = first(i)
      OBVIOUS
    <3>2. Listed(p) /\ Listed(c)
      BY <2>8, <3>1
    <3>3. /\ Listed(p \o c) /\ Len(p \o c) = Len(p) + Len(c)
          /\ \A j \in 1..Len(p) : (p \o c)[j] = p[j]
          /\ \A j \in 1..Len(c) : (p \o c)[Len(p) + j] = c[j]
      BY ONLY <3>2, ConcatIs
    <3>4. /\ Listed(e) /\ Len(e) = i /\ \A j \in 1..i : e[j] = items[j]
          /\ Len(p) = i - 1 /\ \A j \in 1..i - 1 : p[j] = items[j]
      BY <1>2, <2>1, <2>2, <3>1
    <3>5. Listed(d) /\ Len(d) = i
      BY <2>1, <2>8, <3>1, <3>3, <3>4
    <3>6. d[i] = x
      <4>1. 1 \in 1..Len(c) /\ Len(p) + 1 = i /\ c[1] = x
        BY <2>1, <2>8, <3>1, <3>4
      <4> QED BY <3>1, <3>3, <4>1
    <3>7. \A j \in 1..Len(e) : e[j] = d[j]
      <4> SUFFICES ASSUME NEW j \in 1..i PROVE e[j] = d[j]
        BY <3>4
      <4>1. j = i \/ j \in 1..i - 1
        BY <2>1
      <4> QED BY <2>2, <3>1, <3>3, <3>4, <3>6, <4>1
    <3>8. e = d
      BY <3>4, <3>5, <3>7, SamePlaces
    <3> QED BY <3>1, <3>8
  <2>10. OfType(first(i), type) = OfType(p, type) \o OfType(<<x>>, type)
    <3>1. PICK c : c = <<x>>
      OBVIOUS
    <3>2. Listed(p) /\ Listed(c)
      BY <2>8, <3>1
    <3>3. /\ OfType(p \o c, type) = OfType(p, type) \o OfType(c, type)
          /\ Listed(OfType(p, type)) /\ Listed(OfType(c, type))
      BY ONLY <3>2, OfTypeTwo
    <3> QED BY <2>9, <3>1, <3>3
  <2>11. Keeps(i)
    <3> HIDE DEF From
    <3> QED BY <2>1, <2>2, <2>4, <2>5, <2>7, <2>10
  <2> HIDE DEF Keeps
  <2> QED BY <2>1, <2>11
<1>5. n \in T
  <2> HIDE DEF T, n
  <2>1. \A i \in 0..n : i \in T
    BY <1>1, <1>3, <1>4, Climb
  <2> QED BY <1>1, <2>1
<1>6. first(n) = items
  <2>1. PICK e : e = first(n)
    OBVIOUS
  <2>2. Listed(e) /\ Len(e) = n /\ \A j \in 1..n : e[j] = items[j]
    BY <1>1, <1>2, <2>1
  <2> QED BY <2>1, <2>2, SamePlaces
<1> QED BY <1>5, <1>6

-----------------------------------------------------------------------------
(* The messages of a conversation, once more: what they say and call.      *)

Thoughts == [type : {"text", "thinking"}, size : Nat, at : Nat, signed : BOOLEAN]

\* An answer: its calls come in the order of their places, each with its own id.
IsAnswer(m) ==
    /\ m.blocks \in Seq(Thoughts)
    /\ Len(m.calls) \in Nat /\ DOMAIN m.calls = 1..Len(m.calls)
    /\ \A i, j \in 1..Len(m.calls) :
         /\ m.calls[i].at \in Nat
         /\ i <= j => m.calls[i].at <= m.calls[j].at
         /\ m.calls[i].id = m.calls[j].id => i = j

LEMMA AnthBlocksAre == ASSUME NEW bs \in Seq(Thoughts) PROVE AnthBlocks(bs) \in Seq(Thoughts)
<1> DEFINE p == [i \in DOMAIN bs |-> IF Replayed(bs[i]) THEN <<bs[i]>> ELSE <<>>]
<1>1. AnthBlocks(bs) = FlattenSeq(p)
  BY DEF AnthBlocks, Map
<1>2. Listed(bs) /\ DOMAIN bs = 1..Len(bs) /\ \A i \in 1..Len(bs) : bs[i] \in Thoughts
  BY SeqIsListed, ElementOfSeq
<1>3. p = [i \in DOMAIN bs |-> p[i]]
  OBVIOUS
<1>4. \A i \in 1..Len(bs) : p[i] \in Seq(Thoughts)
  <2> SUFFICES ASSUME NEW i \in 1..Len(bs) PROVE p[i] \in Seq(Thoughts)
    OBVIOUS
  <2>1. PICK b \in Thoughts : b = bs[i]
    BY <1>2
  <2>2. p[i] = <<b>> \/ p[i] = <<>>
    BY <1>2, <2>1
  <2> HIDE DEF p
  <2>3. \A S : \A x \in S : <<x>> \in Seq(S)
    OBVIOUS
  <2> QED BY <2>1, <2>2, <2>3, EmptySeq
<1> HIDE DEF p
<1>5. Listed(p) /\ Len(p) = Len(bs)
  BY <1>2, <1>3, MapListed
<1>6. FlattenSeq(p) \in Seq(Thoughts)
  BY <1>4, <1>5, FlattenWithin
<1> QED BY <1>1, <1>6

LEMMA AssistantBlocksAre ==
    ASSUME NEW m, IsAnswer(m)
    PROVE  InPlaces(AssistantBlocks(m)) /\ OfType(AssistantBlocks(m), "tool_use") = Uses(m)
<1>1. PICK a, u, n : a = AnthBlocks(m.blocks) /\ u = Uses(m) /\ n = Len(m.calls)
  OBVIOUS
<1>2. a \in Seq(Thoughts) /\ Listed(a) /\ Len(a) \in Nat
  BY <1>1, AnthBlocksAre, SeqIsListed DEF IsAnswer, Listed
<1>3. \A i \in 1..Len(a) : a[i].type # "tool_use" /\ a[i].at \in Nat
  <2> SUFFICES ASSUME NEW i \in 1..Len(a) PROVE a[i].type # "tool_use" /\ a[i].at \in Nat
    OBVIOUS
  <2>1. a[i] \in Thoughts
    BY <1>2, ElementOfSeq
  <2> QED BY <2>1 DEF Thoughts
<1>4. n \in Nat /\ DOMAIN m.calls = 1..n
  BY <1>1 DEF IsAnswer
<1>5. /\ Listed(u) /\ Len(u) = n
      /\ \A i \in 1..n : u[i] = [type |-> "tool_use", id |-> m.calls[i].id, at |-> m.calls[i].at]
  <2>1. /\ u = [i \in 1..n |-> Use(m.calls[i])] /\ u = [i \in 1..n |-> u[i]]
    BY <1>1, <1>4 DEF Uses
  <2>2. Listed(u) /\ Len(u) = n
    BY <1>4, <2>1, LenIs
  <2> QED BY <2>1, <2>2 DEF Use
<1>6. \A i \in 1..Len(u) : u[i].type = "tool_use" /\ u[i].at = m.calls[i].at /\ u[i].at \in Nat
  <2> SUFFICES ASSUME NEW i \in 1..n
               PROVE  u[i].type = "tool_use" /\ u[i].at = m.calls[i].at /\ u[i].at \in Nat
    BY <1>5
  <2>1. u[i].type = "tool_use" /\ u[i].at = m.calls[i].at
    BY <1>5
  <2>2. m.calls[i].at \in Nat
    BY <1>1 DEF IsAnswer
  <2> QED BY <2>1, <2>2
<1>7. \A i, j \in 1..Len(u) : i <= j => u[i].at <= u[j].at
  BY <1>1, <1>5, <1>6 DEF IsAnswer
<1>8. PICK items : items = a \o u
  OBVIOUS
<1>9. /\ Listed(items) /\ Len(items) = Len(a) + Len(u)
      /\ \A i \in 1..Len(a) : items[i] = a[i]
      /\ \A i \in 1..Len(u) : items[Len(a) + i] = u[i]
  <2>1. Listed(a) /\ Listed(u)
    BY <1>2, <1>5
  <2>2. /\ Listed(a \o u) /\ Len(a \o u) = Len(a) + Len(u)
        /\ \A i \in 1..Len(a) : (a \o u)[i] = a[i]
        /\ \A i \in 1..Len(u) : (a \o u)[Len(a) + i] = u[i]
    BY ONLY <2>1, ConcatIs
  <2> QED BY <1>8, <2>2
<1>10. \A i \in 1..Len(items) : \/ i \in 1..Len(a)
                                \/ i - Len(a) \in 1..Len(u) /\ items[i] = u[i - Len(a)]
  <2> SUFFICES ASSUME NEW i \in 1..Len(items), i \notin 1..Len(a)
               PROVE  i - Len(a) \in 1..Len(u) /\ items[i] = u[i - Len(a)]
    OBVIOUS
  <2>1. i - Len(a) \in 1..Len(u) /\ i = Len(a) + (i - Len(a))
    BY <1>2, <1>4, <1>5, <1>9
  <2> QED BY <1>9, <2>1
<1>11. \A i \in 1..Len(items) : items[i].at \in Nat
  BY <1>3, <1>6, <1>9, <1>10
<1>12. \A i, j \in 1..Len(items) :
         i <= j /\ items[i].type = "tool_use" /\ items[j].type = "tool_use" => items[i].at <= items[j].at
  <2> SUFFICES ASSUME NEW i \in 1..Len(items), NEW j \in 1..Len(items), i <= j,
                      items[i].type = "tool_use", items[j].type = "tool_use"
               PROVE  items[i].at <= items[j].at
    OBVIOUS
  <2>1. i \notin 1..Len(a) /\ j \notin 1..Len(a)
    BY <1>3, <1>9
  <2>2. PICK x, y : x = i - Len(a) /\ y = j - Len(a)
    OBVIOUS
  <2>3. x \in 1..Len(u) /\ y \in 1..Len(u) /\ items[i] = u[x] /\ items[j] = u[y]
    BY <1>10, <2>1, <2>2
  <2>4. x <= y
    BY <1>2, <2>2
  <2> QED BY <1>7, <2>3, <2>4
<1>13. PICK f : IsSort(f, items) /\ AssistantBlocks(m) = f[Len(items)]
  <2>1. items = BlocksOf(m) /\ Listed(items)
    BY <1>1, <1>8, <1>9 DEF BlocksOf
  <2>2. \E f : IsSort(f, items) /\ AssistantBlocks(m) = f[Len(items)]
    BY ONLY <2>1, SortIs
  <2> QED BY ONLY <2>2
<1>14. InPlaces(f[Len(items)]) /\ OfType(f[Len(items)], "tool_use") = OfType(items, "tool_use")
  BY <1>9, <1>11, <1>12, <1>13, SortKeeps
<1>15. OfType(items, "tool_use") = u
  <2>1. /\ OfType(a \o u, "tool_use") = OfType(a, "tool_use") \o OfType(u, "tool_use")
        /\ Listed(OfType(a, "tool_use")) /\ Listed(OfType(u, "tool_use"))
    BY <1>2, <1>5, OfTypeTwo
  <2>2. OfType(a, "tool_use") = <<>>
    BY <1>2, <1>3, OfTypeNone
  <2>3. OfType(u, "tool_use") = u
    BY <1>5, <1>6, OfTypeAll
  <2>4. <<>> \o u = u
    BY <1>5, ConcatNone
  <2> QED BY <1>8, <2>1, <2>2, <2>3, <2>4
<1> QED BY <1>1, <1>13, <1>14, <1>15

-----------------------------------------------------------------------------
(* The list of anthropicMessages: what is in it between two rounds.        *)

Answers(u) == [k \in 1..Len(u) |-> [type |-> "tool_result", id |-> u[k].id]]
Plain(t) == Listed(t) /\ \A k \in 1..Len(t) : t[k].type # "tool_use" /\ t[k].type # "tool_result"

\* The uses u in an order in which their calls may have landed.
Landing(v, u) == \E p \in Orders(Len(u)) : v = [k \in 1..Len(u) |-> u[p[k]]]
\* A user's message has the answers to the calls before it, and then texts.
UserAt(list, i) ==
    /\ list[i].role = "user"
    /\ i = 1 => Plain(list[i].blocks)
    /\ i # 1 => /\ list[i - 1].role = "assistant"
                /\ \E v, t : /\ Landing(v, UsesIn(list[i - 1])) /\ Plain(t)
                             /\ list[i].blocks = Answers(v) \o t
AnswerAt(list, i) ==
    /\ list[i].role = "assistant" /\ InPlaces(list[i].blocks) /\ Listed(UsesIn(list[i]))
    /\ UsesIn(list[i]) # <<>> => i < Len(list) /\ list[i + 1].role = "user"
InRounds(list) ==
    Listed(list) /\ \A i \in 1..Len(list) :
      /\ list[i] = [role |-> list[i].role, blocks |-> list[i].blocks]
      /\ UserAt(list, i) \/ AnswerAt(list, i)

LEMMA AnswersAre ==
    ASSUME NEW u, Listed(u)
    PROVE  /\ Listed(Answers(u)) /\ Len(Answers(u)) = Len(u)
           /\ \A k \in 1..Len(u) : /\ Answers(u)[k].id = u[k].id
                                   /\ Answers(u)[k].type = "tool_result"
<1>1. PICK r : r = Answers(u)
  OBVIOUS
<1>2. r = [k \in 1..Len(u) |-> r[k]] /\ Len(u) \in Nat
  BY <1>1 DEF Answers, Listed
<1>3. \A k \in 1..Len(u) : r[k].id = u[k].id /\ r[k].type = "tool_result"
  BY <1>1 DEF Answers
<1>4. Listed(r) /\ Len(r) = Len(u)
  BY <1>2, LenIs
<1> QED BY <1>1, <1>3, <1>4

LEMMA LandingIs ==
    ASSUME NEW u, Listed(u), NEW v, Landing(v, u)
    PROVE  Listed(v) /\ Len(v) = Len(u)
<1>1. PICK p \in Orders(Len(u)) : v = [k \in 1..Len(u) |-> u[p[k]]]
  BY DEF Landing
<1>2. v = [k \in 1..Len(u) |-> v[k]] /\ Len(u) \in Nat
  BY <1>1 DEF Listed
<1> QED BY <1>2, LenIs

LEMMA NoLanding == Landing(<<>>, <<>>)
<1>1. PICK n : n = 0
  OBVIOUS
<1>2. PICK p : p = [k \in 1..n |-> k]
  OBVIOUS
<1>3. p \in Orders(n)
  <2>1. p \in [1..n -> 1..n] /\ \A k \in 1..n : p[k] = k
    BY <1>2
  <2>2. p \in Injection(1..n, 1..n)
    BY <2>1 DEF Injection, IsInjective
  <2>3. p \in Surjection(1..n, 1..n)
    BY <2>1 DEF Surjection
  <2> QED BY <2>2, <2>3 DEF Orders, Bijection
<1>4. Len(<<>>) = n /\ DOMAIN <<>> = 1..n /\ <<>> = [k \in 1..n |-> <<>>[k]]
  BY <1>1
<1>5. \A k \in 1..n : <<>>[p[k]] = <<>>[k]
  BY <1>2
<1>6. <<>> = [k \in 1..n |-> <<>>[p[k]]]
  BY ONLY <1>4, <1>5
<1> QED BY <1>3, <1>4, <1>6 DEF Landing

Answering(bs, v) == \A k \in 1..Len(v) : bs[k].id = v[k].id /\ bs[k].type = "tool_result"

\* Texts behind answers: which of the blocks are uses, which are answers.
LEMMA UserBlocksAre ==
    ASSUME NEW u, Listed(u), NEW t, Plain(t), NEW bs, bs = Answers(u) \o t
    PROVE  /\ Listed(bs) /\ Len(bs) >= Len(u)
           /\ Answering(bs, u)
           /\ OfType(bs, "tool_use") = <<>> /\ OfType(bs, "tool_result") = Answers(u)
<1>1. PICK r : r = Answers(u)
  OBVIOUS
<1>2. /\ Listed(r) /\ Len(r) = Len(u) /\ Len(u) \in Nat
      /\ \A k \in 1..Len(r) : r[k].id = u[k].id /\ r[k].type = "tool_result"
  BY <1>1, AnswersAre DEF Listed
<1>3. Listed(t) /\ Len(t) \in Nat /\ \A k \in 1..Len(t) : t[k].type # "tool_use" /\ t[k].type # "tool_result"
  BY DEF Plain, Listed
<1>4. Listed(r) /\ Listed(t)
  BY <1>2, <1>3
<1>5. /\ Listed(r \o t) /\ Len(r \o t) = Len(r) + Len(t)
      /\ \A i \in 1..Len(r) : (r \o t)[i] = r[i]
      /\ \A i \in 1..Len(t) : (r \o t)[Len(r) + i] = t[i]
  BY ONLY <1>4, ConcatIs
<1>6. /\ Listed(bs) /\ Len(bs) >= Len(u)
      /\ \A k \in 1..Len(u) : bs[k].id = u[k].id /\ bs[k].type = "tool_result"
  BY <1>1, <1>2, <1>3, <1>5
<1>7. OfType(r, "tool_use") = <<>>
  <2>1. \A i \in 1..Len(r) : r[i].type # "tool_use"
    BY <1>2
  <2> QED BY <1>2, <2>1, OfTypeNone
<1>8. OfType(t, "tool_use") = <<>> /\ OfType(t, "tool_result") = <<>>
  BY <1>3, OfTypeNone
<1>9. OfType(r, "tool_result") = r
  BY <1>2, OfTypeAll
<1>10. /\ OfType(r \o t, "tool_use") = OfType(r, "tool_use") \o OfType(t, "tool_use")
       /\ OfType(r \o t, "tool_result") = OfType(r, "tool_result") \o OfType(t, "tool_result")
  <2>1. ASSUME NEW type PROVE OfType(r \o t, type) = OfType(r, type) \o OfType(t, type)
    <3>1. /\ OfType(r \o t, type) = OfType(r, type) \o OfType(t, type)
          /\ Listed(OfType(r, type)) /\ Listed(OfType(t, type))
      BY ONLY <1>4, OfTypeTwo
    <3> QED BY <3>1
  <2> QED BY <2>1
<1>11. <<>> \o <<>> = <<>> /\ r \o <<>> = r
  BY <1>2, NoneIs, ConcatNone
<1> QED BY <1>1, <1>6, <1>7, <1>8, <1>9, <1>10, <1>11 DEF Answering

LEMMA PlainBlocksAre ==
    ASSUME NEW t, Plain(t)
    PROVE  OfType(t, "tool_use") = <<>> /\ OfType(t, "tool_result") = <<>>
BY OfTypeNone DEF Plain

\* Nobody but a user speaks in a message of the user, and it calls nothing.
LEMMA UserCallsNone ==
    ASSUME NEW list, InRounds(list), NEW i \in 1..Len(list), list[i].role = "user"
    PROVE  /\ UserAt(list, i) /\ UsesIn(list[i]) = <<>>
           /\ i # 1 => /\ i - 1 \in 1..Len(list) /\ AnswerAt(list, i - 1)
                       /\ Listed(UsesIn(list[i - 1]))
<1>1. UserAt(list, i)
  BY DEF InRounds, AnswerAt
<1>2. CASE i = 1
  BY <1>1, <1>2, PlainBlocksAre DEF UserAt, UsesIn
<1>3. CASE i # 1
  <2>1. i - 1 \in 1..Len(list)
    BY <1>3 DEF InRounds, Listed
  <2>2. AnswerAt(list, i - 1)
    BY <1>1, <1>3, <2>1 DEF InRounds, UserAt
  <2>3. PICK u : u = UsesIn(list[i - 1])
    OBVIOUS
  <2>4. PICK v, t : Landing(v, u) /\ Plain(t) /\ list[i].blocks = Answers(v) \o t
    BY <1>1, <1>3, <2>3 DEF UserAt
  <2>5. Listed(u)
    BY <2>2, <2>3 DEF AnswerAt
  <2>7. Listed(v)
    BY <2>4, <2>5, LandingIs
  <2>6. OfType(list[i].blocks, "tool_use") = <<>>
    <3>1. PICK bs : bs = list[i].blocks
      OBVIOUS
    <3>2. bs = Answers(v) \o t
      BY <2>4, <3>1
    <3>3. Plain(t)
      BY <2>4
    <3>4. OfType(bs, "tool_use") = <<>> /\ OfType(bs, "tool_result") = Answers(v)
      BY ONLY <2>7, <3>2, <3>3, UserBlocksAre
    <3> QED BY <3>1, <3>4
  <2> QED BY <1>1, <2>1, <2>2, <2>3, <2>5, <2>6 DEF UsesIn
<1> QED BY <1>2, <1>3

LEMMA RoundsAlternate == ASSUME NEW list, InRounds(list) PROVE Alternate(list)
<1>1. DOMAIN list = 1..Len(list) /\ Len(list) \in Nat
  BY DEF InRounds, Listed
<1>2. ASSUME NEW i \in 1..Len(list), i > 1 PROVE {list[i - 1].role, list[i].role} # {"user"}
  <2>1. list[i].role = "user" => list[i - 1].role = "assistant"
    BY <1>2, UserCallsNone DEF UserAt
  <2> QED BY <2>1
<1>3. ASSUME NEW i \in 1..Len(list), list[i].role = "user", ResultsIn(list[i]) # <<>>
      PROVE  i > 1 /\ UsesIn(list[i - 1]) # <<>>
  <2>1. UserAt(list, i)
    BY <1>3, UserCallsNone
  <2>2. i # 1
    <3> SUFFICES ASSUME i = 1 PROVE FALSE
      OBVIOUS
    <3>1. Plain(list[i].blocks)
      BY <2>1 DEF UserAt
    <3> QED BY <1>3, <3>1, PlainBlocksAre DEF ResultsIn
  <2>3. PICK u : u = UsesIn(list[i - 1])
    OBVIOUS
  <2>4. Listed(u)
    BY <1>3, <2>2, <2>3, UserCallsNone
  <2>5. PICK v, t : Landing(v, u) /\ Plain(t) /\ list[i].blocks = Answers(v) \o t
    BY <2>1, <2>2, <2>3 DEF UserAt
  <2>8. Listed(v) /\ Len(v) = Len(u)
    BY <2>4, <2>5, LandingIs
  <2>6. ResultsIn(list[i]) = Answers(v)
    BY <2>5, <2>8, UserBlocksAre DEF ResultsIn
  <2>7. u # <<>>
    <3> SUFFICES ASSUME u = <<>> PROVE FALSE
      OBVIOUS
    <3>1. PICK r : r = Answers(v)
      OBVIOUS
    <3>2. Listed(r) /\ Len(r) = 0
      BY <2>8, <3>1, AnswersAre, NoneIs
    <3>3. r = <<>>
      BY <3>2, NoneIs
    <3> QED BY <1>3, <2>6, <3>1, <3>3
  <2> QED BY <2>2, <2>3, <2>7
<1>4. ASSUME NEW i \in 1..Len(list), UsesIn(list[i]) # <<>>
      PROVE  /\ i < Len(list) /\ Len(ResultsIn(list[i + 1])) = Len(UsesIn(list[i]))
             /\ \E p \in Orders(Len(UsesIn(list[i]))) : \A k \in 1..Len(UsesIn(list[i])) :
                  /\ list[i + 1].blocks[k].type = "tool_result"
                  /\ list[i + 1].blocks[k].id = UsesIn(list[i])[p[k]].id
  <2>1. AnswerAt(list, i)
    BY <1>4, UserCallsNone DEF InRounds, UserAt
  <2>2. i < Len(list) /\ list[i + 1].role = "user" /\ i + 1 \in 1..Len(list) /\ i + 1 # 1 /\ (i + 1) - 1 = i
    BY <1>1, <1>4, <2>1 DEF AnswerAt
  <2>3. PICK u, bs : u = UsesIn(list[i]) /\ bs = list[i + 1].blocks
    OBVIOUS
  <2>4. UserAt(list, i + 1)
    BY <2>2, UserCallsNone
  <2>5. PICK v, t : Landing(v, u) /\ Plain(t) /\ bs = Answers(v) \o t
    BY <2>2, <2>3, <2>4 DEF UserAt
  <2>6. Listed(u)
    BY <2>1, <2>3 DEF AnswerAt
  <2>7. Listed(v) /\ Len(v) = Len(u)
    BY <2>5, <2>6, LandingIs
  <2>8. /\ Answering(bs, v)
        /\ OfType(bs, "tool_result") = Answers(v)
    <3>1. Listed(v) /\ Plain(t) /\ bs = Answers(v) \o t
      BY <2>5, <2>7
    <3>2. /\ Listed(bs) /\ Len(bs) >= Len(v)
          /\ Answering(bs, v)
          /\ OfType(bs, "tool_use") = <<>> /\ OfType(bs, "tool_result") = Answers(v)
      BY ONLY <3>1, UserBlocksAre
    <3> QED BY ONLY <3>2
  <2>9. PICK p \in Orders(Len(u)) : v = [k \in 1..Len(u) |-> u[p[k]]]
    BY <2>5 DEF Landing
  <2>10. \A k \in 1..Len(u) : bs[k].type = "tool_result" /\ bs[k].id = u[p[k]].id
    <3>1. \A k \in 1..Len(u) : v[k] = u[p[k]]
      BY <2>9
    <3> QED BY ONLY <2>7, <2>8, <3>1 DEF Answering
  <2>11. Len(Answers(v)) = Len(u)
    BY <2>7, AnswersAre
  <2> QED BY <2>2, <2>3, <2>8, <2>9, <2>10, <2>11 DEF ResultsIn
<1>5. ASSUME NEW i \in 1..Len(list), list[i].role = "assistant",
             NEW j \in 1..Len(list[i].blocks) - 1
      PROVE  list[i].blocks[j].at <= list[i].blocks[j + 1].at
  <2>1. InPlaces(list[i].blocks)
    BY <1>5 DEF InRounds, UserAt, AnswerAt
  <2>2. j \in 1..Len(list[i].blocks) /\ j + 1 \in 1..Len(list[i].blocks) /\ j <= j + 1
    BY <2>1 DEF InPlaces, Listed
  <2> QED BY <2>1, <2>2 DEF InPlaces
<1> QED BY <1>1, <1>2, <1>3, <1>4, <1>5 DEF Alternate

-----------------------------------------------------------------------------
(* How the list grows.                                                     *)

IsTold(m) == m = [role |-> m.role, blocks |-> m.blocks]

\* Something new at the end leaves what was said before as it was.
LEMMA RoundsGrow ==
    ASSUME NEW list, InRounds(list), NEW new, Listed(new), Len(new) >= Len(list),
           \A i \in 1..Len(list) : new[i] = list[i]
    PROVE  \A i \in 1..Len(list) : IsTold(new[i]) /\ (UserAt(new, i) \/ AnswerAt(new, i))
<1> SUFFICES ASSUME NEW i \in 1..Len(list)
             PROVE  IsTold(new[i]) /\ (UserAt(new, i) \/ AnswerAt(new, i))
  OBVIOUS
<1>1. Len(list) \in Nat /\ Len(new) \in Nat
  BY DEF InRounds, Listed
<1>2. new[i] = list[i] /\ IsTold(list[i]) /\ (UserAt(list, i) \/ AnswerAt(list, i))
  BY DEF InRounds, IsTold
<1>3. CASE UserAt(list, i)
  <2>1. i # 1 => new[i - 1] = list[i - 1]
    <3>1. i # 1 => i - 1 \in 1..Len(list)
      BY <1>1
    <3> QED BY <3>1
  <2>2. UserAt(new, i)
    BY <1>2, <1>3, <2>1 DEF UserAt
  <2> QED BY <1>2, <2>2
<1>4. CASE AnswerAt(list, i)
  <2>1. ASSUME UsesIn(list[i]) # <<>> PROVE i < Len(new) /\ new[i + 1].role = "user"
    <3>1. i < Len(list) /\ list[i + 1].role = "user"
      BY <1>4, <2>1 DEF AnswerAt
    <3>2. i + 1 \in 1..Len(list)
      BY <1>1, <3>1
    <3> QED BY <1>1, <3>1, <3>2
  <2>2. AnswerAt(new, i)
    BY <1>2, <1>4, <2>1 DEF AnswerAt
  <2> QED BY <1>2, <2>2
<1> QED BY <1>2, <1>3, <1>4

LEMMA AnswerIsLast ==
    ASSUME NEW list, InRounds(list), Len(list) # 0, list[Len(list)].role # "user"
    PROVE  list[Len(list)].role = "assistant" /\ UsesIn(list[Len(list)]) = <<>>
<1>1. Len(list) \in 1..Len(list) /\ ~(Len(list) < Len(list))
  BY DEF InRounds, Listed
<1>2. AnswerAt(list, Len(list))
  BY <1>1 DEF InRounds, UserAt
<1> QED BY <1>1, <1>2 DEF AnswerAt

\* An answer without calls.
LEMMA AppendQuiet ==
    ASSUME NEW list, InRounds(list), NEW bs, InPlaces(bs), OfType(bs, "tool_use") = <<>>
    PROVE  InRounds(Append(list, [role |-> "assistant", blocks |-> bs]))
<1>1. PICK a, new : a = [role |-> "assistant", blocks |-> bs] /\ new = Append(list, a)
  OBVIOUS
<1>2. Listed(list) /\ Len(list) \in Nat
  BY DEF InRounds, Listed
<1>3. /\ Listed(new) /\ Len(new) = Len(list) + 1
      /\ \A i \in 1..Len(list) : new[i] = list[i]
      /\ new[Len(list) + 1] = a
  BY <1>1, <1>2, AppendedIs
<1>4. \A i \in 1..Len(list) : IsTold(new[i]) /\ (UserAt(new, i) \/ AnswerAt(new, i))
  <2>1. Len(new) >= Len(list)
    BY <1>2, <1>3
  <2> QED BY <1>3, <2>1, RoundsGrow
<1>5. IsTold(new[Len(list) + 1]) /\ AnswerAt(new, Len(list) + 1)
  <2>1. a.role = "assistant" /\ a.blocks = bs /\ IsTold(a)
    BY <1>1 DEF IsTold
  <2>2. UsesIn(a) = <<>>
    BY <2>1 DEF UsesIn
  <2> QED BY <1>3, <2>1, <2>2, NoneIs DEF AnswerAt
<1>6. \A i \in 1..Len(new) : i = Len(list) + 1 \/ i \in 1..Len(list)
  BY <1>2, <1>3
<1>7. InRounds(new)
  BY <1>3, <1>4, <1>5, <1>6 DEF InRounds, IsTold
<1> QED BY <1>1, <1>7

\* An answer with calls and their results.
LEMMA AppendRound ==
    ASSUME NEW list, InRounds(list), NEW bs, InPlaces(bs),
           NEW u, u = OfType(bs, "tool_use"), Listed(u), NEW v, Landing(v, u)
    PROVE  InRounds(Append(Append(list, [role |-> "assistant", blocks |-> bs]),
                           [role |-> "user", blocks |-> Answers(v)]))
<1>1. PICK a, b, one, new :
        /\ a = [role |-> "assistant", blocks |-> bs] /\ b = [role |-> "user", blocks |-> Answers(v)]
        /\ one = Append(list, a) /\ new = Append(one, b)
  OBVIOUS
<1>2. Listed(list) /\ Len(list) \in Nat
  BY DEF InRounds, Listed
<1>3. /\ Listed(one) /\ Len(one) = Len(list) + 1
      /\ \A i \in 1..Len(list) : one[i] = list[i]
      /\ one[Len(list) + 1] = a
  BY <1>1, <1>2, AppendedIs
<1>4. /\ Listed(new) /\ Len(new) = Len(one) + 1
      /\ \A i \in 1..Len(one) : new[i] = one[i]
      /\ new[Len(one) + 1] = b
  BY <1>1, <1>3, AppendedIs
<1>5. PICK n : n = Len(list) + 1
  OBVIOUS
<1>6. /\ n \in Nat /\ Len(new) = n + 1 /\ new[n] = a /\ new[n + 1] = b
      /\ \A i \in 1..Len(list) : new[i] = list[i]
  <2>1. n \in 1..Len(one) /\ \A i \in 1..Len(list) : i \in 1..Len(one)
    BY <1>2, <1>3, <1>5
  <2> QED BY <1>2, <1>3, <1>4, <1>5, <2>1
<1>7. \A i \in 1..Len(list) : IsTold(new[i]) /\ (UserAt(new, i) \/ AnswerAt(new, i))
  <2>1. Len(new) >= Len(list)
    BY <1>2, <1>5, <1>6
  <2> QED BY <1>4, <1>6, <2>1, RoundsGrow
<1>8. /\ a.role = "assistant" /\ a.blocks = bs /\ IsTold(a) /\ UsesIn(a) = u
      /\ b.role = "user" /\ b.blocks = Answers(v) /\ IsTold(b)
  BY <1>1 DEF IsTold, UsesIn
<1>9. AnswerAt(new, n)
  <2>1. n < Len(new)
    BY <1>6
  <2> QED BY <1>6, <1>8, <2>1 DEF AnswerAt
<1>10. UserAt(new, n + 1)
  <2>1. n + 1 # 1 /\ (n + 1) - 1 = n
    BY <1>2, <1>5
  <2>2. Plain(<<>>)
    BY NoneIs DEF Plain
  <2>3. Answers(v) = Answers(v) \o <<>>
    <3>1. PICK r : r = Answers(v)
      OBVIOUS
    <3>2. Listed(r)
      BY <3>1, LandingIs, AnswersAre
    <3> QED BY <3>1, <3>2, ConcatNone
  <2> QED BY <1>6, <1>8, <2>1, <2>2, <2>3 DEF UserAt
<1>11. \A i \in 1..Len(new) : i = n \/ i = n + 1 \/ i \in 1..Len(list)
  BY <1>2, <1>5, <1>6
<1>12. InRounds(new)
  BY <1>4, <1>6, <1>7, <1>8, <1>9, <1>10, <1>11 DEF InRounds, IsTold
<1> QED BY <1>1, <1>12

LEMMA PlainConcat == ASSUME NEW a, Plain(a), NEW b, Plain(b) PROVE Plain(a \o b)
<1>1. Listed(a) /\ Listed(b) /\ Len(a) \in Nat /\ Len(b) \in Nat
  BY DEF Plain, Listed
<1>2. PICK c : c = a \o b
  OBVIOUS
<1>3. /\ Listed(c) /\ Len(c) = Len(a) + Len(b)
      /\ \A i \in 1..Len(a) : c[i] = a[i]
      /\ \A i \in 1..Len(b) : c[Len(a) + i] = b[i]
  BY <1>1, <1>2, ConcatIs
<1>4. ASSUME NEW k \in 1..Len(c) PROVE c[k].type # "tool_use" /\ c[k].type # "tool_result"
  <2>1. CASE k \in 1..Len(a)
    BY <1>3, <2>1 DEF Plain
  <2>2. CASE k \notin 1..Len(a)
    <3>1. PICK i \in 1..Len(b) : k = Len(a) + i
      <4>1. k - Len(a) \in 1..Len(b) /\ k = Len(a) + (k - Len(a))
        BY <1>1, <1>3, <2>2
      <4> QED BY <4>1
    <3> QED BY <1>3, <3>1 DEF Plain
  <2> QED BY <2>1, <2>2
<1> QED BY <1>2, <1>3, <1>4 DEF Plain

\* A user's message that is the last grows.
LEMMA LastGrows ==
    ASSUME NEW list, Listed(list), Len(list) # 0, IsTold(list[Len(list)]),
           list[Len(list)].role = "user", NEW bs, bs # <<>>
    PROVE  LET new == AppendUser(list, bs)
               n == Len(list)
           IN /\ Listed(new) /\ Len(new) = n
              /\ \A i \in 1..n : i # n => new[i] = list[i]
              /\ new[n] = [role |-> "user", blocks |-> list[n].blocks \o bs]
<1>1. PICK n : n = Len(list)
  OBVIOUS
<1>2. n \in Nat /\ n # 0 /\ DOMAIN list = 1..n /\ n \in 1..n
  BY <1>1 DEF Listed
<1>3. list # <<>>
  BY <1>1, <1>2, NoneIs
<1> DEFINE new == [list EXCEPT ![n].blocks = @ \o bs]
<1>4. AppendUser(list, bs) = new
  BY <1>1, <1>3 DEF AppendUser, Last
<1>5. new = [i \in 1..n |-> new[i]]
  BY <1>2
<1>6. \A i \in 1..n : i # n => new[i] = list[i]
  BY <1>2
<1>7. new[n] = [role |-> "user", blocks |-> list[n].blocks \o bs]
  <2>1. list[n] = [role |-> "user", blocks |-> list[n].blocks]
    BY <1>1 DEF IsTold
  <2>2. new[n] = [list[n] EXCEPT !.blocks = list[n].blocks \o bs]
    BY <1>2
  <2>3. PICK r, c, d : r = list[n] /\ c = list[n].blocks /\ d = list[n].blocks \o bs
    OBVIOUS
  <2>4. r = [role |-> "user", blocks |-> c] /\ new[n] = [r EXCEPT !.blocks = d]
    BY <2>1, <2>2, <2>3
  <2>5. new[n] = [role |-> "user", blocks |-> d]
    BY ONLY <2>4
  <2> QED BY <2>3, <2>5
<1> HIDE DEF new
<1>8. Listed(new) /\ Len(new) = n
  BY <1>2, <1>5, LenIs
<1> QED BY <1>1, <1>4, <1>6, <1>7, <1>8

LEMMA NewUser ==
    ASSUME NEW list, Listed(list), Len(list) = 0 \/ list[Len(list)].role # "user", NEW bs, bs # <<>>
    PROVE  AppendUser(list, bs) = Append(list, [role |-> "user", blocks |-> bs])
<1>1. CASE Len(list) = 0
  <2>1. list = <<>>
    BY <1>1, NoneIs
  <2> QED BY <2>1 DEF AppendUser
<1>2. CASE list[Len(list)].role # "user"
  BY <1>2 DEF AppendUser, Last
<1> QED BY <1>1, <1>2

\* What a person says, behind the results or on its own.
LEMMA AppendTexts ==
    ASSUME NEW list, InRounds(list), NEW bs, Plain(bs)
    PROVE  InRounds(AppendUser(list, bs))
<1>0. PICK n, new : n = Len(list) /\ new = AppendUser(list, bs)
  OBVIOUS
<1>1. Listed(list) /\ n \in Nat
  BY <1>0 DEF InRounds, Listed
<1>2. CASE bs = <<>>
  <2>1. new = list
    BY <1>0, <1>2 DEF AppendUser
  <2> QED BY <1>0, <2>1
<1>3. CASE bs # <<>> /\ n # 0 /\ list[n].role = "user"
  <2>1. n \in 1..n /\ IsTold(list[n])
    <3>1. n \in 1..Len(list)
      BY <1>0, <1>1, <1>3
    <3> QED BY <1>0, <3>1 DEF InRounds, IsTold
  <2>2. /\ Listed(new) /\ Len(new) = n
        /\ \A i \in 1..n : i # n => new[i] = list[i]
        /\ new[n] = [role |-> "user", blocks |-> list[n].blocks \o bs]
    BY <1>0, <1>1, <1>3, <2>1, LastGrows
  <2>3. UserAt(list, n)
    BY <1>0, <1>3, <2>1, UserCallsNone
  <2>4. n # 1 => n - 1 \in 1..n /\ n - 1 # n
    BY <1>1, <2>1
  <2>5. UserAt(new, n)
    <3>1. CASE n = 1
      <4>1. Plain(list[n].blocks)
        BY <2>3, <3>1 DEF UserAt
      <4>2. Plain(list[n].blocks \o bs)
        BY <4>1, PlainConcat
      <4> QED BY <2>2, <3>1, <4>2 DEF UserAt
    <3>2. CASE n # 1
      <4>2. PICK v, t : Landing(v, UsesIn(list[n - 1])) /\ Plain(t) /\ list[n].blocks = Answers(v) \o t
        BY <2>3, <3>2 DEF UserAt
      <4>1. PICK r : r = Answers(v)
        OBVIOUS
      <4>3. Listed(r)
        <5>1. PICK u : u = UsesIn(list[n - 1])
          OBVIOUS
        <5>2. Listed(u)
          BY <1>0, <1>3, <2>1, <3>2, <5>1, UserCallsNone
        <5>3. Listed(v)
          BY <4>2, <5>1, <5>2, LandingIs
        <5> QED BY <4>1, <5>3, AnswersAre
      <4>4. Listed(t) /\ Listed(bs) /\ Plain(t \o bs)
        BY <4>2, PlainConcat DEF Plain
      <4>5. (r \o t) \o bs = r \o (t \o bs)
        BY <4>3, <4>4, ConcatThree
      <4>6. new[n].blocks = r \o (t \o bs) /\ new[n].role = "user"
        BY <2>2, <4>1, <4>2, <4>5
      <4>7. new[n - 1] = list[n - 1]
        BY <2>2, <2>4, <3>2
      <4>8. list[n - 1].role = "assistant"
        BY <2>3, <3>2 DEF UserAt
      <4> QED BY <3>2, <4>1, <4>2, <4>4, <4>6, <4>7, <4>8 DEF UserAt
    <3> QED BY <3>1, <3>2
  <2>6. IsTold(new[n])
    BY <2>2 DEF IsTold
  <2>7. ASSUME NEW i \in 1..n, i # n
        PROVE  IsTold(new[i]) /\ (UserAt(new, i) \/ AnswerAt(new, i))
    <3>1. new[i] = list[i] /\ IsTold(list[i]) /\ (UserAt(list, i) \/ AnswerAt(list, i))
      BY <1>0, <2>2, <2>7 DEF InRounds, IsTold
    <3>2. CASE UserAt(list, i)
      <4>1. i # 1 => i - 1 \in 1..n /\ i - 1 # n
        BY <1>1, <2>7
      <4>2. i # 1 => new[i - 1] = list[i - 1]
        BY <2>2, <4>1
      <4> QED BY <3>1, <3>2, <4>2 DEF UserAt
    <3>3. CASE AnswerAt(list, i)
      <4>1. i + 1 \in 1..n /\ i < n
        BY <1>1, <2>7
      <4>2. ASSUME UsesIn(list[i]) # <<>> PROVE new[i + 1].role = "user"
        <5>1. list[i + 1].role = "user"
          BY <3>3, <4>2 DEF AnswerAt
        <5>2. CASE i + 1 = n
          BY <2>2, <5>2
        <5>3. CASE i + 1 # n
          BY <2>2, <4>1, <5>1, <5>3
        <5> QED BY <5>2, <5>3
      <4> QED BY <2>2, <3>1, <3>3, <4>1, <4>2 DEF AnswerAt
    <3> QED BY <3>1, <3>2, <3>3
  <2>8. InRounds(new)
    BY <2>2, <2>5, <2>6, <2>7 DEF InRounds, IsTold
  <2> QED BY <1>0, <2>8
<1>4. CASE bs # <<>> /\ (n = 0 \/ list[n].role # "user")
  <2>1. PICK b : b = [role |-> "user", blocks |-> bs]
    OBVIOUS
  <2>2. new = Append(list, b)
    BY <1>0, <1>1, <1>4, <2>1, NewUser
  <2>3. /\ Listed(new) /\ Len(new) = n + 1
        /\ \A i \in 1..n : new[i] = list[i]
        /\ new[n + 1] = b
    BY <1>0, <1>1, <2>2, AppendedIs
  <2>4. \A i \in 1..n : IsTold(new[i]) /\ (UserAt(new, i) \/ AnswerAt(new, i))
    <3>1. Len(new) >= n
      BY <1>1, <2>3
    <3> QED BY <1>0, <2>3, <3>1, RoundsGrow
  <2>5. IsTold(new[n + 1]) /\ new[n + 1].role = "user" /\ new[n + 1].blocks = bs
    BY <2>1, <2>3 DEF IsTold
  <2>6. UserAt(new, n + 1)
    <3>1. CASE n = 0
      BY <2>5, <3>1 DEF UserAt
    <3>2. CASE n # 0
      <4>1. list[n].role = "assistant" /\ UsesIn(list[n]) = <<>>
        BY <1>0, <1>4, <3>2, AnswerIsLast
      <4>2. (n + 1) - 1 = n /\ n + 1 # 1 /\ new[n] = list[n]
        BY <1>1, <2>3, <3>2
      <4>3. Answers(<<>>) = <<>>
        <5>1. PICK r : r = Answers(<<>>)
          OBVIOUS
        <5>2. Listed(r) /\ Len(r) = 0
          BY <5>1, NoneIs, AnswersAre
        <5> QED BY <5>1, <5>2, NoneIs
      <4>4. <<>> \o bs = bs
        BY ConcatNone DEF Plain
      <4>5. Landing(<<>>, UsesIn(new[n]))
        BY <4>1, <4>2, NoLanding
      <4> QED BY <2>5, <4>1, <4>2, <4>3, <4>4, <4>5 DEF UserAt
    <3> QED BY <3>1, <3>2
  <2>7. \A i \in 1..Len(new) : i = n + 1 \/ i \in 1..n
    BY <1>1, <2>3
  <2>8. InRounds(new)
    BY <2>3, <2>4, <2>5, <2>6, <2>7 DEF InRounds, IsTold
  <2> QED BY <1>0, <2>8
<1> QED BY <1>0, <1>2, <1>3, <1>4

-----------------------------------------------------------------------------
(* The conversation in rounds: an answer, and the results of its calls.    *)

IsPart(m) ==
    /\ m.role \in {"user", "system", "assistant", "tool"}
    /\ m.role = "user" => m.blocks \in Seq(Thoughts)
    /\ m.role = "assistant" => IsAnswer(m)
    /\ m.role # "assistant" => DOMAIN m.calls = {}

\* The k-th message behind the one at i is the result of its call c.
ResultAt(msgs, i, k, c) ==
    /\ i + k \in 1..Len(msgs) /\ msgs[i + k].role = "tool"
    /\ msgs[i + k].results[1].id = msgs[i].calls[c].id
HasResults(msgs, i) ==
    \E p \in Orders(Len(msgs[i].calls)) : \A k \in 1..Len(msgs[i].calls) : ResultAt(msgs, i, k, p[k])
\* The message at i is the result of a call of the one at j.
Within(msgs, i, j) == msgs[j].role = "assistant" /\ i <= j + Len(msgs[j].calls)
Answered(msgs) ==
    /\ \A i \in 1..Len(msgs) : IsPart(msgs[i])
    /\ \A i \in 1..Len(msgs) : msgs[i].role = "assistant" => HasResults(msgs, i)
    /\ \A i \in 1..Len(msgs) :
         msgs[i].role = "tool" => \E j \in 1..i - 1 : Within(msgs, i, j)

LEMMA ResultBehind ==
    ASSUME NEW msgs, Answered(msgs), NEW i \in 1..Len(msgs), msgs[i].role = "assistant",
           NEW k \in 1..Len(msgs[i].calls)
    PROVE  i + k \in 1..Len(msgs) /\ msgs[i + k].role = "tool"
BY DEF Answered, HasResults, ResultAt

\* The list of anthropicMessages, message by message.
IsList(f, msgs) == f[0] = <<>> /\ \A i \in 1..Len(msgs) : f[i] = AppendMsg(f[i - 1], msgs[i])

LEMMA ListIs ==
    ASSUME NEW msgs, Len(msgs) \in Nat
    PROVE  \E f : IsList(f, msgs) /\ AnthropicMessages(msgs) = f[Len(msgs)]
<1> DEFINE n == Len(msgs)
           List(f, k) == f = [i \in 0..k |-> IF i = 0 THEN <<>> ELSE AppendMsg(f[i - 1], msgs[i])]
           T == {k \in Nat : ~ \E f : List(f, k)}
           list == CHOOSE f : List(f, n)
<1>1. T = {}
  <2> SUFFICES ASSUME T # {} PROVE FALSE
    OBVIOUS
  <2>1. PICK k \in T : \A j \in T : k <= j
    <3>1. T \subseteq Nat
      OBVIOUS
    <3> HIDE DEF T
    <3> QED BY <3>1, LeastIn
  <2>2. \E f : List(f, k)
    <3>1. CASE k = 0
      <4>1. List([i \in 0..0 |-> <<>>], 0)
        OBVIOUS
      <4> QED BY <3>1, <4>1
    <3>2. CASE k # 0
      <4>1. k - 1 \in Nat /\ k - 1 \in 0..k /\ k \in 0..k /\ ~(k <= k - 1)
        BY <2>1, <3>2
      <4>2. PICK f : List(f, k - 1)
        <5> HIDE DEF List
        <5> QED BY <2>1, <4>1
      <4>3. PICK g : g = [i \in 0..k |-> IF i = k THEN AppendMsg(f[k - 1], msgs[k]) ELSE f[i]]
        OBVIOUS
      <4>4. \A i \in 0..k : i # k => i \in 0..k - 1 /\ g[i] = f[i]
        BY <2>1, <4>3
      <4>5. \A i \in 0..k - 1 : f[i] = IF i = 0 THEN <<>> ELSE AppendMsg(f[i - 1], msgs[i])
        BY <4>2
      <4>6. g[k] = AppendMsg(g[k - 1], msgs[k])
        <5>1. g[k] = AppendMsg(f[k - 1], msgs[k]) /\ g[k - 1] = f[k - 1]
          BY <4>1, <4>3
        <5> QED BY <5>1
      <4>7. ASSUME NEW i \in 0..k PROVE g[i] = IF i = 0 THEN <<>> ELSE AppendMsg(g[i - 1], msgs[i])
        <5>1. CASE i = k
          BY <3>2, <4>6, <5>1
        <5>2. CASE i # k
          <6>1. g[i] = f[i] /\ i \in 0..k - 1
            BY <4>4, <5>2
          <6>2. i # 0 => i - 1 \in 0..k /\ i - 1 # k
            BY <2>1, <6>1
          <6>3. i # 0 => g[i - 1] = f[i - 1]
            BY <4>4, <6>2
          <6> QED BY <4>5, <6>1, <6>3
        <5> QED BY <5>1, <5>2
      <4>8. List(g, k)
        BY <4>3, <4>7
      <4> QED BY <4>8
    <3> QED BY <3>1, <3>2
  <2> QED BY <2>1, <2>2
<1>2. List(list, n)
  <2>1. \E f : List(f, n)
    <3> HIDE DEF List
    <3> QED BY <1>1
  <2> HIDE DEF List
  <2> QED BY <2>1
<1>3. list[0] = <<>> /\ \A i \in 1..n : list[i] = AppendMsg(list[i - 1], msgs[i])
  <2>1. 0 \in 0..n /\ \A i \in 1..n : i \in 0..n /\ i # 0
    OBVIOUS
  <2> HIDE DEF list, n
  <2> QED BY <1>2, <2>1
<1>4. AnthropicMessages(msgs) = list[n]
  BY DEF AnthropicMessages
<1> QED
  <2> HIDE DEF list
  <2> QED BY <1>3, <1>4 DEF IsList

\* What one message adds to the list.
ToolResult(id) == [type |-> "tool_result", id |-> id]
Told(bs) == [role |-> "assistant", blocks |-> bs]

LEMMA ToolAdds ==
    ASSUME NEW m, IsMsg(m), m.role = "tool", NEW list
    PROVE  AppendMsg(list, m) = AppendUser(list, <<ToolResult(m.results[1].id)>>)
<1> DEFINE r == [i \in DOMAIN m.results |-> [type |-> "tool_result", id |-> m.results[i].id]]
<1>1. AppendMsg(list, m) = AppendUser(list, r)
  BY DEF AppendMsg, Map
<1>2. DOMAIN m.results = 1..1
  BY DEF IsMsg, Listed
<1>3. r = [i \in 1..1 |-> ToolResult(m.results[1].id)]
  <2>1. \A i \in 1..1 : i = 1
    OBVIOUS
  <2> QED BY <1>2, <2>1 DEF ToolResult
<1>4. [i \in 1..1 |-> ToolResult(m.results[1].id)] = <<ToolResult(m.results[1].id)>>
  OBVIOUS
<1> QED BY <1>1, <1>3, <1>4

LEMMA AnswerAdds ==
    ASSUME NEW m, m.role = "assistant", NEW list
    PROVE  AppendMsg(list, m) = IF AssistantBlocks(m) = <<>> THEN list
                                ELSE Append(list, Told(AssistantBlocks(m)))
BY DEF AppendMsg, Told

LEMMA SaidAdds ==
    ASSUME NEW m, IsPart(m), NEW list, InRounds(list), m.role \in {"user", "system"}
    PROVE  InRounds(AppendMsg(list, m))
<1>1. CASE m.role = "system"
  BY <1>1 DEF AppendMsg
<1>2. CASE m.role = "user"
  <2>1. PICK bs : bs = AnthBlocks(m.blocks)
    OBVIOUS
  <2>2. bs \in Seq(Thoughts)
    BY <1>2, <2>1, AnthBlocksAre DEF IsPart
  <2>3. \A k \in 1..Len(bs) : bs[k].type # "tool_use" /\ bs[k].type # "tool_result"
    <3> SUFFICES ASSUME NEW k \in 1..Len(bs) PROVE bs[k].type # "tool_use" /\ bs[k].type # "tool_result"
      OBVIOUS
    <3>1. bs[k] \in Thoughts
      BY <2>2, ElementOfSeq
    <3> QED BY <3>1 DEF Thoughts
  <2>4. Plain(bs)
    BY <2>2, <2>3, SeqIsListed DEF Plain
  <2>5. AppendMsg(list, m) = AppendUser(list, bs)
    BY <1>2, <2>1 DEF AppendMsg
  <2> QED BY <2>4, <2>5, AppendTexts
<1> QED BY <1>1, <1>2

LEMMA UserGrows ==
    ASSUME NEW l, Listed(l), NEW R, NEW b, b # <<>>
    PROVE  AppendUser(Append(l, [role |-> "user", blocks |-> R]), b)
           = Append(l, [role |-> "user", blocks |-> R \o b])
<1>1. PICK x, y, g, h, new :
        /\ x = [role |-> "user", blocks |-> R] /\ y = [role |-> "user", blocks |-> R \o b]
        /\ g = Append(l, x) /\ h = Append(l, y) /\ new = AppendUser(g, b)
  OBVIOUS
<1>2. Len(l) \in Nat
  BY DEF Listed
<1>3. /\ Listed(g) /\ Len(g) = Len(l) + 1
      /\ \A i \in 1..Len(l) : g[i] = l[i]
      /\ g[Len(l) + 1] = x
  BY <1>1, AppendedIs
<1>4. /\ Listed(h) /\ Len(h) = Len(l) + 1
      /\ \A i \in 1..Len(l) : h[i] = l[i]
      /\ h[Len(l) + 1] = y
  BY <1>1, AppendedIs
<1>5. PICK n : n = Len(g)
  OBVIOUS
<1>6. n # 0 /\ g[n] = x /\ h[n] = y /\ IsTold(x) /\ x.role = "user" /\ x.blocks = R
  BY <1>1, <1>2, <1>3, <1>4, <1>5 DEF IsTold
<1>7. /\ Listed(new) /\ Len(new) = n
      /\ \A i \in 1..n : i # n => new[i] = g[i]
      /\ new[n] = [role |-> "user", blocks |-> g[n].blocks \o b]
  <2>1. Len(g) # 0 /\ IsTold(g[Len(g)]) /\ g[Len(g)].role = "user"
    BY <1>5, <1>6
  <2>2. b # <<>> /\ Listed(g)
    BY <1>3
  <2>3. /\ Listed(AppendUser(g, b)) /\ Len(AppendUser(g, b)) = Len(g)
        /\ \A i \in 1..Len(g) : i # Len(g) => AppendUser(g, b)[i] = g[i]
        /\ AppendUser(g, b)[Len(g)] = [role |-> "user", blocks |-> g[Len(g)].blocks \o b]
    BY ONLY <2>1, <2>2, LastGrows
  <2> QED BY ONLY <1>1, <1>5, <2>3
<1>8. new[n] = h[n]
  <2>1. g[n].blocks = R
    BY <1>6
  <2>2. new[n] = [role |-> "user", blocks |-> R \o b]
    BY ONLY <1>7, <2>1
  <2> QED BY ONLY <1>1, <1>6, <2>2
<1>9. ASSUME NEW i \in 1..n PROVE new[i] = h[i]
  <2>1. CASE i = n
    BY <1>8, <2>1
  <2>2. CASE i # n
    <3>1. i \in 1..Len(l)
      BY <1>2, <1>3, <1>5, <2>2
    <3> QED BY <1>3, <1>4, <1>7, <2>2, <3>1
  <2> QED BY <2>1, <2>2
<1>10. new = h
  BY <1>3, <1>4, <1>5, <1>7, <1>9, SamePlaces
<1> QED BY <1>1, <1>10

LEMMA UsesAre ==
    ASSUME NEW m, IsAnswer(m)
    PROVE  /\ Listed(Uses(m)) /\ Len(Uses(m)) = Len(m.calls) /\ Len(m.calls) \in Nat
           /\ \A k \in 1..Len(m.calls) : Uses(m)[k].id = m.calls[k].id
<1>1. PICK u, n : u = Uses(m) /\ n = Len(m.calls)
  OBVIOUS
<1>2. n \in Nat /\ DOMAIN m.calls = 1..n
  BY <1>1 DEF IsAnswer
<1>3. u = [i \in 1..n |-> Use(m.calls[i])] /\ u = [i \in 1..n |-> u[i]]
  BY <1>1, <1>2 DEF Uses
<1>4. Listed(u) /\ Len(u) = n
  BY <1>2, <1>3, LenIs
<1>5. \A k \in 1..n : u[k].id = m.calls[k].id
  BY <1>3 DEF Use
<1> QED BY <1>1, <1>2, <1>4, <1>5

FirstAnswers(u, d) == [k \in 1..d |-> ToolResult(u[k].id)]

LEMMA FirstAnswersAre ==
    ASSUME NEW u, NEW d \in Nat, d # 0
    PROVE  /\ FirstAnswers(u, 1) = <<ToolResult(u[1].id)>>
           /\ FirstAnswers(u, d) = FirstAnswers(u, d - 1) \o <<ToolResult(u[d].id)>>
<1>1. FirstAnswers(u, 1) = <<ToolResult(u[1].id)>>
  <2>1. FirstAnswers(u, 1) = [k \in 1..1 |-> ToolResult(u[1].id)]
    <3>1. \A k \in 1..1 : k = 1
      OBVIOUS
    <3> QED BY <3>1 DEF FirstAnswers
  <2> QED BY <2>1
<1>2. PICK a, b, c, z : /\ a = FirstAnswers(u, d - 1) /\ b = <<ToolResult(u[d].id)>>
                        /\ c = FirstAnswers(u, d) /\ z = a \o b
  OBVIOUS
<1>3. d - 1 \in Nat /\ (d - 1) + 1 = d /\ d \in 1..d /\ \A k \in 1..d : k = d \/ k \in 1..d - 1
  OBVIOUS
<1>4. /\ a = [k \in 1..d - 1 |-> a[k]] /\ c = [k \in 1..d |-> c[k]]
      /\ \A k \in 1..d - 1 : a[k] = ToolResult(u[k].id)
      /\ \A k \in 1..d : c[k] = ToolResult(u[k].id)
  BY <1>2 DEF FirstAnswers
<1>5. Listed(a) /\ Len(a) = d - 1
  BY <1>3, <1>4, LenIs
<1>6. Listed(c) /\ Len(c) = d
  BY <1>4, LenIs
<1>7. Listed(b) /\ Len(b) = 1 /\ b[1] = ToolResult(u[d].id)
  BY <1>2, SingleIs
<1>8. Listed(a) /\ Listed(b)
  BY <1>5, <1>7
<1>9. /\ Listed(a \o b) /\ Len(a \o b) = Len(a) + Len(b)
      /\ \A i \in 1..Len(a) : (a \o b)[i] = a[i]
      /\ \A i \in 1..Len(b) : (a \o b)[Len(a) + i] = b[i]
  BY ONLY <1>8, ConcatIs
<1>10. Listed(z) /\ Len(z) = d /\ \A k \in 1..d - 1 : z[k] = a[k]
  BY <1>2, <1>3, <1>5, <1>7, <1>9
<1>11. z[d] = b[1]
  <2>1. 1 \in 1..Len(b)
    BY <1>7
  <2> QED BY <1>2, <1>3, <1>5, <1>9, <2>1
<1>12. \A k \in 1..d : c[k] = z[k]
  BY <1>3, <1>4, <1>7, <1>10, <1>11
<1>13. c = z
  BY <1>6, <1>10, <1>12, SamePlaces
<1> QED BY <1>1, <1>2, <1>13

\* An answer with calls and its results are one message of each.
LEMMA RoundIs ==
    ASSUME NEW msgs, Conversation(msgs), Answered(msgs), NEW f, IsList(f, msgs),
           NEW j \in 1..Len(msgs), msgs[j].role = "assistant", Len(msgs[j].calls) # 0,
           InRounds(f[j - 1])
    PROVE  InRounds(f[j + Len(msgs[j].calls)])
<1>1. PICK m, n, B, u, list, l :
        /\ m = msgs[j] /\ n = Len(m.calls) /\ B = AssistantBlocks(m) /\ u = Uses(m)
        /\ list = f[j - 1] /\ l = Append(list, Told(B))
  OBVIOUS
<1>2. IsAnswer(m)
  BY <1>1 DEF Answered, IsPart
<1>3. Listed(u) /\ Len(u) = n /\ n \in Nat /\ \A k \in 1..n : u[k].id = m.calls[k].id
  BY <1>1, <1>2, UsesAre
<1>4. InPlaces(B) /\ OfType(B, "tool_use") = u
  BY <1>1, <1>2, AssistantBlocksAre
<1>5. B # <<>>
  <2> SUFFICES ASSUME B = <<>> PROVE FALSE
    OBVIOUS
  <2>1. Listed(B) /\ Len(B) = 0
    BY NoneIs
  <2>2. u = <<>>
    BY <1>4, <2>1, OfTypeNone
  <2> QED BY <1>1, <1>3, <2>2, NoneIs
<1>6. f[j] = l
  <2>1. f[j] = AppendMsg(list, m)
    BY <1>1 DEF IsList
  <2> QED BY <1>1, <1>5, <2>1, AnswerAdds
<1>7. InRounds(list) /\ Listed(list)
  BY <1>1 DEF InRounds
<1>8. /\ Listed(l) /\ Len(l) \in Nat /\ Len(l) # 0 /\ l[Len(l)].role # "user"
  <2>1. /\ Listed(l) /\ Len(l) = Len(list) + 1 /\ l[Len(list) + 1] = Told(B)
    BY <1>1, <1>7, AppendedIs
  <2>2. Len(list) \in Nat
    BY <1>7 DEF Listed
  <2>3. Told(B).role = "assistant"
    BY DEF Told
  <2> QED BY <2>1, <2>2, <2>3
<1>14. PICK p \in Orders(n) : \A k \in 1..n : ResultAt(msgs, j, k, p[k])
  BY <1>1 DEF Answered, HasResults
<1>15. PICK v : v = [k \in 1..n |-> u[p[k]]]
  OBVIOUS
<1>16. Landing(v, u)
  BY <1>3, <1>15 DEF Landing
<1>17. Listed(v) /\ Len(v) = n
  BY <1>3, <1>16, LandingIs
<1> DEFINE Holds(d) == f[j + d] = Append(l, [role |-> "user", blocks |-> FirstAnswers(v, d)])
           T == {d \in 0..n : d = 0 \/ Holds(d)}
<1>9. 0 \in T
  BY <1>3
<1>10. ASSUME NEW d \in 1..n, d - 1 \in T PROVE d \in T
  <2>1. d \in 0..n /\ d \in Nat /\ d # 0 /\ (d - 1 = 0 \/ Holds(d - 1))
    BY <1>3, <1>10
  <2>2. ResultAt(msgs, j, d, p[d]) /\ p[d] \in 1..n /\ v[d] = u[p[d]]
    BY <1>14, <1>15, OrderIs
  <2>3. PICK x, z, b : x = msgs[j + d] /\ z = ToolResult(v[d].id) /\ b = <<z>>
    OBVIOUS
  <2>4. j + d \in 1..Len(msgs) /\ (j + d) - 1 = j + (d - 1) /\ x.role = "tool" /\ x.results[1].id = v[d].id
    BY <1>1, <1>3, <2>1, <2>2, <2>3 DEF ResultAt
  <2>5. IsMsg(x)
    BY <2>3, <2>4 DEF Conversation, Listed
  <2>6. f[j + d] = AppendMsg(f[j + (d - 1)], x)
    BY <2>3, <2>4 DEF IsList
  <2>7. b # <<>>
    <3>1. Len(<<z>>) = 1 /\ Listed(<<z>>)
      BY SingleIs
    <3>2. <<z>> # <<>>
      BY <3>1, NoneIs
    <3> QED BY ONLY <2>3, <3>2
  <2>8. PICK g : g = f[j + (d - 1)]
    OBVIOUS
  <2>9. f[j + d] = AppendUser(g, b)
    BY <2>3, <2>4, <2>5, <2>6, <2>8, ToolAdds
  <2>10. CASE d = 1
    <3>1. g = l
      <4>1. j + (d - 1) = j
        BY <2>10
      <4> QED BY <1>6, <2>8, <4>1
    <3>2. AppendUser(l, b) = Append(l, [role |-> "user", blocks |-> b])
      BY <1>8, <2>7, NewUser
    <3>3. b = FirstAnswers(v, d)
      BY <2>1, <2>3, <2>10, FirstAnswersAre
    <3> QED BY <2>1, <2>9, <3>1, <3>2, <3>3
  <2>11. CASE d # 1
    <3>1. PICK R : R = FirstAnswers(v, d - 1)
      OBVIOUS
    <3>2. g = Append(l, [role |-> "user", blocks |-> R])
      <4>1. d - 1 # 0
        BY <2>1, <2>11
      <4> QED BY <2>1, <2>8, <3>1, <4>1
    <3>3. AppendUser(g, b) = Append(l, [role |-> "user", blocks |-> R \o b])
      BY <1>8, <2>7, <3>2, UserGrows
    <3>4. R \o b = FirstAnswers(v, d)
      BY <2>1, <2>3, <3>1, FirstAnswersAre
    <3> QED BY <2>1, <2>9, <3>3, <3>4
  <2> QED BY <2>10, <2>11
<1>11. n \in T
  <2> HIDE DEF T
  <2>1. \A d \in 0..n : d \in T
    BY <1>3, <1>9, <1>10, Climb
  <2> QED BY <1>3, <2>1
<1>12. f[j + n] = Append(l, [role |-> "user", blocks |-> Answers(v)])
  <2>1. Holds(n)
    BY <1>1, <1>11
  <2>2. FirstAnswers(v, n) = Answers(v)
    BY <1>17 DEF FirstAnswers, Answers, ToolResult
  <2> QED BY <2>1, <2>2
<1>13. InRounds(f[j + n])
  BY <1>1, <1>3, <1>4, <1>7, <1>12, <1>16, AppendRound DEF Told
<1> QED BY <1>1, <1>13

\* Every answer up to i has all its results up to i.
RoundsEndBy(msgs, i) ==
    \A k \in 1..i : msgs[k].role = "assistant" => k + Len(msgs[k].calls) <= i

LEMMA EndedBefore ==
    ASSUME NEW msgs, Answered(msgs), Len(msgs) \in Nat, NEW i \in 1..Len(msgs), msgs[i].role # "tool"
    PROVE  RoundsEndBy(msgs, i - 1)
<1> SUFFICES ASSUME NEW k \in 1..i - 1, msgs[k].role = "assistant",
                    ~(k + Len(msgs[k].calls) <= i - 1)
             PROVE  FALSE
  BY DEF RoundsEndBy
<1>1. k \in 1..Len(msgs) /\ i \in Nat /\ k \in Nat /\ k < i
  OBVIOUS
<1>2. Len(msgs[k].calls) \in Nat
  BY <1>1 DEF Answered, IsPart, IsAnswer
<1>3. i - k \in 1..Len(msgs[k].calls) /\ k + (i - k) = i
  BY <1>1, <1>2
<1>4. k + (i - k) \in 1..Len(msgs) /\ msgs[k + (i - k)].role = "tool"
  <2>1. PICK d \in 1..Len(msgs[k].calls) : d = i - k
    BY <1>3
  <2>2. k + d \in 1..Len(msgs) /\ msgs[k + d].role = "tool"
    BY <1>1, ResultBehind
  <2> QED BY <2>1, <2>2
<1> QED BY <1>3, <1>4

LEMMA AllEnded ==
    ASSUME NEW msgs, Answered(msgs), Len(msgs) \in Nat
    PROVE  RoundsEndBy(msgs, Len(msgs))
<1> SUFFICES ASSUME NEW k \in 1..Len(msgs), msgs[k].role = "assistant"
             PROVE  k + Len(msgs[k].calls) <= Len(msgs)
  BY DEF RoundsEndBy
<1>1. PICK n : n = Len(msgs[k].calls)
  OBVIOUS
<1>2. n \in Nat
  BY <1>1 DEF Answered, IsPart, IsAnswer
<1>3. CASE n = 0
  BY <1>1, <1>3
<1>4. CASE n # 0
  <2>1. n \in 1..n
    BY <1>2, <1>4
  <2>2. k + n \in 1..Len(msgs)
    BY <1>1, <2>1, ResultBehind
  <2> QED BY <1>1, <2>2
<1> QED BY <1>3, <1>4

\* A message that is no result, behind whole rounds.
LEMMA OutsideRounds ==
    ASSUME NEW msgs, Answered(msgs), NEW f, IsList(f, msgs), NEW i \in 1..Len(msgs),
           msgs[i].role \in {"user", "system"} \/ Len(msgs[i].calls) = 0, msgs[i].role # "tool",
           InRounds(f[i - 1])
    PROVE  InRounds(f[i])
<1>1. PICK m, list : m = msgs[i] /\ list = f[i - 1]
  OBVIOUS
<1>2. f[i] = AppendMsg(list, m) /\ IsPart(m) /\ InRounds(list)
  BY <1>1 DEF IsList, Answered
<1>3. CASE m.role \in {"user", "system"}
  BY <1>2, <1>3, SaidAdds
<1>4. CASE m.role = "assistant"
  <2>1. IsAnswer(m) /\ Len(m.calls) = 0
    BY <1>1, <1>2, <1>4 DEF IsPart
  <2>2. PICK bs : bs = AssistantBlocks(m)
    OBVIOUS
  <2>3. Uses(m) = <<>>
    <3>1. PICK u : u = Uses(m)
      OBVIOUS
    <3>2. Listed(u) /\ Len(u) = 0
      BY <2>1, <3>1, UsesAre
    <3> QED BY <3>1, <3>2, NoneIs
  <2>4. InPlaces(bs) /\ OfType(bs, "tool_use") = <<>>
    BY <2>1, <2>2, <2>3, AssistantBlocksAre
  <2>5. InRounds(Append(list, Told(bs)))
    BY <1>2, <2>4, AppendQuiet DEF Told
  <2> QED BY <1>2, <1>4, <2>2, <2>5, AnswerAdds
<1>5. m.role \in {"user", "system", "assistant"}
  BY <1>1, <1>2 DEF IsPart
<1> QED BY <1>3, <1>4, <1>5

LEMMA AllRounds ==
    ASSUME NEW msgs, Conversation(msgs), Answered(msgs), NEW f, IsList(f, msgs)
    PROVE  InRounds(f[Len(msgs)])
<1>1. PICK n : n = Len(msgs) /\ n \in Nat
  BY DEF Conversation, Listed
<1> DEFINE T == {i \in 0..n : RoundsEndBy(msgs, i) /\ ~ InRounds(f[i])}
<1>2. ASSUME NEW i \in T, \A k \in T : i <= k PROVE FALSE
  <2>1. i \in 0..n /\ RoundsEndBy(msgs, i) /\ ~ InRounds(f[i])
    OBVIOUS
  <2>2. ASSUME NEW k \in 0..n, k < i, RoundsEndBy(msgs, k) PROVE InRounds(f[k])
    <3> SUFFICES ASSUME ~ InRounds(f[k]) PROVE FALSE
      OBVIOUS
    <3>1. k \in T
      BY <2>2
    <3> QED BY <1>2, <2>1, <2>2, <3>1
  <2> HIDE DEF T
  <2>3. i # 0
    <3> SUFFICES ASSUME i = 0 PROVE FALSE
      OBVIOUS
    <3>1. InRounds(<<>>)
      <4>1. Listed(<<>>) /\ Len(<<>>) = 0
        BY NoneIs
      <4> QED BY <4>1 DEF InRounds
    <3> QED BY <2>1, <3>1 DEF IsList
  <2>4. i \in 1..Len(msgs) /\ i - 1 \in 0..n /\ i - 1 < i
    BY <1>1, <2>1, <2>3
  <2>5. IsPart(msgs[i])
    BY <2>4 DEF Answered
  <2>6. CASE msgs[i].role = "tool"
    <3>1. PICK j \in 1..i - 1 : Within(msgs, i, j)
      BY <2>4, <2>6 DEF Answered
    <3>2. j \in 1..Len(msgs) /\ j \in 1..i /\ j < i /\ msgs[j].role = "assistant" /\ msgs[j].role # "tool"
          /\ j - 1 \in 0..n /\ j - 1 < i
      BY <1>1, <2>4, <3>1 DEF Within
    <3>3. Len(msgs[j].calls) \in Nat
      BY <3>2 DEF Answered, IsPart, IsAnswer
    <3>4. i = j + Len(msgs[j].calls) /\ Len(msgs[j].calls) # 0
      <4>1. j + Len(msgs[j].calls) <= i
        BY <2>1, <3>2 DEF RoundsEndBy
      <4> QED BY <2>4, <3>1, <3>2, <3>3, <4>1 DEF Within
    <3>5. InRounds(f[j - 1])
      BY <1>1, <2>2, <3>2, EndedBefore
    <3>6. InRounds(f[j + Len(msgs[j].calls)])
      BY <3>2, <3>4, <3>5, RoundIs
    <3> QED BY <2>1, <3>4, <3>6
  <2>7. CASE msgs[i].role # "tool"
    <3>1. InRounds(f[i - 1])
      BY <1>1, <2>2, <2>4, <2>7, EndedBefore
    <3>2. msgs[i].role \in {"user", "system"} \/ Len(msgs[i].calls) = 0
      <4> SUFFICES ASSUME msgs[i].role = "assistant" PROVE Len(msgs[i].calls) = 0
        BY <2>5, <2>7 DEF IsPart
      <4>1. Len(msgs[i].calls) \in Nat
        BY <2>5 DEF IsPart, IsAnswer
      <4>2. i \in 1..i /\ i \in Nat
        BY <2>4
      <4>3. i + Len(msgs[i].calls) <= i
        BY <2>1, <4>2 DEF RoundsEndBy
      <4> QED BY <4>1, <4>2, <4>3
    <3>3. InRounds(f[i])
      BY <2>4, <2>7, <3>1, <3>2, OutsideRounds
    <3> QED BY <2>1, <3>3
  <2> QED BY <2>6, <2>7
<1>3. T = {}
  <2>1. T \subseteq Nat
    BY <1>1
  <2> HIDE DEF T
  <2> QED BY <1>2, <2>1, LeastIn
<1>4. n \in 0..n /\ RoundsEndBy(msgs, n)
  BY <1>1, AllEnded
<1> QED BY <1>1, <1>3, <1>4

\* Anthropic gets users and answers in turn, each call with its result.
LEMMA AnthropicAlternates ==
    ASSUME NEW msgs, Conversation(msgs), Answered(msgs)
    PROVE  Alternate(AnthropicMessages(msgs))
<1>1. Len(msgs) \in Nat
  BY DEF Conversation, Listed
<1>2. PICK f : IsList(f, msgs) /\ AnthropicMessages(msgs) = f[Len(msgs)]
  BY <1>1, ListIs
<1>3. PICK list : list = f[Len(msgs)]
  OBVIOUS
<1>4. InRounds(list)
  BY <1>2, <1>3, AllRounds
<1> QED BY <1>2, <1>3, <1>4, RoundsAlternate

\* openaiMessages writes each message as one: results bear the id of their call.
OpenAIPart(m) ==
    IF m.role = "tool"
      THEN [k \in DOMAIN m.results |-> [role |-> "tool", id |-> m.results[k].id]]
      ELSE <<[role |-> m.role, calls |-> [k \in DOMAIN m.calls |-> m.calls[k].id]]>>

LEMMA OnlyOne ==
    ASSUME NEW r, DOMAIN r = 1..1, NEW x, r = [k \in DOMAIN r |-> r[k]], r[1] = x
    PROVE  Listed(r) /\ Len(r) = 1 /\ r[1] = x
<1>1. Listed(r) /\ Len(r) = 1
  <2>1. r = [k \in 1..1 |-> r[k]]
    OBVIOUS
  <2> QED BY <2>1, LenIs
<1> QED BY <1>1

LEMMA OpenAIPartIs ==
    ASSUME NEW m, IsMsg(m)
    PROVE  LET p == OpenAIPart(m) IN
           /\ Listed(p) /\ Len(p) = 1
           /\ m.role = "tool" => p[1] = [role |-> "tool", id |-> m.results[1].id]
           /\ m.role # "tool" => p[1] = [role |-> m.role, calls |-> [k \in DOMAIN m.calls |-> m.calls[k].id]]
<1>1. PICK p : p = OpenAIPart(m)
  OBVIOUS
<1>2. CASE m.role = "tool"
  <2>1. DOMAIN m.results = 1..1
    BY <1>2 DEF IsMsg, Listed
  <2>2. p = [k \in DOMAIN m.results |-> [role |-> "tool", id |-> m.results[k].id]]
    BY <1>1, <1>2 DEF OpenAIPart
  <2>3. DOMAIN p = 1..1 /\ p = [k \in DOMAIN p |-> p[k]] /\ p[1] = [role |-> "tool", id |-> m.results[1].id]
    BY <2>1, <2>2
  <2>4. PICK x : x = [role |-> "tool", id |-> m.results[1].id]
    OBVIOUS
  <2>5. Listed(p) /\ Len(p) = 1
    BY <2>3, <2>4, OnlyOne
  <2> QED BY <1>1, <1>2, <2>3, <2>5
<1>3. CASE m.role # "tool"
  <2>1. PICK x : x = [role |-> m.role, calls |-> [k \in DOMAIN m.calls |-> m.calls[k].id]]
    OBVIOUS
  <2>2. p = <<x>>
    BY <1>1, <1>3, <2>1 DEF OpenAIPart
  <2>3. Listed(p) /\ Len(p) = 1 /\ p[1] = x
    BY <2>2, SingleIs
  <2> QED BY <1>1, <1>3, <2>1, <2>3
<1> QED BY <1>2, <1>3

LEMMA OpenAIIs ==
    ASSUME NEW msgs, Conversation(msgs), NEW body, body = OpenAIMessages(msgs)
    PROVE  /\ Listed(body) /\ Len(body) = Len(msgs)
           /\ \A i \in 1..Len(msgs) :
                /\ msgs[i].role = "tool" => body[i] = [role |-> "tool", id |-> msgs[i].results[1].id]
                /\ msgs[i].role # "tool" =>
                     body[i] = [role |-> msgs[i].role,
                                calls |-> [k \in DOMAIN msgs[i].calls |-> msgs[i].calls[k].id]]
<1>1. PICK q, n : q = [i \in DOMAIN msgs |-> OpenAIPart(msgs[i])] /\ n = Len(msgs)
  OBVIOUS
<1>2. body = FlattenSeq(q)
  BY <1>1 DEF OpenAIMessages, OpenAIPart, Map
<1>3. n \in Nat /\ DOMAIN msgs = 1..n /\ \A i \in 1..n : IsMsg(msgs[i])
  BY <1>1 DEF Conversation, Listed
<1>4. q = [i \in 1..n |-> q[i]] /\ \A i \in 1..n : q[i] = OpenAIPart(msgs[i])
  BY <1>1, <1>3
<1>5. Listed(q) /\ Len(q) = n
  BY <1>3, <1>4, LenIs
<1>6. \A i \in 1..n :
        /\ Listed(q[i]) /\ Len(q[i]) = 1
        /\ msgs[i].role = "tool" => q[i][1] = [role |-> "tool", id |-> msgs[i].results[1].id]
        /\ msgs[i].role # "tool" =>
             q[i][1] = [role |-> msgs[i].role,
                        calls |-> [k \in DOMAIN msgs[i].calls |-> msgs[i].calls[k].id]]
  BY <1>3, <1>4, OpenAIPartIs
<1>7. Lists(q) /\ \A i \in 1..Len(q) : Len(q[i]) = 1
  BY <1>5, <1>6 DEF Lists
<1>8. /\ Listed(FlattenSeq(q)) /\ Len(FlattenSeq(q)) = Len(q)
      /\ \A i \in 1..Len(q) : FlattenSeq(q)[i] = q[i][1]
  BY ONLY <1>7, FlattenSingles
<1>9. Listed(body) /\ Len(body) = n /\ \A i \in 1..n : body[i] = q[i][1]
  BY ONLY <1>2, <1>5, <1>8
<1>10. n = Len(msgs)
  BY <1>1
<1> QED BY ONLY <1>6, <1>9, <1>10

\* An answer's results are in reach of it.
LEMMA ReachOf ==
    ASSUME NEW msgs, Answered(msgs), NEW i \in 1..Len(msgs), Len(msgs) \in Nat, msgs[i].role = "assistant"
    PROVE  /\ Len(msgs[i].calls) \in Nat /\ DOMAIN msgs[i].calls = 1..Len(msgs[i].calls)
           /\ i + Len(msgs[i].calls) <= Len(msgs)
<1>1. Len(msgs[i].calls) \in Nat /\ DOMAIN msgs[i].calls = 1..Len(msgs[i].calls)
  BY DEF Answered, IsPart, IsAnswer
<1>2. RoundsEndBy(msgs, Len(msgs))
  BY AllEnded
<1> QED BY <1>1, <1>2 DEF RoundsEndBy

LEMMA OpenAIFollows ==
    ASSUME NEW msgs, Conversation(msgs), Answered(msgs), NEW body, body = OpenAIMessages(msgs),
           sent.msgs = msgs
    PROVE  Follow(body, LAMBDA m : m.id)
<1>1. PICK n : n = Len(msgs) /\ n \in Nat
  BY DEF Conversation, Listed
<1>2. /\ Listed(body) /\ Len(body) = n /\ DOMAIN body = 1..n
      /\ \A i \in 1..n :
           /\ msgs[i].role = "tool" => body[i] = [role |-> "tool", id |-> msgs[i].results[1].id]
           /\ msgs[i].role # "tool" =>
                body[i] = [role |-> msgs[i].role,
                           calls |-> [k \in DOMAIN msgs[i].calls |-> msgs[i].calls[k].id]]
  BY <1>1, OpenAIIs DEF Listed
<1>3. \A i \in 1..n : body[i].role = msgs[i].role
  BY <1>2
<1>4. ASSUME NEW i \in 1..n, msgs[i].role = "assistant"
      PROVE  /\ body[i].calls = [k \in 1..Len(msgs[i].calls) |-> msgs[i].calls[k].id]
             /\ Len(body[i].calls) = Len(msgs[i].calls)
  <2>1. PICK c, l : c = body[i].calls /\ l = Len(msgs[i].calls)
    OBVIOUS
  <2>2. l \in Nat /\ DOMAIN msgs[i].calls = 1..l
    BY <1>1, <1>4, <2>1, ReachOf
  <2>3. c = [k \in 1..l |-> msgs[i].calls[k].id]
    BY <1>2, <1>4, <2>1, <2>2
  <2>4. c = [k \in 1..l |-> c[k]]
    BY <2>3
  <2>5. Len(c) = l
    BY <2>2, <2>4, LenIs
  <2> QED BY <2>1, <2>3, <2>5
<1>5. ASSUME NEW i \in DOMAIN body, body[i].role = "assistant"
      PROVE  \E p \in Orders(Len(body[i].calls)) : \A k \in DOMAIN body[i].calls :
               /\ i + k \in DOMAIN body /\ body[i + k].role = "tool"
               /\ sent.msgs[i + k].results[1].id = sent.msgs[i].calls[p[k]].id
               /\ body[i + k].id = body[i].calls[p[k]]
  <2>1. PICK l : l = Len(msgs[i].calls)
    OBVIOUS
  <2>2. i \in 1..Len(msgs) /\ msgs[i].role = "assistant" /\ Len(msgs) \in Nat
    BY <1>1, <1>2, <1>3, <1>5
  <2>3. /\ body[i].calls = [k \in 1..l |-> msgs[i].calls[k].id]
        /\ DOMAIN body[i].calls = 1..l /\ Len(body[i].calls) = l
    BY <1>1, <1>4, <2>1, <2>2
  <2>4. PICK p \in Orders(l) : \A k \in 1..l : ResultAt(msgs, i, k, p[k])
    BY <2>1, <2>2 DEF Answered, HasResults
  <2>5. ASSUME NEW k \in 1..l
        PROVE  /\ i + k \in 1..n /\ body[i + k].role = "tool"
               /\ sent.msgs[i + k].results[1].id = sent.msgs[i].calls[p[k]].id
               /\ body[i + k].id = body[i].calls[p[k]]
    <3>1. PICK c \in 1..l : c = p[k]
      BY OrderIs
    <3>2. /\ i + k \in 1..n /\ msgs[i + k].role = "tool"
          /\ msgs[i + k].results[1].id = msgs[i].calls[c].id
      BY <1>1, <2>4, <3>1 DEF ResultAt
    <3>3. body[i + k].id = msgs[i].calls[c].id
      BY <1>2, <3>2
    <3>4. body[i].calls[c] = msgs[i].calls[c].id
      BY <2>3
    <3>5. sent.msgs = msgs
      OBVIOUS
    <3> QED BY <1>3, <3>1, <3>2, <3>3, <3>4, <3>5
  <2>6. p \in Orders(Len(body[i].calls)) /\ DOMAIN body = 1..n
    BY <1>2, <2>3
  <2> QED BY ONLY <2>3, <2>5, <2>6
<1>6. ASSUME NEW i \in DOMAIN body, body[i].role = "tool"
      PROVE  \E j \in 1..i - 1 : body[j].role = "assistant" /\ i <= j + Len(body[j].calls)
  <2>0. i \in 1..n /\ n = Len(msgs) /\ msgs[i].role = "tool"
    <3>1. i \in 1..n
      BY <1>2
    <3> QED BY <1>1, <1>3, <1>6, <3>1
  <2>1. PICK j \in 1..i - 1 : Within(msgs, i, j)
    BY <2>0 DEF Answered
  <2>2. j \in 1..n /\ msgs[j].role = "assistant"
    BY <1>1, <2>0, <2>1 DEF Within
  <2> QED BY <1>3, <1>4, <2>1, <2>2 DEF Within
<1> QED BY ONLY <1>5, <1>6 DEF Follow

\* Fitting a prompt to the window cuts texts only: results stay where they were.
LEMMA FittedIsAnswered ==
    ASSUME NEW msgs, Conversation(msgs), Answered(msgs), NEW new, SameButTexts(new, msgs)
    PROVE  Answered(new)
<1>1. PICK n : n = Len(msgs) /\ n \in Nat /\ DOMAIN msgs = 1..n
  BY DEF Conversation, Listed
<1>2. Conversation(new) /\ Len(new) = n /\ DOMAIN new = 1..n
  BY <1>1 DEF SameButTexts
<1>3. ASSUME NEW i \in 1..n
      PROVE  /\ new[i].role = msgs[i].role /\ new[i].blocks = msgs[i].blocks
             /\ new[i].calls = msgs[i].calls
             /\ msgs[i].role = "tool" => new[i].results[1].id = msgs[i].results[1].id
  <2>1. PICK a, b : a = new[i] /\ b = msgs[i]
    OBVIOUS
  <2>2. IsMsg(a) /\ IsMsg(b) /\ a.role = b.role /\ WithoutTexts(a) = WithoutTexts(b)
    BY <1>1, <1>2, <2>1 DEF Conversation, SameButTexts
  <2>3. [role |-> a.role, blocks |-> a.blocks, calls |-> a.calls, results |-> Ids(a)]
        = [role |-> b.role, blocks |-> b.blocks, calls |-> b.calls, results |-> Ids(b)]
    BY <2>2, WithoutTextsIs
  <2>4. a.blocks = b.blocks /\ a.calls = b.calls /\ Ids(a) = Ids(b)
    BY ONLY <2>3
  <2>5. ASSUME b.role = "tool" PROVE a.results[1].id = b.results[1].id
    <3>1. DOMAIN a.results = 1..1 /\ DOMAIN b.results = 1..1
      BY <2>2, <2>5 DEF IsMsg, Listed
    <3>2. 1 \in DOMAIN a.results /\ 1 \in DOMAIN b.results
      BY <3>1
    <3>3. Ids(a)[1] = a.results[1].id /\ Ids(b)[1] = b.results[1].id
      BY <3>2 DEF Ids
    <3> QED BY <2>4, <3>3
  <2> QED BY <2>1, <2>2, <2>4, <2>5
<1>4. ASSUME NEW i \in 1..n PROVE IsPart(new[i])
  <2>1. IsPart(msgs[i])
    BY <1>1 DEF Answered
  <2>2. PICK a, b : a = new[i] /\ b = msgs[i]
    OBVIOUS
  <2>3. a.role = b.role /\ a.blocks = b.blocks /\ a.calls = b.calls /\ IsPart(b)
    BY <1>3, <2>1, <2>2
  <2>4. IsPart(a)
    BY ONLY <2>3 DEF IsPart, IsAnswer
  <2> QED BY <2>2, <2>4
<1>5. ASSUME NEW i \in 1..n, new[i].role = "assistant"
      PROVE  HasResults(new, i)
  <2>1. msgs[i].role = "assistant" /\ new[i].calls = msgs[i].calls
    BY <1>3, <1>5
  <2>2. PICK p \in Orders(Len(msgs[i].calls)) : \A k \in 1..Len(msgs[i].calls) : ResultAt(msgs, i, k, p[k])
    BY <1>1, <2>1 DEF Answered, HasResults
  <2>3. ASSUME NEW k \in 1..Len(msgs[i].calls) PROVE ResultAt(new, i, k, p[k])
    <3>1. PICK c : c = p[k]
      OBVIOUS
    <3>2. /\ i + k \in 1..n /\ msgs[i + k].role = "tool"
          /\ msgs[i + k].results[1].id = msgs[i].calls[c].id
      BY <1>1, <2>2, <3>1 DEF ResultAt
    <3>3. new[i + k].role = "tool" /\ new[i + k].results[1].id = msgs[i + k].results[1].id
      BY <1>3, <3>2
    <3> QED BY <1>2, <2>1, <3>1, <3>2, <3>3 DEF ResultAt
  <2> QED BY <2>1, <2>2, <2>3 DEF HasResults
<1>6. ASSUME NEW i \in 1..n, new[i].role = "tool"
      PROVE  \E j \in 1..i - 1 : Within(new, i, j)
  <2>1. PICK j \in 1..i - 1 : Within(msgs, i, j)
    BY <1>1, <1>3, <1>6 DEF Answered
  <2>2. j \in 1..n
    BY <1>1
  <2> QED BY <1>3, <2>1, <2>2 DEF Within
<1> QED BY <1>2, <1>4, <1>5, <1>6 DEF Answered

\* The name that an id has when its result is reached is that of its own call.
LEMMA NameIs ==
    ASSUME NEW msgs, Answered(msgs), Len(msgs) \in Nat,
           NEW i \in 1..Len(msgs), msgs[i].role = "assistant", NEW k \in 1..Len(msgs[i].calls),
           NEW h \in 1..Len(msgs[i].calls)
    PROVE  NamedCall(msgs, i + k, msgs[i].calls[h].id).name = msgs[i].calls[h].name
<1>1. PICK m, id, c, n : /\ m = msgs[i] /\ id = m.calls[h].id /\ c = Len(m.calls) /\ n = i + k
  OBVIOUS
<1>2. IsAnswer(m) /\ c \in Nat /\ DOMAIN m.calls = 1..c /\ k \in 1..c /\ h \in 1..c /\ n \in Nat /\ i \in 1..n
  <2>1. IsAnswer(m)
    BY <1>1 DEF Answered, IsPart
  <2>2. c \in Nat /\ DOMAIN m.calls = 1..c
    BY <1>1, <2>1 DEF IsAnswer
  <2> QED BY <1>1, <2>1, <2>2
<1> DEFINE I == {j \in 1..n : CallsFor(msgs[j], id) # {}}
<1>3. h \in CallsFor(m, id)
  BY <1>1, <1>2 DEF CallsFor
<1>4. i \in I
  BY <1>1, <1>2, <1>3
<1>5. ASSUME NEW j \in I PROVE j <= i
  <2> SUFFICES ASSUME j > i PROVE FALSE
    BY <1>2
  <2>1. j \in 1..n /\ CallsFor(msgs[j], id) # {}
    OBVIOUS
  <2>2. j - i \in 1..k /\ i + (j - i) = j
    BY <1>1, <1>2, <2>1
  <2>3. j - i \in 1..c
    BY <1>2, <2>2
  <2>4. PICK d \in 1..Len(msgs[i].calls) : d = j - i
    BY <1>1, <2>3
  <2>5. j \in 1..Len(msgs) /\ msgs[j].role = "tool"
    <3>1. i + d \in 1..Len(msgs) /\ msgs[i + d].role = "tool"
      BY ResultBehind
    <3> QED BY <2>2, <2>4, <3>1
  <2>6. DOMAIN msgs[j].calls = {}
    BY <2>5 DEF Answered, IsPart
  <2> QED BY <2>1, <2>6 DEF CallsFor
<1>6. Max(I) \in I /\ \A y \in I : y <= Max(I)
  <2>1. I # {}
    BY <1>4
  <2>2. I \subseteq 0..n
    BY <1>2
  <2> HIDE DEF I
  <2> QED BY <1>2, <2>1, <2>2, MaxIs
<1>7. Max(I) = i
  <2>1. I \subseteq Nat
    OBVIOUS
  <2> HIDE DEF I
  <2>2. PICK x : x = Max(I)
    OBVIOUS
  <2>3. x \in I /\ \A y \in I : y <= x
    BY ONLY <1>6, <2>2
  <2>4. x <= i
    BY <1>5, <2>3
  <2>5. i <= x
    BY <1>4, <2>3
  <2>6. x \in Nat /\ i \in Nat
    BY <1>2, <2>1, <2>3
  <2> QED BY <2>2, <2>4, <2>5, <2>6
<1>8. PICK J : J = CallsFor(m, id)
  OBVIOUS
<1>9. J \subseteq 0..c /\ J # {} /\ \A x \in J : x \in 1..c /\ m.calls[x].id = id
  BY <1>2, <1>3, <1>8 DEF CallsFor
<1>10. Max(J) \in J
  BY <1>2, <1>9, MaxIs
<1>11. m.calls[Max(J)].name = m.calls[h].name
  BY <1>1, <1>2, <1>9, <1>10 DEF IsAnswer
<1>12. NamedCall(msgs, n, id) = m.calls[Max(J)]
  BY <1>1, <1>7, <1>8 DEF NamedCall
<1> QED BY <1>1, <1>11, <1>12

\* ollamaMessages writes each message as one: results bear their tool's name.
OllamaPart(msgs, i) ==
    IF msgs[i].role = "tool"
      THEN [k \in DOMAIN msgs[i].results |->
              [role |-> "tool", name |-> NamedCall(msgs, i, msgs[i].results[k].id).name]]
      ELSE <<[role |-> msgs[i].role, calls |-> [k \in DOMAIN msgs[i].calls |-> msgs[i].calls[k].name]]>>

LEMMA OllamaPartIs ==
    ASSUME NEW msgs, NEW i, IsMsg(msgs[i])
    PROVE  LET p == OllamaPart(msgs, i)
               m == msgs[i]
           IN /\ Listed(p) /\ Len(p) = 1
              /\ m.role = "tool" =>
                   p[1] = [role |-> "tool", name |-> NamedCall(msgs, i, m.results[1].id).name]
              /\ m.role # "tool" =>
                   p[1] = [role |-> m.role, calls |-> [k \in DOMAIN m.calls |-> m.calls[k].name]]
<1>1. PICK p, m : p = OllamaPart(msgs, i) /\ m = msgs[i]
  OBVIOUS
<1>2. CASE m.role = "tool"
  <2>1. DOMAIN m.results = 1..1
    BY <1>1, <1>2 DEF IsMsg, Listed
  <2>2. p = [k \in DOMAIN m.results |->
               [role |-> "tool", name |-> NamedCall(msgs, i, m.results[k].id).name]]
    BY <1>1, <1>2 DEF OllamaPart
  <2>3. /\ DOMAIN p = 1..1 /\ p = [k \in DOMAIN p |-> p[k]]
        /\ p[1] = [role |-> "tool", name |-> NamedCall(msgs, i, m.results[1].id).name]
    BY <2>1, <2>2
  <2>4. PICK x : x = [role |-> "tool", name |-> NamedCall(msgs, i, m.results[1].id).name]
    OBVIOUS
  <2>5. Listed(p) /\ Len(p) = 1
    BY <2>3, <2>4, OnlyOne
  <2> QED BY <1>1, <1>2, <2>3, <2>5
<1>3. CASE m.role # "tool"
  <2>1. PICK x : x = [role |-> m.role, calls |-> [k \in DOMAIN m.calls |-> m.calls[k].name]]
    OBVIOUS
  <2>2. p = <<x>>
    BY <1>1, <1>3, <2>1 DEF OllamaPart
  <2>3. Listed(p) /\ Len(p) = 1 /\ p[1] = x
    BY <2>2, SingleIs
  <2> QED BY <1>1, <1>3, <2>1, <2>3
<1> QED BY <1>2, <1>3

LEMMA OllamaIs ==
    ASSUME NEW msgs, Conversation(msgs), NEW body, body = OllamaMessages(msgs)
    PROVE  /\ Listed(body) /\ Len(body) = Len(msgs)
           /\ \A i \in 1..Len(msgs) :
                /\ msgs[i].role = "tool" =>
                     body[i] = [role |-> "tool", name |-> NamedCall(msgs, i, msgs[i].results[1].id).name]
                /\ msgs[i].role # "tool" =>
                     body[i] = [role |-> msgs[i].role,
                                calls |-> [k \in DOMAIN msgs[i].calls |-> msgs[i].calls[k].name]]
<1>1. PICK q, n : q = [i \in DOMAIN msgs |-> OllamaPart(msgs, i)] /\ n = Len(msgs)
  OBVIOUS
<1>2. body = FlattenSeq(q)
  BY <1>1 DEF OllamaMessages, OllamaPart, Map
<1>3. n \in Nat /\ DOMAIN msgs = 1..n /\ \A i \in 1..n : IsMsg(msgs[i])
  BY <1>1 DEF Conversation, Listed
<1>4. q = [i \in 1..n |-> q[i]] /\ \A i \in 1..n : q[i] = OllamaPart(msgs, i)
  BY <1>1, <1>3
<1>5. Listed(q) /\ Len(q) = n
  BY <1>3, <1>4, LenIs
<1>6. \A i \in 1..n :
        /\ Listed(q[i]) /\ Len(q[i]) = 1
        /\ msgs[i].role = "tool" =>
             q[i][1] = [role |-> "tool", name |-> NamedCall(msgs, i, msgs[i].results[1].id).name]
        /\ msgs[i].role # "tool" =>
             q[i][1] = [role |-> msgs[i].role,
                        calls |-> [k \in DOMAIN msgs[i].calls |-> msgs[i].calls[k].name]]
  <2> SUFFICES ASSUME NEW i \in 1..n
               PROVE  /\ Listed(q[i]) /\ Len(q[i]) = 1
                      /\ msgs[i].role = "tool" =>
                           q[i][1] = [role |-> "tool", name |-> NamedCall(msgs, i, msgs[i].results[1].id).name]
                      /\ msgs[i].role # "tool" =>
                           q[i][1] = [role |-> msgs[i].role,
                                      calls |-> [k \in DOMAIN msgs[i].calls |-> msgs[i].calls[k].name]]
    OBVIOUS
  <2>1. IsMsg(msgs[i]) /\ q[i] = OllamaPart(msgs, i)
    BY <1>3, <1>4
  <2>2. /\ Listed(OllamaPart(msgs, i)) /\ Len(OllamaPart(msgs, i)) = 1
        /\ msgs[i].role = "tool" =>
             OllamaPart(msgs, i)[1] = [role |-> "tool", name |-> NamedCall(msgs, i, msgs[i].results[1].id).name]
        /\ msgs[i].role # "tool" =>
             OllamaPart(msgs, i)[1] = [role |-> msgs[i].role,
                                       calls |-> [k \in DOMAIN msgs[i].calls |-> msgs[i].calls[k].name]]
    BY ONLY <2>1, OllamaPartIs
  <2> QED BY ONLY <2>1, <2>2
<1>7. Lists(q) /\ \A i \in 1..Len(q) : Len(q[i]) = 1
  BY <1>5, <1>6 DEF Lists
<1>8. /\ Listed(FlattenSeq(q)) /\ Len(FlattenSeq(q)) = Len(q)
      /\ \A i \in 1..Len(q) : FlattenSeq(q)[i] = q[i][1]
  BY ONLY <1>7, FlattenSingles
<1>9. Listed(body) /\ Len(body) = n /\ \A i \in 1..n : body[i] = q[i][1]
  BY ONLY <1>2, <1>5, <1>8
<1>10. n = Len(msgs)
  BY <1>1
<1> QED BY ONLY <1>6, <1>9, <1>10

LEMMA OllamaFollows ==
    ASSUME NEW msgs, Conversation(msgs), Answered(msgs), NEW body, body = OllamaMessages(msgs),
           sent.msgs = msgs
    PROVE  Follow(body, LAMBDA m : m.name)
<1>1. PICK n : n = Len(msgs) /\ n \in Nat
  BY DEF Conversation, Listed
<1>2. /\ Listed(body) /\ Len(body) = n /\ DOMAIN body = 1..n
      /\ \A i \in 1..n :
           /\ msgs[i].role = "tool" =>
                body[i] = [role |-> "tool", name |-> NamedCall(msgs, i, msgs[i].results[1].id).name]
           /\ msgs[i].role # "tool" =>
                body[i] = [role |-> msgs[i].role,
                           calls |-> [k \in DOMAIN msgs[i].calls |-> msgs[i].calls[k].name]]
  BY <1>1, OllamaIs DEF Listed
<1>3. \A i \in 1..n : body[i].role = msgs[i].role
  BY <1>2
<1>4. ASSUME NEW i \in 1..n, msgs[i].role = "assistant"
      PROVE  /\ body[i].calls = [k \in 1..Len(msgs[i].calls) |-> msgs[i].calls[k].name]
             /\ Len(body[i].calls) = Len(msgs[i].calls)
  <2>1. PICK c, l : c = body[i].calls /\ l = Len(msgs[i].calls)
    OBVIOUS
  <2>2. l \in Nat /\ DOMAIN msgs[i].calls = 1..l
    BY <1>1, <1>4, <2>1, ReachOf
  <2>3. c = [k \in 1..l |-> msgs[i].calls[k].name]
    BY <1>2, <1>4, <2>1, <2>2
  <2>4. c = [k \in 1..l |-> c[k]]
    BY <2>3
  <2>5. Len(c) = l
    BY <2>2, <2>4, LenIs
  <2> QED BY <2>1, <2>3, <2>5
<1>5. ASSUME NEW i \in DOMAIN body, body[i].role = "assistant"
      PROVE  \E p \in Orders(Len(body[i].calls)) : \A k \in DOMAIN body[i].calls :
               /\ i + k \in DOMAIN body /\ body[i + k].role = "tool"
               /\ sent.msgs[i + k].results[1].id = sent.msgs[i].calls[p[k]].id
               /\ body[i + k].name = body[i].calls[p[k]]
  <2>1. PICK l : l = Len(msgs[i].calls)
    OBVIOUS
  <2>2. i \in 1..Len(msgs) /\ msgs[i].role = "assistant" /\ Len(msgs) \in Nat
    BY <1>1, <1>2, <1>3, <1>5
  <2>3. /\ body[i].calls = [k \in 1..l |-> msgs[i].calls[k].name]
        /\ DOMAIN body[i].calls = 1..l /\ Len(body[i].calls) = l
    BY <1>1, <1>4, <2>1, <2>2
  <2>4. PICK p \in Orders(l) : \A k \in 1..l : ResultAt(msgs, i, k, p[k])
    BY <2>1, <2>2 DEF Answered, HasResults
  <2>5. ASSUME NEW k \in 1..l
        PROVE  /\ i + k \in 1..n /\ body[i + k].role = "tool"
               /\ sent.msgs[i + k].results[1].id = sent.msgs[i].calls[p[k]].id
               /\ body[i + k].name = body[i].calls[p[k]]
    <3>1. PICK c \in 1..l : c = p[k]
      BY OrderIs
    <3>2. /\ i + k \in 1..n /\ msgs[i + k].role = "tool"
          /\ msgs[i + k].results[1].id = msgs[i].calls[c].id
      BY <1>1, <2>4, <3>1 DEF ResultAt
    <3>3. body[i + k].name = msgs[i].calls[c].name
      <4>1. body[i + k].name = NamedCall(msgs, i + k, msgs[i].calls[c].id).name
        BY <1>2, <3>2
      <4>2. NamedCall(msgs, i + k, msgs[i].calls[c].id).name = msgs[i].calls[c].name
        BY <2>1, <2>2, NameIs
      <4> QED BY ONLY <4>1, <4>2
    <3>4. body[i].calls[c] = msgs[i].calls[c].name
      BY <2>3
    <3>5. sent.msgs = msgs
      OBVIOUS
    <3> QED BY <1>3, <3>1, <3>2, <3>3, <3>4, <3>5
  <2>6. p \in Orders(Len(body[i].calls)) /\ DOMAIN body = 1..n
    BY <1>2, <2>3
  <2> QED BY ONLY <2>3, <2>5, <2>6
<1>6. ASSUME NEW i \in DOMAIN body, body[i].role = "tool"
      PROVE  \E j \in 1..i - 1 : body[j].role = "assistant" /\ i <= j + Len(body[j].calls)
  <2>0. i \in 1..n /\ n = Len(msgs) /\ msgs[i].role = "tool"
    <3>1. i \in 1..n
      BY <1>2
    <3> QED BY <1>1, <1>3, <1>6, <3>1
  <2>1. PICK j \in 1..i - 1 : Within(msgs, i, j)
    BY <2>0 DEF Answered
  <2>2. j \in 1..n /\ msgs[j].role = "assistant"
    BY <1>1, <2>0, <2>1 DEF Within
  <2> QED BY <1>3, <1>4, <2>1, <2>2 DEF Within
<1> QED BY ONLY <1>5, <1>6 DEF Follow

-----------------------------------------------------------------------------
(* The conversation is one of answers with their results, and what is sent  *)
(* is written from it.                                                      *)

BodyIs ==
    /\ sent.provider = "openai" => sent.body = OpenAIMessages(prompt) /\ sent.msgs = prompt
    /\ sent.provider = "ollama" =>
         sent.body = OllamaMessages(FitToWindow(prompt, ContextWindow(window)))
    /\ sent.provider = "anthropic" => sent.body = AnthropicMessages(prompt)
FollowInv == PromptInv /\ Answered(prompt) /\ BodyIs

LEMMA BodyFollows == ASSUME PromptAssumption, FollowInv PROVE ResultsFollowCalls
<1>1. Conversation(prompt) /\ Answered(prompt) /\ window \in Windows
  BY DEF FollowInv, PromptInv, PromptTypes
<1>2. ASSUME sent.provider = "openai" PROVE Follow(sent.body, LAMBDA m : m.id)
  <2>1. PICK body : body = OpenAIMessages(prompt)
    OBVIOUS
  <2>2. sent.body = body /\ sent.msgs = prompt
    BY <1>2, <2>1 DEF FollowInv, BodyIs
  <2>3. Follow(body, LAMBDA m : m.id)
    BY <1>1, <2>1, <2>2, OpenAIFollows
  <2> QED BY <2>2, <2>3
<1>3. ASSUME sent.provider = "ollama" PROVE Follow(sent.body, LAMBDA m : m.name)
  <2>1. PICK w, new : w = ContextWindow(window) /\ new = FitToWindow(prompt, w)
    OBVIOUS
  <2>2. w \in Nat
    BY <1>1, <2>1, WindowIs
  <2>3. SameButTexts(new, prompt)
    BY <1>1, <2>1, <2>2, FitToWindowIs
  <2>4. Conversation(new) /\ Answered(new)
    BY <1>1, <2>3, FittedIsAnswered DEF SameButTexts
  <2>5. PICK body : body = OllamaMessages(new)
    OBVIOUS
  <2>6. sent.body = body /\ sent.msgs = new
    BY <1>3, <2>1, <2>5 DEF FollowInv, BodyIs, PromptInv, SentIs
  <2>7. Follow(body, LAMBDA m : m.name)
    BY <2>4, <2>5, <2>6, OllamaFollows
  <2> QED BY <2>6, <2>7
<1>4. ASSUME sent.provider = "anthropic" PROVE Alternate(sent.body)
  <2>1. Alternate(AnthropicMessages(prompt))
    BY <1>1, AnthropicAlternates
  <2> QED BY <1>4, <2>1 DEF FollowInv, BodyIs
<1> QED BY <1>2, <1>3, <1>4 DEF ResultsFollowCalls

\* What is added leaves the answers before it with their results.
LEMMA StillAnswered ==
    ASSUME NEW msgs, Listed(msgs), Answered(msgs), NEW new, Listed(new), Len(new) >= Len(msgs),
           \A i \in 1..Len(msgs) : new[i] = msgs[i],
           \A i \in Len(msgs) + 1..Len(new) :
             /\ IsPart(new[i])
             /\ new[i].role = "assistant" => HasResults(new, i)
             /\ new[i].role = "tool" => \E j \in 1..i - 1 : Within(new, i, j)
    PROVE  Answered(new)
<1>1. Len(msgs) \in Nat /\ Len(new) \in Nat
  BY DEF Listed
<1>2. ASSUME NEW i \in 1..Len(new)
      PROVE  /\ IsPart(new[i])
             /\ new[i].role = "assistant" => HasResults(new, i)
             /\ new[i].role = "tool" => \E j \in 1..i - 1 : Within(new, i, j)
  <2>1. CASE i \in 1..Len(msgs)
    <3>1. new[i] = msgs[i] /\ IsPart(new[i])
      BY <2>1 DEF Answered
    <3>2. ASSUME new[i].role = "assistant" PROVE HasResults(new, i)
      <4>1. PICK p \in Orders(Len(msgs[i].calls)) :
              \A k \in 1..Len(msgs[i].calls) : ResultAt(msgs, i, k, p[k])
        BY <2>1, <3>1, <3>2 DEF Answered, HasResults
      <4>2. ASSUME NEW k \in 1..Len(msgs[i].calls) PROVE ResultAt(new, i, k, p[k])
        <5>1. ResultAt(msgs, i, k, p[k])
          BY <4>1
        <5> QED BY <1>1, <3>1, <5>1 DEF ResultAt
      <4> QED BY <3>1, <4>1, <4>2 DEF HasResults
    <3>3. ASSUME new[i].role = "tool" PROVE \E j \in 1..i - 1 : Within(new, i, j)
      <4>1. PICK j \in 1..i - 1 : Within(msgs, i, j)
        BY <2>1, <3>1, <3>3 DEF Answered
      <4>2. j \in 1..Len(msgs)
        BY <1>1, <2>1
      <4> QED BY <4>1, <4>2 DEF Within
    <3> QED BY <3>1, <3>2, <3>3
  <2>2. CASE i \in Len(msgs) + 1..Len(new)
    BY <2>2
  <2> QED BY <1>1, <2>1, <2>2
<1> QED BY <1>2 DEF Answered

LEMMA SaidIsAnswered ==
    ASSUME NEW msgs, Conversation(msgs), Answered(msgs), NEW m, IsPart(m), m.role \in {"user", "system"}
    PROVE  Answered(Append(msgs, m))
<1>1. PICK new : new = Append(msgs, m)
  OBVIOUS
<1>2. Listed(msgs) /\ Len(msgs) \in Nat
  BY DEF Conversation, Listed
<1>3. /\ Listed(new) /\ Len(new) = Len(msgs) + 1
      /\ \A i \in 1..Len(msgs) : new[i] = msgs[i]
      /\ new[Len(msgs) + 1] = m
  BY <1>1, <1>2, AppendedIs
<1>4. Len(new) >= Len(msgs)
  BY <1>2, <1>3
<1>5. \A i \in Len(msgs) + 1..Len(new) :
        /\ IsPart(new[i])
        /\ new[i].role = "assistant" => HasResults(new, i)
        /\ new[i].role = "tool" => \E j \in 1..i - 1 : Within(new, i, j)
  <2> SUFFICES ASSUME NEW i \in Len(msgs) + 1..Len(new)
               PROVE  IsPart(new[i]) /\ new[i].role # "assistant" /\ new[i].role # "tool"
    OBVIOUS
  <2>1. i = Len(msgs) + 1
    BY <1>2, <1>3
  <2> QED BY <1>3, <2>1
<1>6. Answered(new)
  BY ONLY <1>2, <1>3, <1>4, <1>5, StillAnswered, Answered(msgs)
<1> QED BY <1>1, <1>6

LEMMA SaidIsPart ==
    ASSUME NEW n \in Nat, NEW role \in {"user", "system"}
    PROVE  IsPart(Msg(role, <<TextBlock(n)>>, <<>>, <<>>)) /\ Msg(role, <<TextBlock(n)>>, <<>>, <<>>).role = role
<1>1. TextBlock(n) \in Thoughts
  BY DEF TextBlock, Thoughts
<1>2. <<TextBlock(n)>> \in Seq(Thoughts)
  BY <1>1
<1>3. DOMAIN <<>> = {}
  OBVIOUS
<1> QED BY <1>2, <1>3 DEF Msg, IsPart

\* The results of a turn's calls in an order in which they may land.
Lands(more, t, outs, order) ==
    /\ order \in Orders(Len(t.calls))
    /\ more = [k \in DOMAIN t.calls |-> Result(t.calls[order[k]], outs[order[k]])]

\* An answer comes with a result for each of its calls, as they landed.
LEMMA AnswerIsAnswered ==
    ASSUME PromptAssumption, NEW msgs, Conversation(msgs), Answered(msgs),
           NEW t \in Turns, NEW outs \in [DOMAIN t.calls -> Outputs],
           NEW order, NEW said, said = Msg("assistant", t.blocks, t.calls, <<>>),
           NEW more, Lands(more, t, outs, order)
    PROVE  Answered(Append(msgs, said) \o more)
<1>1. PICK l, c, a, new : /\ l = Len(msgs) /\ c = Len(t.calls) /\ a = Append(msgs, said) /\ new = a \o more
  OBVIOUS
<1>2. Listed(msgs) /\ l \in Nat
  BY <1>1 DEF Conversation, Listed
<1>3. IsAnswer(said) /\ c \in Nat /\ DOMAIN t.calls = 1..c
  <2>1. said.blocks = t.blocks /\ said.calls = t.calls
    BY DEF Msg
  <2>2. t.blocks \in Seq(Thoughts)
    BY DEF PromptAssumption, Thoughts
  <2>3. c \in Nat /\ DOMAIN t.calls = 1..c
    BY <1>1 DEF PromptAssumption
  <2>4. \A i, j \in 1..c :
          /\ t.calls[i].at \in Nat
          /\ i <= j => t.calls[i].at <= t.calls[j].at
          /\ t.calls[i].id = t.calls[j].id => i = j
    BY <2>3 DEF PromptAssumption
  <2>5. PICK b, d : b = said.blocks /\ d = said.calls
    OBVIOUS
  <2>6. b = t.blocks /\ d = t.calls
    BY <2>1, <2>5
  <2>7. b \in Seq(Thoughts) /\ Len(d) = c /\ DOMAIN d = 1..c
    BY <1>1, <2>2, <2>3, <2>6
  <2>8. \A i, j \in 1..c :
          /\ d[i].at \in Nat
          /\ i <= j => d[i].at <= d[j].at
          /\ d[i].id = d[j].id => i = j
    BY ONLY <2>4, <2>6
  <2>9. IsAnswer(said)
    BY ONLY <2>3, <2>5, <2>7, <2>8 DEF IsAnswer
  <2> QED BY <2>3, <2>9
<1>4. /\ Listed(more) /\ Len(more) = c
      /\ \A k \in 1..c : /\ more[k].role = "tool" /\ DOMAIN more[k].calls = {}
                         /\ more[k].results[1].id = t.calls[order[k]].id
  <2>1. ASSUME NEW k \in 1..c
        PROVE  /\ more[k].role = "tool" /\ DOMAIN more[k].calls = {}
               /\ more[k].results[1].id = t.calls[order[k]].id
    <3>0. PICK h : h = order[k]
      OBVIOUS
    <3>1. PICK r : r = [id |-> t.calls[h].id, texts |-> CapBlocks(outs[h])]
      OBVIOUS
    <3>2. PICK z : z = <<r>>
      OBVIOUS
    <3>3. more[k] = Msg("tool", <<>>, <<>>, z)
      BY <1>3, <3>0, <3>1, <3>2 DEF Result, Lands
    <3>4. more[k].role = "tool" /\ more[k].calls = <<>> /\ more[k].results = z
      BY <3>3 DEF Msg
    <3>5. z[1] = r /\ r.id = t.calls[h].id /\ DOMAIN <<>> = {}
      BY <3>1, <3>2
    <3> QED BY ONLY <3>0, <3>4, <3>5
  <2>2. more = [k \in 1..c |-> more[k]]
    BY <1>3 DEF Lands
  <2>3. Listed(more) /\ Len(more) = c
    BY <1>3, <2>2, LenIs
  <2> QED BY <2>1, <2>3
<1>5. /\ Listed(a) /\ Len(a) = l + 1 /\ (\A i \in 1..l : a[i] = msgs[i]) /\ a[l + 1] = said
  BY <1>1, <1>2, AppendedIs
<1>6. /\ Listed(new) /\ Len(new) = (l + 1) + c
      /\ \A i \in 1..l + 1 : new[i] = a[i]
      /\ \A k \in 1..c : new[(l + 1) + k] = more[k]
  <2>1. Listed(a) /\ Listed(more)
    BY <1>4, <1>5
  <2>2. /\ Listed(a \o more) /\ Len(a \o more) = Len(a) + Len(more)
        /\ \A i \in 1..Len(a) : (a \o more)[i] = a[i]
        /\ \A i \in 1..Len(more) : (a \o more)[Len(a) + i] = more[i]
    BY ONLY <2>1, ConcatIs
  <2>3. new = a \o more /\ Len(a) = l + 1 /\ Len(more) = c
    BY <1>1, <1>4, <1>5
  <2> QED BY ONLY <2>2, <2>3
<1>7. Len(new) >= Len(msgs) /\ \A i \in 1..Len(msgs) : new[i] = msgs[i]
  BY <1>1, <1>2, <1>3, <1>5, <1>6
<1>8. new[l + 1] = said /\ said.role = "assistant" /\ said.calls = t.calls
  BY <1>2, <1>5, <1>6 DEF Msg
<1>9. IsPart(new[l + 1]) /\ HasResults(new, l + 1)
  <2>1. IsPart(said)
    BY <1>3, <1>8 DEF IsPart
  <2>2. ASSUME NEW k \in 1..c PROVE ResultAt(new, l + 1, k, order[k])
    <3>1. new[(l + 1) + k] = more[k] /\ (l + 1) + k \in 1..Len(new)
      <4>1. new[(l + 1) + k] = more[k] /\ Len(new) = (l + 1) + c
        BY <1>6
      <4>2. l \in Nat /\ c \in Nat /\ k \in 1..c
        BY <1>2, <1>3
      <4>3. (l + 1) + k \in 1..(l + 1) + c
        BY ONLY <4>2
      <4> QED BY <4>1, <4>2, <4>3
    <3>2. new[(l + 1) + k].role = "tool" /\ new[(l + 1) + k].results[1].id = t.calls[order[k]].id
      <4>1. more[k].role = "tool" /\ more[k].results[1].id = t.calls[order[k]].id
        BY <1>4
      <4>2. new[(l + 1) + k] = more[k]
        BY <3>1
      <4> QED BY ONLY <4>1, <4>2
    <3>3. new[l + 1].calls = t.calls
      BY <1>8
    <3> QED BY ONLY <3>1, <3>2, <3>3 DEF ResultAt
  <2>3. order \in Orders(c)
    BY <1>1 DEF Lands
  <2> QED BY <1>1, <1>8, <2>1, <2>2, <2>3 DEF HasResults
<1>10. ASSUME NEW k \in 1..c
       PROVE  /\ IsPart(new[(l + 1) + k]) /\ new[(l + 1) + k].role = "tool"
              /\ Within(new, (l + 1) + k, l + 1) /\ l + 1 \in 1..((l + 1) + k) - 1
  <2>1. new[(l + 1) + k] = more[k]
    BY <1>6
  <2>2. IsPart(more[k])
    BY <1>4 DEF IsPart
  <2>3. Within(new, (l + 1) + k, l + 1)
    BY <1>1, <1>2, <1>3, <1>8 DEF Within
  <2>4. IsPart(new[(l + 1) + k]) /\ new[(l + 1) + k].role = "tool"
    <3>1. more[k].role = "tool"
      BY <1>4
    <3> QED BY ONLY <2>1, <2>2, <3>1
  <2>5. l + 1 \in 1..((l + 1) + k) - 1
    BY <1>2, <1>3
  <2> QED BY ONLY <2>3, <2>4, <2>5
<1>11. \A i \in Len(msgs) + 1..Len(new) :
        /\ IsPart(new[i])
        /\ new[i].role = "assistant" => HasResults(new, i)
        /\ new[i].role = "tool" => \E j \in 1..i - 1 : Within(new, i, j)
  <2> SUFFICES ASSUME NEW i \in Len(msgs) + 1..Len(new)
               PROVE  /\ IsPart(new[i])
                      /\ new[i].role = "assistant" => HasResults(new, i)
                      /\ new[i].role = "tool" => \E j \in 1..i - 1 : Within(new, i, j)
    OBVIOUS
  <2>1. CASE i = l + 1
    BY <1>8, <1>9, <2>1
  <2>2. CASE i # l + 1
    <3>0. l \in Nat /\ c \in Nat /\ i \in l + 1..(l + 1) + c
      <4>1. l = Len(msgs) /\ Len(new) = (l + 1) + c /\ i \in Len(msgs) + 1..Len(new)
        BY <1>1, <1>6
      <4> QED BY ONLY <1>2, <1>3, <4>1
    <3>1. i - (l + 1) \in 1..c /\ (l + 1) + (i - (l + 1)) = i
      BY ONLY <2>2, <3>0
    <3>2. PICK k \in 1..c : (l + 1) + k = i
      BY <3>1
    <3>3. /\ IsPart(new[i]) /\ new[i].role = "tool" /\ Within(new, i, l + 1) /\ l + 1 \in 1..i - 1
      BY <1>10, <3>2
    <3> QED BY <3>3
  <2> QED BY <2>1, <2>2
<1>12. Answered(new)
  BY ONLY <1>2, <1>6, <1>7, <1>11, StillAnswered, Answered(msgs)
<1> QED BY <1>1, <1>12

LEMMA FollowInit == ASSUME PromptAssumption, PromptInit PROVE FollowInv
<1>1. Len(<<>>) = 0
  BY NoneIs
<1>2. Answered(<<>>)
  BY <1>1 DEF Answered
<1> QED BY <1>2, InitPrompt DEF PromptInit, FollowInv, BodyIs, Nothing

LEMMA NextFollows ==
    ASSUME PromptInv', Answered(prompt'), sent' = Nothing
    PROVE  FollowInv'
BY DEF FollowInv, BodyIs, Nothing

LEMMA FollowStep == ASSUME PromptAssumption, FollowInv, [PromptNext]_promptvars PROVE FollowInv'
<1>c. Conversation(prompt) /\ Answered(prompt) /\ Says \subseteq Nat
  BY DEF FollowInv, PromptInv, PromptTypes, PromptAssumption
<1>i. PromptInv'
  BY PromptStep DEF FollowInv
<1>1. ASSUME NEW n \in Says, Say(n) PROVE FollowInv'
  <2>1. PICK m : m = Msg("user", <<TextBlock(n)>>, <<>>, <<>>)
    OBVIOUS
  <2>2. IsPart(m) /\ m.role = "user"
    BY <1>c, <2>1, SaidIsPart
  <2>3. Answered(Append(prompt, m))
    BY <1>c, <2>2, SaidIsAnswered
  <2> QED BY <1>1, <1>i, <2>1, <2>3, NextFollows DEF Say
<1>2. ASSUME Note PROVE FollowInv'
  <2>1. PICK m : m = Msg("system", <<TextBlock(1)>>, <<>>, <<>>)
    OBVIOUS
  <2>2. IsPart(m) /\ m.role = "system"
    BY <2>1, SaidIsPart
  <2>3. Answered(Append(prompt, m))
    BY <1>c, <2>2, SaidIsAnswered
  <2> QED BY <1>2, <1>i, <2>1, <2>3, NextFollows DEF Note
<1>3. ASSUME NEW t \in Turns, NEW outs \in [DOMAIN t.calls -> Outputs],
             NEW order \in Orders(Len(t.calls)), Answer(t, outs, order)
      PROVE  FollowInv'
  <2>1. PICK said, more :
          /\ said = Msg("assistant", t.blocks, t.calls, <<>>)
          /\ more = [k \in DOMAIN t.calls |-> Result(t.calls[order[k]], outs[order[k]])]
    OBVIOUS
  <2>2. Answered(Append(prompt, said) \o more)
    <3>1. PICK msgs : msgs = prompt
      OBVIOUS
    <3>2. Conversation(msgs) /\ Answered(msgs) /\ Lands(more, t, outs, order)
      BY <1>c, <2>1, <3>1 DEF Lands
    <3>3. Answered(Append(msgs, said) \o more)
      BY <2>1, <3>2, AnswerIsAnswered
    <3> QED BY <3>1, <3>3
  <2>3. prompt' = Append(prompt, said) \o more /\ sent' = Nothing
    BY <1>3, <2>1 DEF Answer
  <2> QED BY <1>i, <2>2, <2>3, NextFollows
<1>4. ASSUME NEW p \in {"openai", "ollama", "anthropic"}, SendPrompt(p) PROVE FollowInv'
  <2>1. UNCHANGED <<prompt, window>> /\ sent'.provider = p
    BY <1>4 DEF SendPrompt
  <2>2. /\ p = "openai" => sent'.body = OpenAIMessages(prompt) /\ sent'.msgs = prompt
        /\ p = "ollama" => sent'.body = OllamaMessages(FitToWindow(prompt, ContextWindow(window)))
        /\ p = "anthropic" => sent'.body = AnthropicMessages(prompt)
    BY <1>4 DEF SendPrompt
  <2>3. BodyIs'
    BY <2>1, <2>2 DEF BodyIs
  <2> QED BY <1>c, <1>i, <2>1, <2>3 DEF FollowInv
<1>5. CASE UNCHANGED promptvars
  BY <1>5, <1>i DEF promptvars, FollowInv, BodyIs
<1> QED BY <1>1, <1>2, <1>3, <1>4, <1>5 DEF PromptNext

\* In whatever order the calls landed, every provider gets one result of each
\* right behind the answer and as that of its own call, and Anthropic no two user
\* messages in a row nor an answer out of its order (openaiMessages,
\* ollamaMessages, anthropicMessages).
THEOREM ResultsFollowCallsHolds == PromptSpec => []ResultsFollowCalls
<1>1. PromptInit => FollowInv
  BY PromptAssumption, FollowInit
<1>2. FollowInv /\ [PromptNext]_promptvars => FollowInv'
  BY PromptAssumption, FollowStep
<1>3. FollowInv => ResultsFollowCalls
  BY PromptAssumption, BodyFollows
<1> QED BY <1>1, <1>2, <1>3, PTL DEF PromptSpec
=============================================================================
