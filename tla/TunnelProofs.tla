---------------------------- MODULE TunnelProofs ----------------------------
(***************************************************************************)
(* Proofs about the hub's end of the tunnels, for any number of            *)
(* connections that claim a label and any reports of their clients: the    *)
(* connection that registered last holds the label, and an idle supervisor *)
(* has a session to the process that runs.                                 *)
(***************************************************************************)
EXTENDS Tunnel, TLAPS

-----------------------------------------------------------------------------
(* The label.                                                              *)

\* What NewestHoldsLabel needs to be inductive: the shape of what it reads.
LabelTypes == /\ link \in [Conns -> Links]
              /\ newest \in Conns \cup {Nil}

LabelInv == LabelTypes /\ NewestHoldsLabel

LEMMA InitLabel == Init => LabelInv
BY DEF Init, LabelInv, LabelTypes, NewestHoldsLabel, Links

LEMMA StepLabel == LabelInv /\ [Next]_vars => LabelInv'
<1> SUFFICES ASSUME LabelInv, [Next]_vars PROVE LabelInv'
  OBVIOUS
<1> USE TunnelAssumption DEF LabelInv, LabelTypes, NewestHoldsLabel, Links
<1>1. ASSUME NEW c \in Conns, AcceptHello(c) PROVE LabelInv'
  BY <1>1 DEF AcceptHello
<1>2. ASSUME NEW c \in Conns, Register(c) PROVE LabelInv'
  BY <1>2 DEF Register
<1>3. ASSUME NEW c \in Conns, ReplaceOld(c) PROVE LabelInv'
  BY <1>3 DEF ReplaceOld
<1>4. ASSUME NEW c \in Conns, StopSupervisor(c) PROVE LabelInv'
  BY <1>4 DEF StopSupervisor
\* It is removed by its ID: the newest connection only by its own teardown.
<1>5. ASSUME NEW c \in Conns, RemoveConnection(c) PROVE LabelInv'
  BY <1>5 DEF RemoveConnection
<1>6. ASSUME UNCHANGED <<link, registry, newest>> PROVE LabelInv'
  BY <1>6
<1>7. ASSUME NEW c \in Conns,
             \/ Evict(c) \/ SocketLost(c) \/ SupNext(c)
             \/ \E s \in Reports : OnServerState(c, s)
      PROVE  UNCHANGED <<link, registry, newest>>
  BY <1>7 DEF Evict, SocketLost, OnServerState, SupNext, NextState, CloseSession, Settle,
              Connect, ListTools, connVars
<1>8. CASE UNCHANGED vars
  BY <1>6, <1>8 DEF vars, connVars
<1> QED BY <1>1, <1>2, <1>3, <1>4, <1>5, <1>6, <1>7, <1>8 DEF Next, RunNext

\* However registrations, evictions and teardowns interleave
\* (AddOrReplaceConnection, evict, teardown), the newest connection is the
\* registered one until its own teardown, for any number of connections.
THEOREM NewestHoldsLabelHolds == Spec => []NewestHoldsLabel
<1>1. LabelInv => NewestHoldsLabel
  BY DEF LabelInv
<1> QED BY InitLabel, StepLabel, <1>1, PTL DEF Spec

-----------------------------------------------------------------------------
(* The supervisor.                                                         *)

SupTypes == /\ desired \in [Conns -> States \cup {Nil}]
            /\ want \in [Conns -> States \cup {Nil}]
            /\ reported \in [Conns -> States]
            /\ sup \in [Conns -> SupPCs]
            /\ session \in [Conns -> Nat] /\ tools \in [Conns -> BOOLEAN]
            /\ proc \in [Conns -> Nat]

\* A state that waits is the latest one, and until one waits the supervisor acts
\* on the latest one or winds up.
ActsOnLatest(c) ==
    /\ desired[c] # Nil => desired[c] = reported[c]
    /\ sup[c] \in {"close", "settle", "connect"} /\ desired[c] = Nil =>
         want[c] \in {reported[c], Nil}

\* There is a session while the supervisor lists its tools, waits or retires it,
\* none while one is prepared, and no tools without one.
SessionAtStage(c) ==
    /\ sup[c] \in {"settle", "connect"} => session[c] = 0 /\ want[c] = "running"
    /\ sup[c] = "list" => session[c] # 0
    /\ tools[c] => session[c] # 0
    /\ proc[c] # 0

\* Once opened, a session is of this process until a state waits.
OfThisProcess(c) ==
    sup[c] \in {"list", "next"} /\ desired[c] = Nil /\ session[c] # 0 =>
        session[c] = proc[c] /\ reported[c] = "running"

SupInv == SupTypes /\ \A c \in Conns : ActsOnLatest(c) /\ SessionAtStage(c) /\ OfThisProcess(c)

LEMMA NilAndStates == Nil \notin States /\ \A s \in Reports : StateOf(s) \in States
BY TunnelAssumption DEF StateOf, States

LEMMA InitSup == Init => SupInv
BY DEF Init, SupInv, SupTypes, ActsOnLatest, SessionAtStage, OfThisProcess, States, SupPCs

\* Only a running server gets a session (superviseChannel).
LEMMA AfterwardsWhat ==
    ASSUME NEW w
    PROVE  /\ Afterwards(w) \in {"ended", "settle", "next"}
           /\ Afterwards(w) = "settle" => w = "running"
BY DEF Afterwards

\* superviseChannel() turns to a state: what it held open is to be closed.
LEMMA TurnToKeeps ==
    ASSUME SupInv, NEW c \in Conns, NEW w \in {desired[c], Nil}, TurnTo(c, w),
           sup[c] \in {"next", "settle"},
           UNCHANGED <<reported, session, tools, proc>>,
           \/ desired[c] # Nil /\ w = desired[c] /\ desired' = [desired EXCEPT ![c] = Nil]
           \/ w = Nil /\ desired' = desired
    PROVE  SupInv'
<1> DEFINE next == IF session[c] # 0 THEN "close" ELSE Afterwards(w)
<1>0. /\ Afterwards(w) \in {"ended", "settle", "next"}
      /\ Afterwards(w) = "settle" => w = "running"
  BY AfterwardsWhat
<1> USE NilAndStates DEF SupInv, SupTypes, States, SupPCs
<1>1. next \in SupPCs /\ next \notin {"connect", "list"} /\ (next = "settle" => w = "running")
  BY <1>0
<1>2. want' = [want EXCEPT ![c] = w] /\ sup' = [sup EXCEPT ![c] = next]
  BY DEF TurnTo, Goto
<1>3. next = "close" <=> session[c] # 0
  BY <1>0
<1> HIDE DEF next
<1>4. SupTypes'
  BY <1>1, <1>2
<1>5. ActsOnLatest(c)'
  BY <1>2 DEF ActsOnLatest
<1>6. SessionAtStage(c)' /\ OfThisProcess(c)'
  BY <1>1, <1>2, <1>3 DEF SessionAtStage, OfThisProcess
<1>7. \A d \in Conns \ {c} : (ActsOnLatest(d) /\ SessionAtStage(d) /\ OfThisProcess(d))'
  BY <1>2 DEF ActsOnLatest, SessionAtStage, OfThisProcess
<1> QED BY <1>4, <1>5, <1>6, <1>7

LEMMA StepSup == SupInv /\ [Next]_vars => SupInv'
<1> SUFFICES ASSUME SupInv, [Next]_vars PROVE SupInv'
  OBVIOUS
<1>0. \A c \in Conns : /\ Afterwards(want[c]) \in {"ended", "settle", "next"}
                       /\ Afterwards(want[c]) = "settle" => want[c] = "running"
  BY AfterwardsWhat
<1> USE NilAndStates
        DEF SupInv, SupTypes, ActsOnLatest, SessionAtStage, OfThisProcess, States, SupPCs
<1>1. ASSUME NEW c \in Conns, NEW s \in Reports, OnServerState(c, s) PROVE SupInv'
  <2> DEFINE said == StateOf(s)
  <2>1. said \in States
    OBVIOUS
  <2>2. /\ reported' = [reported EXCEPT ![c] = said]
        /\ desired' = [desired EXCEPT ![c] = said]
        /\ proc' = proc \/ proc' = [proc EXCEPT ![c] = proc[c] + 1]
        /\ sup' = [sup EXCEPT ![c] = IF @ = "off" THEN "next" ELSE @]
        /\ UNCHANGED <<want, session, tools>>
    BY <1>1 DEF OnServerState, SetDesired
  <2> HIDE DEF said
  <2>3. SupTypes'
    <3>1. reported' \in [Conns -> States] /\ desired' \in [Conns -> States \cup {Nil}]
      BY <2>1, <2>2
    <3>2. proc' \in [Conns -> Nat]
      <4>1. proc \in [Conns -> Nat] /\ (proc' = proc \/ proc' = [proc EXCEPT ![c] = proc[c] + 1])
        BY <2>2
      <4> HIDE DEF SupInv, SupTypes
      <4> QED BY <4>1
    <3>3. sup' \in [Conns -> SupPCs]
      BY <2>2
    <3> QED BY <2>2, <3>1, <3>2, <3>3
  <2>4. ActsOnLatest(c)' /\ SessionAtStage(c)' /\ OfThisProcess(c)'
    <3>1. reported'[c] = said /\ desired'[c] = said /\ said # Nil
      BY <2>1, <2>2
    <3>2. sup'[c] = sup[c] \/ sup'[c] = "next"
      BY <2>2
    <3>3. proc'[c] # 0
      <4>1. /\ proc \in [Conns -> Nat] /\ proc[c] # 0
            /\ proc' = proc \/ proc' = [proc EXCEPT ![c] = proc[c] + 1]
        BY <2>2
      <4> HIDE DEF SupInv, SupTypes
      <4> QED BY <4>1
    <3> QED BY <2>2, <3>1, <3>2, <3>3
  <2>5. \A d \in Conns \ {c} : (ActsOnLatest(d) /\ SessionAtStage(d) /\ OfThisProcess(d))'
    BY <2>2
  <2> HIDE DEF SupTypes, ActsOnLatest, SessionAtStage, OfThisProcess
  <2> QED BY <2>3, <2>4, <2>5
<1>2. ASSUME NEW c \in Conns, NextState(c) PROVE SupInv'
  <2>1. PICK w \in {desired[c], Nil} :
          /\ TurnTo(c, w)
          /\ \/ desired[c] # Nil /\ w = desired[c] /\ desired' = [desired EXCEPT ![c] = Nil]
             \/ w = Nil /\ desired' = desired
    BY <1>2 DEF NextState
  <2> HIDE DEF SupInv, SupTypes, ActsOnLatest, SessionAtStage, OfThisProcess
  <2> QED BY <1>2, <2>1, TurnToKeeps DEF NextState, chanVars
<1>3. ASSUME NEW c \in Conns, CloseSession(c) PROVE SupInv'
  <2> DEFINE next == Afterwards(want[c])
  <2>1. next \in {"ended", "settle", "next"} /\ (next = "settle" => want[c] = "running")
    BY <1>0
  <2>2. sup' = [sup EXCEPT ![c] = next]
    BY <1>3 DEF CloseSession, Goto
  <2> HIDE DEF next
  <2> QED BY <1>3, <2>1, <2>2 DEF CloseSession
<1>4. ASSUME NEW c \in Conns, Settle(c) PROVE SupInv'
  <2>1. CASE \E w \in {desired[c], Nil} :
               /\ TurnTo(c, w)
               /\ \/ desired[c] # Nil /\ w = desired[c] /\ desired' = [desired EXCEPT ![c] = Nil]
                  \/ w = Nil /\ desired' = desired
    <3> HIDE DEF SupInv, SupTypes, ActsOnLatest, SessionAtStage, OfThisProcess
    <3> QED BY <1>4, <2>1, TurnToKeeps DEF Settle, chanVars
  <2>2. CASE Goto(c, "connect") /\ UNCHANGED <<want, desired>>
    BY <1>4, <2>2 DEF Settle, Goto, chanVars
  <2> QED BY <1>4, <2>1, <2>2 DEF Settle
<1>5. ASSUME NEW c \in Conns, Connect(c) PROVE SupInv'
  <2>1. CASE sup' = [sup EXCEPT ![c] = "list"] /\ session' = [session EXCEPT ![c] = proc[c]]
    <3>1. UNCHANGED <<desired, want, reported, tools, proc>>
      BY <1>5 DEF Connect
    <3>2. sup[c] = "connect" /\ want[c] = "running"
      BY <1>5 DEF Connect
    <3>3. SupTypes'
      BY <2>1, <3>1
    <3>4. ActsOnLatest(c)' /\ SessionAtStage(c)' /\ OfThisProcess(c)'
      BY <2>1, <3>1, <3>2
    <3>5. \A d \in Conns \ {c} : (ActsOnLatest(d) /\ SessionAtStage(d) /\ OfThisProcess(d))'
      BY <2>1, <3>1
    <3> HIDE DEF SupTypes, ActsOnLatest, SessionAtStage, OfThisProcess
    <3> QED BY <3>3, <3>4, <3>5
  <2>2. CASE sup' = [sup EXCEPT ![c] = "next"] /\ session' = session
    BY <1>5, <2>2 DEF Connect
  <2> QED BY <1>5, <2>1, <2>2 DEF Connect, Goto
<1>6. ASSUME NEW c \in Conns, ListTools(c) PROVE SupInv'
  BY <1>6 DEF ListTools, Goto
<1>7. ASSUME UNCHANGED <<desired, want, reported, sup, session, tools, proc>> PROVE SupInv'
  BY <1>7
<1>8. ASSUME NEW c \in Conns, RunNext(c) \/ Evict(c) \/ SocketLost(c)
      PROVE  UNCHANGED <<desired, want, reported, sup, session, tools, proc>>
  BY <1>8 DEF RunNext, AcceptHello, Register, ReplaceOld, StopSupervisor, RemoveConnection,
              Evict, SocketLost, supVars, chanVars
<1>9. CASE UNCHANGED vars
  BY <1>7, <1>9 DEF vars, supVars, chanVars
<1> QED BY <1>1, <1>2, <1>3, <1>4, <1>5, <1>6, <1>7, <1>8, <1>9 DEF Next, SupNext

\* When the supervisor (superviseChannel, settle, openSession, closeSession) has
\* nothing left to do, its session talks to the process that runs now, and no
\* tools are offered without a session, for any connections and reports.
THEOREM SessionIsOfThisProcessHolds == Spec => []SessionIsOfThisProcess
<1>1. SupInv => SessionIsOfThisProcess
  BY DEF SupInv, SessionAtStage, OfThisProcess, SessionIsOfThisProcess, Idle
<1> QED BY InitSup, StepSup, <1>1, PTL DEF Spec
=============================================================================
