------------------------------- MODULE Tunnel -------------------------------
(***************************************************************************)
(* The hub's end of the client tunnels, hub/internal/tunnel/tunnel.go, with *)
(* the registry of connections, hub/internal/registry/registry.go.         *)
(*                                                                         *)
(* All connections here claim one label and carry one MCP server: labels   *)
(* and servers are independent of each other.  A connection that registers *)
(* evicts the one that holds the label.  The receive loop of a connection  *)
(* hands every state the client reports for its server to a supervisor     *)
(* goroutine, which retires the session of the previous process and opens  *)
(* one to the new process once its state has settled.                      *)
(*                                                                         *)
(* A process is an incarnation number, which the client raises whenever it *)
(* starts the server again.  The MCP messages themselves are left out: an  *)
(* initialize or a tools/list succeeds or fails.                           *)
(***************************************************************************)
EXTENDS Integers, FiniteSets, Sequences

CONSTANTS
    Conns,       \* connections, all with the same label
    Nil,
    Reports,     \* the states a client reports ("": a frame that carries none)
    MaxReports   \* for each connection, bound on the states its client reports

States == {"starting", "running", "exited", "failed"}

ASSUME TunnelAssumption ==
    /\ Nil \notin Conns /\ Nil \notin States
    /\ Reports \subseteq States \cup {""}
    /\ MaxReports \in [Conns -> Nat]

VARIABLES
    link,       \* where run() of a connection is
    live,       \* its context is not cancelled
    registry,   \* Registry.connections
    newest,     \* the connection that registered last (history)
    victim,     \* the connection a registration evicted, until run() deals with it
    evicted,    \* evict() was called and its goroutine has not acted yet
    reports,    \* states reported so far
    proc,       \* the incarnation of the server's process
    reported,   \* the state the client reported last (history)
    state,      \* ServerChannel.state
    session,    \* ServerChannel.session: the incarnation it talks to, 0 is none
    tools,      \* ServerChannel.tools is not empty
    desired,    \* channelOwner.desired
    sup,        \* where the supervisor is
    want        \* the state the supervisor is acting on

connVars == <<link, live, registry, newest, victim, evicted>>
supVars  == <<desired, sup, want>>
chanVars == <<state, session, tools>>
vars == <<connVars, supVars, chanVars, reports, proc, reported>>

Links == {"new", "hello", "registered", "open", "stopping", "gone"}
SupPCs == {"off", "next", "close", "settle", "connect", "list", "ended"}

TypeOK ==
    /\ link \in [Conns -> Links]
    /\ live \in [Conns -> BOOLEAN]
    /\ registry \subseteq Conns
    /\ newest \in Conns \cup {Nil}
    /\ victim \in [Conns -> Conns \cup {Nil}]
    /\ evicted \in [Conns -> BOOLEAN]
    /\ reports \in [Conns -> Nat]
    /\ proc \in [Conns -> Nat]
    /\ reported \in [Conns -> States]
    /\ state \in [Conns -> States]
    /\ session \in [Conns -> Nat]
    /\ tools \in [Conns -> BOOLEAN]
    /\ desired \in [Conns -> States \cup {Nil}]
    /\ sup \in [Conns -> SupPCs]
    /\ want \in [Conns -> States \cup {Nil}]

Init ==
    /\ link = [c \in Conns |-> "new"]
    /\ live = [c \in Conns |-> TRUE]
    /\ registry = {}
    /\ newest = Nil
    /\ victim = [c \in Conns |-> Nil]
    /\ evicted = [c \in Conns |-> FALSE]
    /\ reports = [c \in Conns |-> 0]
    /\ proc = [c \in Conns |-> 1]
    /\ reported = [c \in Conns |-> "starting"]
    /\ state = [c \in Conns |-> "starting"]
    /\ session = [c \in Conns |-> 0]
    /\ tools = [c \in Conns |-> FALSE]
    /\ desired = [c \in Conns |-> Nil]
    /\ sup = [c \in Conns |-> "off"]
    /\ want = [c \in Conns |-> Nil]

-----------------------------------------------------------------------------
(* run(): a connection comes up, is evicted or lost, and is torn down.     *)

\* The hello is valid (or the client is refused) and is acknowledged.
AcceptHello(c) ==
    /\ link[c] = "new"
    /\ link' = [link EXCEPT ![c] = IF live[c] THEN "hello" ELSE "gone"]
    /\ UNCHANGED <<live, registry, newest, victim, evicted, supVars, chanVars,
                   reports, proc, reported>>

\* AddOrReplaceConnection: the label check and the insert are one step.
Register(c) ==
    /\ link[c] = "hello"
    /\ registry' = {c}
    /\ newest' = c
    /\ victim' = [victim EXCEPT ![c] = IF registry = {} THEN Nil
                                         ELSE CHOOSE o \in registry : TRUE]
    /\ link' = [link EXCEPT ![c] = "registered"]
    /\ UNCHANGED <<live, evicted, supVars, chanVars, reports, proc, reported>>

\* Mutant: the old connection is replaced and left alone.
ReplaceQuietly(c) ==
    /\ link[c] = "registered"
    /\ link' = [link EXCEPT ![c] = "open"]
    /\ UNCHANGED <<live, registry, newest, victim, evicted, supVars, chanVars,
                   reports, proc, reported>>

\* The evict() of the connection that held the label is started.
ReplaceOld(c) ==
    /\ link[c] = "registered"
    /\ link' = [link EXCEPT ![c] = "open"]
    /\ evicted' = [o \in Conns |-> evicted[o] \/ o = victim[c]]
    /\ victim' = [victim EXCEPT ![c] = Nil]
    /\ UNCHANGED <<live, registry, newest, supVars, chanVars, reports, proc,
                   reported>>

\* The goroutine of evict() says goodbye and cancels the connection.
Evict(c) ==
    /\ evicted[c]
    /\ evicted' = [evicted EXCEPT ![c] = FALSE]
    /\ live' = [live EXCEPT ![c] = FALSE]
    /\ UNCHANGED <<link, registry, newest, victim, supVars, chanVars, reports,
                   proc, reported>>

\* The socket fails, or a ping goes unanswered.
SocketLost(c) ==
    /\ link[c] \in {"new", "hello", "registered", "open"}
    /\ live[c]
    /\ live' = [live EXCEPT ![c] = FALSE]
    /\ UNCHANGED <<link, registry, newest, victim, evicted, supVars, chanVars,
                   reports, proc, reported>>

\* The receive loop returns; teardown() cancels the supervisor.
StopSupervisor(c) ==
    /\ link[c] = "open"
    /\ ~live[c]
    /\ link' = [link EXCEPT ![c] = "stopping"]
    /\ UNCHANGED <<live, registry, newest, victim, evicted, supVars, chanVars,
                   reports, proc, reported>>

\* Mutant: teardown() removes whatever holds the label.
RemoveByLabel(c) ==
    /\ link[c] = "stopping"
    /\ registry' = {}
    /\ link' = [link EXCEPT ![c] = "gone"]
    /\ UNCHANGED <<live, newest, victim, evicted, supVars, chanVars, reports,
                   proc, reported>>

\* teardown() has waited for the supervisor, or has waited StopWait: the
\* connection is removed by its ID, so not the one that replaced it.
RemoveConnection(c) ==
    /\ link[c] = "stopping"
    /\ registry' = registry \ {c}
    /\ link' = [link EXCEPT ![c] = "gone"]
    /\ UNCHANGED <<live, newest, victim, evicted, supVars, chanVars, reports,
                   proc, reported>>

-----------------------------------------------------------------------------
(* The receive loop.                                                       *)

\* setDesired(): the latest state wins.
SetDesired(c, s) == desired' = [desired EXCEPT ![c] = s]

\* A frame without a state is a failure.
StateOf(s) == IF s = "" THEN "failed" ELSE s

\* onServerState(): the state is shown at once and handed to the supervisor,
\* which is started on first use.
OnServerState(c, s) ==
    /\ link[c] = "open"
    /\ live[c]
    /\ reports[c] < MaxReports[c]
    /\ StateOf(s) # reported[c] \/ reports[c] = 0
    /\ reports' = [reports EXCEPT ![c] = @ + 1]
    /\ proc' = [proc EXCEPT ![c] = IF s = "starting" THEN @ + 1 ELSE @]
    /\ reported' = [reported EXCEPT ![c] = StateOf(s)]
    /\ state' = [state EXCEPT ![c] = StateOf(s)]
    /\ SetDesired(c, StateOf(s))
    /\ sup' = [sup EXCEPT ![c] = IF @ = "off" THEN "next" ELSE @]
    /\ UNCHANGED <<connVars, want, session, tools>>

-----------------------------------------------------------------------------
(* superviseChannel()                                                      *)

Goto(c, pc) == sup' = [sup EXCEPT ![c] = pc]

\* What follows once the previous session is retired: the supervisor ends with
\* its connection, and only a running server gets a session.
Afterwards(w) == CASE w = Nil -> "ended" [] w = "running" -> "settle" [] OTHER -> "next"

\* The supervisor turns to state w (Nil: the connection is going away).  An
\* open session is retired first, whatever the state is.
TurnTo(c, w) ==
    /\ want' = [want EXCEPT ![c] = w]
    /\ Goto(c, IF session[c] # 0 THEN "close" ELSE Afterwards(w))

\* next(): a state arrives, or the connection is going away.
NextState(c) ==
    /\ sup[c] = "next"
    /\ \/ /\ desired[c] # Nil
          /\ desired' = [desired EXCEPT ![c] = Nil]
          /\ TurnTo(c, desired[c])
       \/ /\ ~live[c]
          /\ TurnTo(c, Nil)
          /\ UNCHANGED desired
    /\ UNCHANGED <<connVars, chanVars, reports, proc, reported>>

\* closeSession(), up to the question whether this connection is current ...
CloseSession(c) ==
    /\ sup[c] = "close"
    /\ session' = [session EXCEPT ![c] = 0]
    /\ tools' = [tools EXCEPT ![c] = FALSE]
    /\ Goto(c, Afterwards(want[c]))
    /\ UNCHANGED <<connVars, desired, want, state, reports, proc, reported>>

\* Mutant: a state that interrupts the wait is lost.
SettleForgets(c) ==
    /\ sup[c] = "settle"
    /\ \/ /\ desired[c] # Nil
          /\ desired' = [desired EXCEPT ![c] = Nil]
          /\ Goto(c, "connect")
       \/ /\ Goto(c, "connect")
          /\ UNCHANGED desired
    /\ UNCHANGED <<connVars, want, chanVars, reports, proc, reported>>

\* Mutant: a state that interrupts the wait is not carried over.
SettleDrops(c) ==
    /\ sup[c] = "settle"
    /\ \/ /\ desired[c] # Nil
          /\ desired' = [desired EXCEPT ![c] = Nil]
          /\ Goto(c, "next")
          /\ UNCHANGED want
       \/ /\ ~live[c]
          /\ TurnTo(c, Nil)
          /\ UNCHANGED desired
       \/ /\ Goto(c, "connect")
          /\ UNCHANGED <<want, desired>>
    /\ UNCHANGED <<connVars, chanVars, reports, proc, reported>>

\* settle(): the delay passes, or a new state interrupts it and is carried
\* into the next iteration, or the connection is going away.
Settle(c) ==
    /\ sup[c] = "settle"
    /\ \/ /\ desired[c] # Nil
          /\ desired' = [desired EXCEPT ![c] = Nil]
          /\ TurnTo(c, desired[c])
       \/ /\ ~live[c]
          /\ TurnTo(c, Nil)
          /\ UNCHANGED desired
       \/ /\ Goto(c, "connect")
          /\ UNCHANGED <<want, desired>>
    /\ UNCHANGED <<connVars, chanVars, reports, proc, reported>>

\* openSession(): initialize is answered by the process that runs now, or it
\* fails (refused, timed out, or the connection is going away).
Connect(c) ==
    /\ sup[c] = "connect"
    /\ \/ /\ live[c]
          /\ session' = [session EXCEPT ![c] = proc[c]]
          /\ Goto(c, "list")
          /\ UNCHANGED state
       \/ /\ state' = [state EXCEPT ![c] = IF live[c] THEN "failed" ELSE @]
          /\ Goto(c, "next")
          /\ UNCHANGED session
    /\ UNCHANGED <<connVars, desired, want, tools, reports, proc, reported>>

\* refreshTools(), up to the question whether this connection is current.
ListTools(c) ==
    /\ sup[c] = "list"
    /\ \E listed \in BOOLEAN : tools' = [tools EXCEPT ![c] = listed]
    /\ Goto(c, "next")
    /\ UNCHANGED <<connVars, desired, want, state, session, reports, proc,
                   reported>>

SupNext(c) ==
    \/ NextState(c) \/ CloseSession(c) \/ Settle(c)
    \/ Connect(c) \/ ListTools(c)

RunNext(c) ==
    \/ AcceptHello(c) \/ Register(c) \/ ReplaceOld(c) \/ StopSupervisor(c)
    \/ RemoveConnection(c)

Next == \E c \in Conns :
    \/ RunNext(c) \/ Evict(c) \/ SupNext(c)
    \/ SocketLost(c)
    \/ \E s \in Reports : OnServerState(c, s)

Spec == Init /\ [][Next]_vars

\* Goroutines are scheduled; evict, settle, initialize, tools/list and the
\* waiting in teardown all have deadlines.
Fairness == \A c \in Conns : WF_vars(RunNext(c)) /\ WF_vars(Evict(c)) /\ WF_vars(SupNext(c))

FairSpec == Spec /\ Fairness

-----------------------------------------------------------------------------
(* Properties.                                                             *)

\* A reconnecting client is not locked out and not unregistered by its own
\* stale connection: whatever order registrations, evictions and teardowns
\* interleave in, the connection that registered last is the registered one
\* until it is torn down itself, and no other is.
NewestHoldsLabel ==
    /\ registry \subseteq {newest}
    /\ newest # Nil /\ link[newest] \in {"registered", "open", "stopping"}
         => newest \in registry

Idle(c) == sup[c] = "next" /\ desired[c] = Nil /\ live[c]

\* The tools a client offers belong to the process it runs: when the
\* supervisor has nothing left to do, an open session talks to the current
\* incarnation of a server that was last reported running, and at no time are
\* tools listed for a server that has no session.
SessionIsOfThisProcess ==
    \A c \in Conns :
        /\ Idle(c) /\ session[c] # 0 => session[c] = proc[c] /\ reported[c] = "running"
        /\ tools[c] => session[c] # 0

\* A server that stays running is given a session, or the console is told that
\* it failed: no state report is lost between the receive loop, the settle
\* delay and the supervisor.
ServedOrFailed ==
    \A c \in Conns :
        (reported[c] = "running" /\ live[c])
          ~> (session[c] # 0 \/ state[c] = "failed" \/ reported[c] # "running" \/ ~live[c])

\* An evicted connection goes away, with its session.
EvictedGoesAway ==
    \A c \in Conns :
        (newest # c /\ link[c] \in {"open", "stopping"})
          ~> (link[c] = "gone" /\ session[c] = 0)
=============================================================================
