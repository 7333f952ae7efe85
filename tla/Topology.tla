------------------------------ MODULE Topology ------------------------------
(***************************************************************************)
(* The registry's connections, the event bus (events/events.go) and the    *)
(* watcher that keeps the gauges of connections and servers in step with   *)
(* the registry (watchTopology in main.go).  A change of the registry and  *)
(* its event are two steps, the watcher reads the registry piece by piece, *)
(* and a subscriber that is behind loses its oldest event.                 *)
(***************************************************************************)
EXTENDS Naturals, Sequences, FiniteSets

CONSTANTS Conns,      \* connection ids, each used once
          Labels,     \* labels clients announce
          Known, Odd, \* server states metrics knows, and one it does not
          TopServers, \* servers each client declares
          BusQueue,   \* bound of a subscriber's queue
          MaxOwed     \* bound of the model: events not yet published

ASSUME TopologyAssumption ==
  IsFiniteSet(TopServers) /\ BusQueue \in Nat \ {0} /\ "starting" \in Known

TopStates == Known \cup {Odd}

VARIABLES joined,   \* Registry.connections, by id
          labelOf,  \* the label a connection said hello with
          report,   \* ServerChannel.state
          owed,     \* changes whose PublishChange is still to come
          inbox,    \* the watcher's queue: "connections" or "other"
          missed,   \* the queue pushed out its last "connections"
          update,   \* watchTopology: idle, or inside update()
          todo,     \* servers IterServers still has to visit
          tally,    \* byState
          gauges    \* what metrics shows
tvars == <<joined, labelOf, report, owed, inbox, missed, update, todo, tally, gauges>>

NoLabel == "none"
Tally(S) == [x \in TopStates |-> Cardinality({p \in S : report[p[1]][p[2]] = x})]
Zero == [x \in TopStates |-> 0]

TInit == /\ joined = {} /\ labelOf = [c \in Conns |-> NoLabel] /\ owed = 0
         /\ report = [c \in Conns |-> [s \in TopServers |-> "starting"]]
         /\ inbox = <<>> /\ missed = FALSE /\ update = FALSE /\ todo = {} /\ tally = Zero
         /\ gauges = [connections |-> 0, servers |-> Zero]

Watcher == <<update, todo, tally, gauges>>
Bus == <<inbox, missed>>
Owe == owed < MaxOwed /\ owed' = owed + 1

\* AddOrReplaceConnection: the label's holder goes and the new one comes under
\* one lock.
AddOrReplaceConnection(c, l) ==
  /\ labelOf[c] = NoLabel /\ labelOf' = [labelOf EXCEPT ![c] = l]
  /\ joined' = {d \in joined : labelOf[d] # l} \cup {c}
  /\ Owe /\ UNCHANGED <<report, Bus, Watcher>>

\* RemoveConnection, for a connection that was not evicted before.
RemoveConnection(c) == /\ c \in joined /\ joined' = joined \ {c} /\ Owe
                       /\ UNCHANGED <<labelOf, report, Bus, Watcher>>

\* SetState, from a server_state frame or a session that did not open.
SetState(c, s, x) ==
  /\ labelOf[c] # NoLabel /\ report[c][s] # x
  /\ report' = [report EXCEPT ![c][s] = x] /\ Owe
  /\ UNCHANGED <<joined, labelOf, Bus, Watcher>>

\* Publish for one subscriber: never blocks, drops its oldest when full.
Publish(e) ==
  LET kept == IF Len(inbox) < BusQueue THEN inbox ELSE Tail(inbox)
      next == Append(kept, e) IN
  /\ inbox' = next
  /\ missed' = /\ \A i \in 1..Len(next) : next[i] # "connections"
               /\ missed \/ (Len(inbox) = BusQueue /\ Head(inbox) = "connections")

PublishChange == /\ owed > 0 /\ owed' = owed - 1 /\ Publish("connections")
                 /\ UNCHANGED <<joined, labelOf, report, Watcher>>
PublishOther == /\ Publish("other") /\ UNCHANGED <<joined, labelOf, report, owed, Watcher>>

\* watchTopology takes an event; Counts begins with the ids of the moment.
TakeEvent ==
  /\ ~update /\ inbox # <<>> /\ inbox' = Tail(inbox)
  /\ IF Head(inbox) = "connections"
       THEN update' = TRUE /\ todo' = joined \X TopServers /\ tally' = Zero
       ELSE UNCHANGED <<update, todo, tally>>
  /\ UNCHANGED <<joined, labelOf, report, owed, missed, gauges>>

CountServer(p) == /\ update /\ p \in todo /\ todo' = todo \ {p}
                  /\ tally' = [tally EXCEPT ![report[p[1]][p[2]]] = @ + 1]
                  /\ UNCHANGED <<joined, labelOf, report, owed, Bus, update, gauges>>

\* SetServers: an unknown state is set when some server is in it, and only then.
SetServers(now) ==
  [x \in TopStates |-> IF x \in Known \/ now[x] > 0 THEN now[x] ELSE gauges.servers[x]]

\* Mutant: events that came while the registry was read are taken as seen.
UpdateAndSkip ==
  /\ update /\ todo = {} /\ update' = FALSE /\ inbox' = <<>>
  /\ gauges' = [connections |-> Cardinality(joined), servers |-> SetServers(tally)]
  /\ UNCHANGED <<joined, labelOf, report, owed, missed, todo, tally>>

\* Counts ends with the number of connections; SetConnections, SetServers.
UpdateGauges ==
  /\ update /\ todo = {} /\ update' = FALSE
  /\ gauges' = [connections |-> Cardinality(joined), servers |-> SetServers(tally)]
  /\ UNCHANGED <<joined, labelOf, report, owed, Bus, todo, tally>>

TNext == \/ \E c \in Conns, l \in Labels : AddOrReplaceConnection(c, l)
         \/ \E c \in Conns : RemoveConnection(c)
         \/ \E c \in Conns, s \in TopServers, x \in TopStates : SetState(c, s, x)
         \/ PublishChange \/ PublishOther \/ TakeEvent \/ UpdateGauges
         \/ \E p \in todo : CountServer(p)
TSpec == TInit /\ [][TNext]_tvars

-----------------------------------------------------------------------------
AtRest == owed = 0 /\ inbox = <<>> /\ ~update

\* Once every change is published and the watcher is through its queue, the
\* gauges are the registry's, for the states metrics knows, unless the queue
\* pushed out its last "connections" event (Publish, watchTopology, Counts).
GaugesFollow ==
  AtRest /\ ~missed =>
    /\ gauges.connections = Cardinality(joined)
    /\ \A x \in Known : gauges.servers[x] = Tally(joined \X TopServers)[x]
=============================================================================
