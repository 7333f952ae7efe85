----------------------------- MODULE SessionPipe -----------------------------
(***************************************************************************)
(* One server of a tunnel, end to end: the MCP sessions the hub opens on   *)
(* it one after another (tunnel/tunnel.go, mcpsession/transport.go), the   *)
(* two streams of frames, and the client's process and its restarts        *)
(* (supervisor.py, tunnel.py).  Request ids begin again in every session,  *)
(* so a reply that comes late could answer somebody else's request.        *)
(***************************************************************************)
EXTENDS Naturals, Sequences, FiniteSets

CONSTANTS Buffer,     \* bound of channelOwner.incoming
          LastId,     \* bound of the model: requests of a session
          MaxRuns,    \* bound of the model: processes
          MaxSess     \* bound of the model: sessions

VARIABLES
    run, proc,    \* the server's process: its number, "dead", "new" or "ready"
    asked,        \* requests the process works on
    down, upward, \* frames on their way to the process and to the hub
    desired,      \* channelOwner.desired: at most one report
    accepting, incoming, \* channelOwner
    sup,          \* supervisor: "next", "settle", "connect", "list" or "open"
    sess, born,   \* the session's number, the process it was opened for
    nextId, pending, \* the session's requests
    answers       \* the replies the session took for answers
client == <<run, proc, asked>>
owner == <<accepting, incoming>>
session == <<sess, born, nextId, pending, answers>>
pipe == <<client, down, upward, desired, owner, sup, session>>

Request(i) == [id |-> i, sess |-> sess]
Report(x, r) == [state |-> x, run |-> r]
IsReport(f) == "state" \in DOMAIN f
Reply(r, ok) == [id |-> r.id, sess |-> r.sess, run |-> run, ok |-> ok]

PipeInit == /\ run = 0 /\ proc = "dead" /\ asked = {} /\ down = <<>> /\ upward = <<>>
            /\ desired = <<>> /\ accepting = FALSE /\ incoming = <<>> /\ sup = "next"
            /\ sess = 0 /\ born = 0 /\ nextId = 1 /\ pending = {} /\ answers = {}

-----------------------------------------------------------------------------
(* The client.                                                             *)

\* LocalServer.restart, from a restart frame or a hello_ack: stop ...
StopProcess == /\ proc # "dead" /\ run < MaxRuns /\ proc' = "dead" /\ asked' = {}
               /\ UNCHANGED <<run, down, upward, desired, owner, sup, session>>
\* ... and start, which reports starting and then running.
StartProcess == /\ proc = "dead" /\ run < MaxRuns /\ run' = run + 1 /\ proc' = "new"
                /\ upward' = upward \o <<Report("starting", run'), Report("running", run')>>
                /\ UNCHANGED <<asked, down, desired, owner, sup, session>>

\* The process closes its stdout: what it said was read before.
ProcessExits == /\ proc # "dead" /\ proc' = "dead" /\ asked' = {}
                /\ upward' = Append(upward, Report("exited", run))
                /\ UNCHANGED <<run, down, desired, owner, sup, session>>

\* The worker of the server's queue writes to whatever process there is.  A
\* process rejects what comes before initialize, and a second initialize.
WorkerSend ==
    /\ down # <<>> /\ down' = Tail(down)
    /\ LET r == Head(down)
           begins == proc = "new" /\ r.id = 1
           taken == begins \/ (proc = "ready" /\ r.id > 1)
       IN /\ proc' = IF begins THEN "ready" ELSE proc
          /\ asked' = IF taken THEN asked \cup {r} ELSE asked
          /\ upward' = IF taken \/ proc = "dead" THEN upward
                       ELSE Append(upward, Reply(r, FALSE))
    /\ UNCHANGED <<run, desired, owner, sup, session>>

\* A line of stdout goes up as a frame.  Requests are answered in any order.
OnStdout(r) == /\ r \in asked /\ asked' = asked \ {r}
               /\ upward' = Append(upward, Reply(r, TRUE))
               /\ UNCHANGED <<run, proc, down, desired, owner, sup, session>>

-----------------------------------------------------------------------------
(* The hub.                                                                *)

\* onServerState: the latest report wins.
OnServerState == /\ upward # <<>> /\ IsReport(Head(upward)) /\ upward' = Tail(upward)
                 /\ desired' = <<Head(upward)>>
                 /\ UNCHANGED <<client, down, owner, sup, session>>

\* onMCP, deliver: never blocks; without a session or without room it drops.
Deliver ==
    /\ upward # <<>> /\ ~IsReport(Head(upward)) /\ upward' = Tail(upward)
    /\ incoming' = IF accepting /\ Len(incoming) < Buffer THEN Append(incoming, Head(upward))
                                                          ELSE incoming
    /\ UNCHANGED <<client, down, desired, accepting, sup, session>>

\* Mutant: the buffered frames are left for the next session.
LeaveFrames(on) == /\ accepting' = on /\ UNCHANGED incoming
\* startAccepting and stopAccepting both throw away what is buffered.
Accepting(on) == /\ accepting' = on /\ incoming' = <<>>

\* Any report retires the session; a running process is given time to settle.
TakeState ==
    /\ desired # <<>> /\ sup \in {"next", "settle", "open"} /\ desired' = <<>>
    /\ IF sup = "open" THEN Accepting(FALSE) ELSE UNCHANGED owner
    /\ pending' = {} /\ answers' = {}
    /\ born' = desired[1].run
    /\ sup' = IF desired[1].state = "running" THEN "settle" ELSE "next"
    /\ UNCHANGED <<client, down, upward, sess, nextId>>

\* openSession: initialize is request 1 of the new session.
Open == /\ sup = "settle" /\ desired = <<>> /\ sess < MaxSess
        /\ Accepting(TRUE)
        /\ sess' = sess + 1 /\ nextId' = 2 /\ pending' = {1}
        /\ down' = Append(down, [id |-> 1, sess |-> sess'])
        /\ sup' = "connect"
        /\ UNCHANGED <<client, upward, desired, born, answers>>

\* A request of the session: refreshTools' tools/list, which the supervisor
\* waits for, is the first, tool calls follow.
CallServer == /\ sup = "open" \/ (sup = "list" /\ nextId = 2)
        /\ nextId <= LastId
        /\ nextId' = nextId + 1 /\ pending' = pending \cup {nextId}
        /\ down' = Append(down, Request(nextId))
        /\ UNCHANGED <<client, upward, desired, owner, sup, sess, born, answers>>

\* The session's reader: a reply that nobody waits for is passed over, and a
\* refused initialize fails the session.
ReadFrame ==
    /\ incoming # <<>> /\ sup \in {"connect", "list", "open"}
    /\ LET f == Head(incoming)
           mine == f.id \in pending
           refused == mine /\ f.id = 1 /\ ~f.ok
       IN /\ answers' = IF mine THEN answers \cup {f} ELSE answers
          /\ pending' = pending \ {f.id}
          /\ sup' = CASE refused -> "next"
                      [] mine /\ f.id = 1 /\ f.ok -> "list"
                      [] mine /\ f.id = 2 /\ sup = "list" -> "open"
                      [] OTHER -> sup
          /\ IF refused THEN Accepting(FALSE)
                        ELSE /\ incoming' = Tail(incoming) /\ UNCHANGED accepting
    /\ UNCHANGED <<client, down, upward, desired, sess, born, nextId>>

\* ToolsTimeout or the deadline of a call: a late reply is passed over.
Timeout(i) == /\ i \in pending /\ pending' = pending \ {i}
              /\ sup' = CASE i = 1 -> "next" [] i = 2 /\ sup = "list" -> "open" [] OTHER -> sup
              /\ IF i = 1 THEN Accepting(FALSE) ELSE UNCHANGED owner
              /\ UNCHANGED <<client, down, upward, desired, sess, born, nextId, answers>>

PipeNext == \/ StopProcess \/ StartProcess \/ ProcessExits \/ WorkerSend
            \/ \E r \in asked : OnStdout(r)
            \/ OnServerState \/ Deliver \/ TakeState \/ Open \/ CallServer \/ ReadFrame
            \/ \E i \in pending : Timeout(i)
PipeSpec == PipeInit /\ [][PipeNext]_pipe

-----------------------------------------------------------------------------
\* A session takes no answer from a process older than the one it was opened
\* for: deliver, "frames arriving while no session is open belong to a dead
\* process and are dropped", and startAccepting, which "flushes stale frames".
AnswersAreFresh == \A a \in answers : a.run >= born
=============================================================================
