------------------------------ MODULE Reconnect ------------------------------
(***************************************************************************)
(* Clients that share a label, each in the loop that connects, serves and  *)
(* waits before it connects again (client tunnel.py), against the hub that *)
(* lets the newest connection have the label (tunnel/tunnel.go, run and    *)
(* evict).  Every one of them would take the label back at once, for ever, *)
(* but for the backoff.                                                    *)
(***************************************************************************)
EXTENDS Naturals, Sequences

CONSTANTS Clients, Nobody,
          MaxRetries, \* settings.max_retries of each client, 0 is for ever
          Longest,    \* the attempt from which the delay no longer grows
          Refused,    \* clients whose hello the hub does not accept
          MaxLosses   \* bound of the model: sockets that break

VARIABLES
    at,        \* where run() is
    attempt,   \* attempts since the backoff began, counted up to Longest
    sessionOk, replaced, held, \* of this connection; held: STABLE_CONNECTION passed
    hub,       \* the hub's end of the connection
    frames,    \* frames and, last, the close on the way to the client
    holder, stale, \* who holds the label, and whether that socket is dead
    losses
own == <<attempt, sessionOk, replaced, held>>
loopvars == <<at, own, hub, frames, holder, stale, losses>>

LoopInit == /\ at = [c \in Clients |-> "connect"]
            /\ attempt = [c \in Clients |-> 0]
            /\ sessionOk = [c \in Clients |-> FALSE]
            /\ replaced = [c \in Clients |-> FALSE] /\ held = [c \in Clients |-> FALSE]
            /\ hub = [c \in Clients |-> "none"] /\ frames = [c \in Clients |-> <<>>]
            /\ holder = Nobody /\ stale = FALSE /\ losses = 0

Tell(c, s) == frames' = [frames EXCEPT ![c] = @ \o s]

-----------------------------------------------------------------------------
(* The client.                                                             *)

\* _connect_and_serve begins: the flags are of this connection.
Dial(c) == /\ at[c] = "connect" /\ at' = [at EXCEPT ![c] = "serve"]
           /\ sessionOk' = [sessionOk EXCEPT ![c] = FALSE]
           /\ replaced' = [replaced EXCEPT ![c] = FALSE]
           /\ held' = [held EXCEPT ![c] = FALSE]
           /\ hub' = [hub EXCEPT ![c] = "hello"]
           /\ UNCHANGED <<attempt, frames, holder, stale, losses>>

\* _handle_error: before the hello_ack it is a refusal, and only that of a label
\* in use is worth another try; after it, it says who took the label.
AfterFrame(f, acked) == CASE f = "refused" /\ ~acked -> "failed"
                     [] f = "in use" /\ ~acked -> "dropped"
                     [] OTHER -> "serve"

\* _handle_frame.
HandleFrame(c) ==
    /\ at[c] = "serve" /\ frames[c] # <<>>
    /\ LET f == Head(frames[c])
           acked == sessionOk[c]
       IN /\ sessionOk' = [sessionOk EXCEPT ![c] = acked \/ f = "hello_ack"]
          /\ replaced' = [replaced EXCEPT ![c] = @ \/ (f = "in use" /\ acked)]
          /\ at' = [at EXCEPT ![c] = IF f = "close" THEN "dropped" ELSE AfterFrame(f, acked)]
    /\ frames' = [frames EXCEPT ![c] = IF at'[c] = "serve" THEN Tail(@) ELSE <<>>]
    /\ UNCHANGED <<attempt, held, hub, holder, stale, losses>>

\* The session lasts.
Hold(c) == /\ at[c] = "serve" /\ sessionOk[c] /\ ~held[c]
           /\ held' = [held EXCEPT ![c] = TRUE]
           /\ UNCHANGED <<at, attempt, sessionOk, replaced, hub, frames, holder, stale, losses>>

\* Mutant: a session that was replaced counts as a success like any other.
LastedAtAll(c) == sessionOk[c] /\ held[c]
\* Only a session that lasted and was not taken away starts the backoff over.
Stable(c) == sessionOk[c] /\ ~replaced[c] /\ held[c]

\* The connection is over: give up or wait.
Decide(c) ==
    /\ at[c] = "dropped"
    /\ LET n == (IF Stable(c) THEN 0 ELSE attempt[c]) + 1
       IN /\ attempt' = [attempt EXCEPT ![c] = IF n > Longest THEN Longest ELSE n]
          /\ at' = [at EXCEPT ![c] = IF MaxRetries[c] > 0 /\ MaxRetries[c] <= n
                                       THEN "failed" ELSE "waiting"]
    /\ UNCHANGED <<sessionOk, replaced, held, hub, frames, holder, stale, losses>>

Wake(c) == /\ at[c] = "waiting" /\ at' = [at EXCEPT ![c] = "connect"]
           /\ UNCHANGED <<own, hub, frames, holder, stale, losses>>

\* request_stop ends a wait and closes a connection.
RequestStop(c) == /\ at[c] \in {"waiting", "serve"} /\ at' = [at EXCEPT ![c] = "stopped"]
                  /\ stale' = (stale \/ holder = c)
                  /\ hub' = [hub EXCEPT ![c] = "none"]
                  /\ frames' = [frames EXCEPT ![c] = <<>>]
                  /\ UNCHANGED <<own, holder, losses>>

-----------------------------------------------------------------------------
(* The network and the hub.                                                *)

\* Dialling fails, or the socket breaks: the hub finds out later.
Lose(c) == /\ at[c] = "serve" /\ losses < MaxLosses /\ losses' = losses + 1
           /\ at' = [at EXCEPT ![c] = "dropped"] /\ hub' = [hub EXCEPT ![c] = "none"]
           /\ stale' = (stale \/ holder = c)
           /\ frames' = [frames EXCEPT ![c] = <<>>]
           /\ UNCHANGED <<own, holder>>

\* acceptHello, and the hello_ack.
AnswerHello(c) == /\ hub[c] = "hello"
                  /\ IF c \in Refused
                       THEN /\ hub' = [hub EXCEPT ![c] = "none"]
                            /\ Tell(c, <<"refused", "close">>)
                       ELSE hub' = [hub EXCEPT ![c] = "acked"] /\ Tell(c, <<"hello_ack">>)
                  /\ UNCHANGED <<at, own, holder, stale, losses>>

\* AddOrReplaceConnection: the newer claim on the label wins.
Claim(c) == /\ hub[c] = "acked"
            /\ hub' = [d \in Clients |-> IF d = c THEN "serving"
                                         ELSE IF d = holder /\ ~stale THEN "evicted" ELSE hub[d]]
            /\ holder' = c /\ stale' = FALSE
            /\ UNCHANGED <<at, own, frames, losses>>

\* evict: first the reason, then the close.
Evict(c) == /\ hub[c] = "evicted" /\ hub' = [hub EXCEPT ![c] = "none"]
            /\ Tell(c, <<"in use", "close">>)
            /\ UNCHANGED <<at, own, holder, stale, losses>>

\* keepalive, teardown: a dead connection is removed.
Forget == /\ stale /\ holder' = Nobody /\ stale' = FALSE
          /\ UNCHANGED <<at, own, hub, frames, losses>>

LoopStep(c) == \/ Dial(c) \/ HandleFrame(c) \/ Decide(c) \/ Wake(c)
               \/ AnswerHello(c) \/ Claim(c) \/ Evict(c)
LoopNext == \/ \E c \in Clients : LoopStep(c) \/ Hold(c) \/ RequestStop(c) \/ Lose(c)
            \/ Forget
\* Frames arrive, delays end, and the hub answers a hello.  Nothing makes a
\* session last, a client stop or a socket break.
LoopFairness == \A c \in Clients : WF_loopvars(LoopStep(c))
LoopSpec == LoopInit /\ [][LoopNext]_loopvars /\ LoopFairness

-----------------------------------------------------------------------------
\* In the end a client waits, if it ever does, for the longest time: clients that
\* take one label from each other do not go on doing so at the reconnect rate
\* (evict, STABLE_CONNECTION and _replaced).
EvictionsSlowDown == <>[](\A c \in Clients : at[c] = "waiting" => attempt[c] = Longest)
=============================================================================
