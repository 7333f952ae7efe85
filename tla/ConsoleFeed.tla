----------------------------- MODULE ConsoleFeed -----------------------------
(***************************************************************************)
(* A console tab that follows a chat over its WebSocket:                   *)
(*   hub/internal/api/ws.go            the hub's end of the socket         *)
(*   hub/web/src/lib/hubSocket.ts      the tab's end                       *)
(*   hub/web/src/hooks/useChatStream.ts, lib/streamAssembly.ts             *)
(*                                     what the tab makes of the frames    *)
(* composed with the hub's stream of the chat, ChatStream.                 *)
(*                                                                         *)
(* The socket loses its connection at any time; the tab reconnects and     *)
(* resumes from the last frame it applied.  The thread view is unmounted   *)
(* and mounted again when the user leaves the chat and returns, while      *)
(* frames for it may still be on their way.  A run is one assistant        *)
(* message here: its frames are the deltas of a draft that the persisted   *)
(* message replaces when the run is over.                                  *)
(***************************************************************************)
EXTENDS ChatStream

CONSTANTS
    Nil,         \* no position / no subscription
    Outbox,      \* capacity of the outbox channel in ws.go
    MaxLosses,   \* bound on lost connections
    MaxMounts    \* bound on how often the thread view is mounted

ASSUME FeedAssumption == Outbox \in Nat \ {0} /\ Nil \notin Runs \X Nat

VARIABLES
    conn,       \* HubSocket.state: "offline", "connecting", "live"
    up,         \* messages from the tab to the hub
    down,       \* the outbox and the wire to the tab
    cur,        \* ws(): subs[chat], the subscription in force
    mounted,    \* useChatStream is mounted for the chat
    last,       \* StreamState.lastEventId
    seqByRun,   \* StreamState.seqByRun
    draft,      \* StreamState.drafts: the frames assembled, by run
    restart,    \* the timer armed by an overflow
    crossed,    \* frames of two subscriptions may have met since Mount (history)
    skipped,    \* run -> its last frame that the draft will not show (history)
    losses,
    mounts

tabVars  == <<mounted, last, seqByRun, draft, restart>>
sockVars == <<conn, up, down, cur>>
fvars == <<vars, tabVars, sockVars, crossed, skipped, losses, mounts>>

Hello == [hello |-> TRUE]

FTypeOK ==
    /\ TypeOK
    /\ conn \in {"offline", "connecting", "live"}
    /\ up \in Seq([op : {"sub", "unsub"}, last : {Nil} \cup (Runs \X Nat)])
    /\ down \in Seq(Frames \cup Overflows \cup {Hello})
    /\ Len(down) <= Outbox
    /\ cur \in Subs \cup {Nil}
    /\ mounted \in BOOLEAN
    /\ last \in {Nil} \cup (Runs \X Nat)
    /\ seqByRun \in [Runs -> Nat]
    /\ draft \in [Runs -> Seq(Nat)]
    /\ restart \in BOOLEAN
    /\ crossed \in BOOLEAN
    /\ skipped \in [Runs -> Nat]

NoDrafts == [r \in Runs |-> <<>>]

FInit ==
    /\ Init
    /\ conn = "offline"
    /\ up = <<>>
    /\ down = <<>>
    /\ cur = Nil
    /\ mounted = FALSE
    /\ last = Nil
    /\ seqByRun = [r \in Runs |-> 0]
    /\ draft = NoDrafts
    /\ restart = FALSE
    /\ crossed = FALSE
    /\ skipped = [r \in Runs |-> 0]
    /\ losses = 0
    /\ mounts = 0

-----------------------------------------------------------------------------
(* The connection.                                                         *)

\* open(): the hub accepts the socket and says hello.
Open ==
    /\ conn = "offline"
    /\ conn' = "connecting"
    /\ down' = <<Hello>>
    /\ UNCHANGED <<vars, tabVars, up, cur, crossed, skipped, losses, mounts>>

\* The socket closes: ws() returns, which ends all its subscriptions.
Disconnected ==
    /\ conn' = "offline"
    /\ up' = <<>>
    /\ down' = <<>>
    /\ cur' = Nil
    /\ sub' = [s \in Subs |-> NewSub]

ConnectionLost ==
    /\ conn # "offline"
    /\ losses < MaxLosses
    /\ losses' = losses + 1
    /\ Disconnected
    /\ UNCHANGED <<closed, phase, runOrder, ring, log, at, tabVars, crossed, skipped, mounts>>

\* HubSocket.send: nothing is sent before the hello.
Send(msgs) == up' = IF conn = "live" THEN up \o msgs ELSE up

SubMsg(pos) == [op |-> "sub", last |-> pos]
UnsubMsg == [op |-> "unsub", last |-> Nil]

-----------------------------------------------------------------------------
(* The hub's end.                                                          *)

\* The read loop of ws(): "sub" replaces the subscription of the chat, which
\* is cancelled but may still have frames to forward.
HandleSub(s) ==
    /\ up # <<>>
    /\ Head(up).op = "sub"
    /\ IF Head(up).last = Nil THEN SubscribeActive(s)
         ELSE Subscribe(s, Head(up).last[1], Head(up).last[2])
    /\ cur' = s
    /\ up' = Tail(up)
    /\ crossed' = (crossed \/ \E t \in Subs : sub[t].used)
    /\ skipped' = [r \in Runs |->
                      IF Head(up).last = Nil /\ phase[r] = "live" /\ ~Replayable(r)
                        THEN NextSeq(r) - 1 ELSE skipped[r]]
    /\ UNCHANGED <<conn, down, tabVars, losses, mounts>>

HandleUnsub ==
    /\ up # <<>>
    /\ Head(up).op = "unsub"
    /\ cur' = Nil
    /\ up' = Tail(up)
    /\ UNCHANGED <<vars, conn, down, tabVars, crossed, skipped, losses, mounts>>

\* The goroutine of one subscription takes a frame and sends it.  Next prefers
\* a queued frame to a cancelled context.  After an overflow it returns.
Forward(s) ==
    /\ sub[s].queue # <<>>
    /\ Len(down) < Outbox
    /\ down' = Append(down, Head(sub[s].queue))
    /\ IF Head(sub[s].queue) \in Overflows
         THEN /\ sub' = [sub EXCEPT ![s] = NewSub]
              /\ UNCHANGED <<closed, phase, runOrder, ring, log, at>>
         ELSE TakeFrame(s)
    /\ UNCHANGED <<conn, up, cur, tabVars, crossed, skipped, losses, mounts>>

\* A full outbox: the client is too slow and the connection is dropped.
OutboxFull(s) ==
    /\ sub[s].queue # <<>>
    /\ Len(down) >= Outbox
    /\ Disconnected
    /\ UNCHANGED <<closed, phase, runOrder, ring, log, at, tabVars, crossed, skipped, losses, mounts>>

\* Next returns an error: cancelled, or closed and drained.
ForwardEnds(s) ==
    /\ sub[s].used
    /\ sub[s].queue = <<>>
    /\ cur # s \/ sub[s].closed
    /\ sub' = [sub EXCEPT ![s] = NewSub]
    /\ UNCHANGED <<closed, phase, runOrder, ring, log, at, sockVars, tabVars,
                   crossed, skipped, losses, mounts>>

-----------------------------------------------------------------------------
(* The tab.                                                                *)

\* No frame of an earlier subscription is on its way to the tab, or can be.
Quiet ==
    /\ up = <<>>
    /\ Range(down) \cap Frames = {}
    /\ \A s \in Subs : ~sub[s].used

\* The thread of the chat is shown: a fresh state, subscribed without position.
Mount ==
    /\ ~mounted
    /\ mounts < MaxMounts
    /\ mounts' = mounts + 1
    /\ mounted' = TRUE
    /\ last' = Nil
    /\ seqByRun' = [r \in Runs |-> 0]
    /\ draft' = NoDrafts
    /\ restart' = FALSE
    /\ crossed' = ~Quiet
    /\ skipped' = [r \in Runs |-> 0]
    /\ Send(<<SubMsg(Nil)>>)
    /\ UNCHANGED <<vars, conn, down, cur, losses>>

Unmount ==
    /\ mounted
    /\ mounted' = FALSE
    /\ restart' = FALSE
    /\ Send(<<UnsubMsg>>)
    /\ UNCHANGED <<vars, conn, down, cur, last, seqByRun, draft, crossed, skipped, losses, mounts>>

RecvHello ==
    /\ down # <<>>
    /\ Head(down) = Hello
    /\ down' = Tail(down)
    /\ conn' = "live"
    /\ up' = IF mounted THEN Append(up, SubMsg(last)) ELSE up
    /\ UNCHANGED <<vars, cur, tabVars, crossed, skipped, losses, mounts>>

\* Mutant: the position is the frame that comes next, not the last one applied.
ResumeAfterNext ==
    /\ down # <<>>
    /\ Head(down) \in Frames
    /\ down' = Tail(down)
    /\ LET f == Head(down) IN
       IF ~mounted \/ f.seq <= seqByRun[f.run] THEN UNCHANGED tabVars
         ELSE /\ last' = <<f.run, f.seq + 1>>
              /\ seqByRun' = [seqByRun EXCEPT ![f.run] = f.seq]
              /\ draft' = [draft EXCEPT ![f.run] = Append(@, f.seq)]
              /\ UNCHANGED <<mounted, restart>>
    /\ UNCHANGED <<vars, conn, up, cur, crossed, skipped, losses, mounts>>

\* streamReducer, "frame": a frame not newer than the last of its run is a
\* duplicate; any other is applied and becomes the resume position.
RecvFrame ==
    /\ down # <<>>
    /\ Head(down) \in Frames
    /\ down' = Tail(down)
    /\ LET f == Head(down) IN
       IF ~mounted \/ f.seq <= seqByRun[f.run] THEN UNCHANGED tabVars
         ELSE /\ last' = <<f.run, f.seq>>
              /\ seqByRun' = [seqByRun EXCEPT ![f.run] = f.seq]
              /\ draft' = [draft EXCEPT ![f.run] = Append(@, f.seq)]
              /\ UNCHANGED <<mounted, restart>>
    /\ UNCHANGED <<vars, conn, up, cur, crossed, skipped, losses, mounts>>

\* streamReducer, "overflow": drafts and the position are dropped, the history
\* is fetched again and a timer is armed to start over.  The numbers of the
\* frames are kept: the frames dropped here would be duplicates if they came again.
RecvOverflow ==
    /\ down # <<>>
    /\ Head(down) \in Overflows
    /\ down' = Tail(down)
    /\ IF ~mounted THEN UNCHANGED tabVars
         ELSE /\ draft' = NoDrafts
              /\ last' = Nil
              /\ restart' = TRUE
              /\ UNCHANGED <<mounted, seqByRun>>
    /\ UNCHANGED <<vars, conn, up, cur, crossed, skipped, losses, mounts>>

\* Mutant: the timer clears the notice and does not subscribe again.
RestartForgets ==
    /\ restart
    /\ restart' = FALSE
    /\ UNCHANGED <<vars, sockVars, mounted, last, seqByRun, draft, crossed, skipped, losses, mounts>>

\* The timer: subscribe again without a position.
Restart ==
    /\ restart
    /\ restart' = FALSE
    /\ Send(<<SubMsg(Nil)>>)
    /\ UNCHANGED <<vars, conn, down, cur, mounted, last, seqByRun, draft, crossed, skipped, losses, mounts>>

-----------------------------------------------------------------------------

Hub == HubNext /\ UNCHANGED <<tabVars, sockVars, crossed, skipped, losses, mounts>>

SocketNext ==
    \/ Open
    \/ HandleUnsub
    \/ \E s \in Subs : HandleSub(s) \/ Forward(s) \/ OutboxFull(s) \/ ForwardEnds(s)

TabNext == RecvHello \/ RecvFrame \/ RecvOverflow

FNext == Hub \/ ConnectionLost \/ SocketNext \/ Mount \/ Unmount \/ TabNext \/ Restart

FSpec == FInit /\ [][FNext]_fvars

\* The socket reconnects with backoff and its goroutines are scheduled; the
\* tab handles its messages and its timer fires.
FFairness ==
    /\ WF_fvars(Open) /\ WF_fvars(HandleUnsub)
    /\ WF_fvars(\E s \in Subs : HandleSub(s))
    /\ \A s \in Subs : WF_fvars(Forward(s)) /\ WF_fvars(ForwardEnds(s))
    /\ WF_fvars(TabNext)
    /\ WF_fvars(Restart)

FairFSpec == FSpec /\ FFairness

-----------------------------------------------------------------------------
(* Properties.                                                             *)

\* What the tab shows of a message in flight never has a hole in the middle
\* or a repeated delta, whatever breaks, resumptions, evictions, overflows and
\* restarts lie between two of its frames (N5, N9).  The exception is a thread
\* that frames of two subscriptions may have reached: then a newer frame of the
\* one makes duplicates of the frames the other still owes.
NoHoleInDraft ==
    ~crossed => \A r \in Runs : \A i \in 1..Len(draft[r]) - 1 :
                   draft[r][i + 1] = draft[r][i] + 1

\* A tab that stays on the chat comes to show all of the run in flight, from its
\* first frame to its newest, whatever breaks, resumptions and restarts lie
\* between.  The numbers kept over an overflow do not stand in the way: a run of
\* which frames had come when the queue overflowed is longer than the budget.
\* What the tab will not show (skipped) was published of a run whose start was
\* evicted from its ring before the tab asked without a position.  The other
\* exceptions are a run longer than the budget of a subscription, which cannot be
\* replayed, and a thread where two subscriptions met: that comes to the newest
\* frame it is sent, no more.
Shown(r) == draft[r] = [i \in 1..NextSeq(r) - 1 - skipped[r] |-> skipped[r] + i]
CatchesUp ==
    \A r \in Runs :
        (mounted /\ phase[r] = "live")
          ~> \/ ~mounted \/ phase[r] # "live"
             \/ Shown(r)
             \/ crossed /\ NextSeq(r) - 1 \in {seqByRun[r], skipped[r]}
             \/ Replayable(r) /\ Bytes(ring[r]) > Budget
=============================================================================
