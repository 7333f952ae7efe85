----------------------------- MODULE ChatStream -----------------------------
(***************************************************************************)
(* The per-chat stream of hub/internal/chatstream/hub.go, for one chat     *)
(* (chats share nothing but the hub's lock).                               *)
(*                                                                         *)
(* Publish numbers a run's frames, keeps the latest of them in the run's   *)
(* ring and offers each to every subscription without blocking.  A         *)
(* subscription has a queue bounded in bytes; one that exceeds it gets an  *)
(* overflow frame in place of its queue and ends.  A client that lost its  *)
(* connection resumes from the last frame it saw.                          *)
(*                                                                         *)
(* Every action is one critical section of Hub.mu or of Subscription.mu.   *)
(* What a frame says is left out; its length is not, because the ring and  *)
(* the queues are bounded in bytes.  That the runs of a chat publish one   *)
(* after the other is what RunScheduler's OneRunPerChat provides.          *)
(***************************************************************************)
EXTENDS Integers, FiniteSets, SequencesExt

CONSTANTS
    Runs,        \* runs of the chat
    Subs,        \* subscriptions, each used once
    Sizes,       \* possible lengths of a frame
    Budget,      \* Options.SubscriberBudget
    RingFrames,  \* Options.RingFrames
    RingBytes,   \* Options.RingBytes
    MaxFrames    \* bound on the frames published

ASSUME StreamAssumption ==
    /\ Sizes \subseteq Nat \ {0}
    /\ {Budget, RingFrames, RingBytes} \subseteq Nat \ {0}
    /\ MaxFrames \in Nat

VARIABLES
    closed,    \* Hub.closed
    phase,     \* of a run: "new", "live", "ended" (in its grace), "gone"
    runOrder,  \* chatState.runOrder
    ring,      \* runState.ring
    log,       \* every frame published so far (history)
    sub,       \* the subscriptions
    at         \* how much of log a subscription's reader has or gave up

vars == <<closed, phase, runOrder, ring, log, sub, at>>

Frames == [run : Runs, seq : Nat, size : Sizes]
Overflows == [overflow : {"slow_consumer", "evicted", "unknown_run"}]

NewSub == [queue |-> <<>>, closed |-> FALSE, attached |-> FALSE, used |-> FALSE]

TypeOK ==
    /\ closed \in BOOLEAN
    /\ phase \in [Runs -> {"new", "live", "ended", "gone"}]
    /\ runOrder \in Seq(Runs)
    /\ IsInjective(runOrder)
    /\ Range(runOrder) = {r \in Runs : phase[r] \in {"live", "ended"}}
    /\ ring \in [Runs -> Seq(Frames)]
    /\ log \in Seq(Frames)
    /\ sub \in [Subs -> [queue : Seq(Frames \cup Overflows), closed : BOOLEAN,
                         attached : BOOLEAN, used : BOOLEAN]]
    /\ at \in [Subs -> Nat]

Init ==
    /\ closed = FALSE
    /\ phase = [r \in Runs |-> "new"]
    /\ runOrder = <<>>
    /\ ring = [r \in Runs |-> <<>>]
    /\ log = <<>>
    /\ sub = [s \in Subs |-> NewSub]
    /\ at = [s \in Subs |-> 0]

-----------------------------------------------------------------------------

Bytes(q) == FoldLeft(LAMBDA n, f : n + f.size, 0, q)

\* runState.nextSeq: frames are numbered from 1, and the ring keeps the last.
NextSeq(r) == IF ring[r] = <<>> THEN 1 ELSE Last(ring[r]).seq + 1

\* The eviction loop of Publish: the oldest frames go until both bounds hold,
\* but the newest frame always stays.
Trimmed(q) ==
    LET Fits(k) == \/ Len(q) - k = 1
                   \/ /\ Len(q) - k <= RingFrames
                      /\ Bytes(SubSeq(q, k + 1, Len(q))) <= RingBytes
        gone    == CHOOSE k \in 0..Len(q) - 1 :
                      Fits(k) /\ \A j \in 0..k - 1 : ~Fits(j)
    IN  SubSeq(q, gone + 1, Len(q))

Overflow(u, why) == [u EXCEPT !.queue = <<[overflow |-> why]>>, !.closed = TRUE]

\* Mutant: the closed flag is not looked at.
OfferClosed(u, f) ==
    IF Bytes(SelectSeq(u.queue, LAMBDA g : g \in Frames)) + f.size > Budget
      THEN Overflow(u, "slow_consumer")
      ELSE [u EXCEPT !.queue = Append(@, f)]

\* Subscription.offer
Offer(u, f) ==
    IF u.closed THEN u
      ELSE IF Bytes(u.queue) + f.size > Budget THEN Overflow(u, "slow_consumer")
      ELSE [u EXCEPT !.queue = Append(@, f)]

OfferAll(u, fs) == FoldLeft(Offer, u, fs)

\* Hub.Publish.  A run's first frame creates its state.
Publish(r, size) ==
    LET f == [run |-> r, seq |-> NextSeq(r), size |-> size] IN
    /\ ~closed
    /\ Len(log) < MaxFrames
    /\ \/ phase[r] = "live"
       \/ phase[r] = "new" /\ \A x \in Runs : phase[x] # "live"
    /\ phase' = [phase EXCEPT ![r] = "live"]
    /\ runOrder' = IF phase[r] = "new" THEN Append(runOrder, r) ELSE runOrder
    /\ ring' = [ring EXCEPT ![r] = Trimmed(Append(@, f))]
    /\ log' = Append(log, f)
    /\ sub' = [s \in Subs |-> IF sub[s].attached THEN Offer(sub[s], f) ELSE sub[s]]
    /\ UNCHANGED <<closed, at>>

\* Hub.EndRun: no frame follows, the ring is kept for a grace period.
EndRun(r) ==
    /\ ~closed
    /\ phase[r] = "live"
    /\ phase' = [phase EXCEPT ![r] = "ended"]
    /\ UNCHANGED <<closed, runOrder, ring, log, sub, at>>

\* Hub.purgeRun, when the grace period is over.  All runs have the same grace
\* period and end in the order they began, so they are purged in that order.
PurgeRun(r) ==
    /\ phase[r] = "ended"
    /\ r = Head(runOrder)
    /\ phase' = [phase EXCEPT ![r] = "gone"]
    /\ runOrder' = Tail(runOrder)
    /\ ring' = [ring EXCEPT ![r] = <<>>]
    /\ UNCHANGED <<closed, log, sub, at>>

\* Hub.Close: subscriptions drain, everything else is forgotten.
CloseHub ==
    /\ ~closed
    /\ closed' = TRUE
    /\ phase' = [r \in Runs |-> "gone"]
    /\ runOrder' = <<>>
    /\ ring' = [r \in Runs |-> <<>>]
    /\ sub' = [s \in Subs |-> IF sub[s].attached THEN [sub[s] EXCEPT !.closed = TRUE]
                                ELSE sub[s]]
    /\ UNCHANGED <<log, at>>

-----------------------------------------------------------------------------

\* The later runs of the chat: those after r in runOrder.
After(r) == {x \in Runs : \E i, j \in DOMAIN runOrder :
                i < j /\ runOrder[i] = r /\ runOrder[j] = x}

\* The frames of a ring after the one with number seq.
NewerThan(q, seq) == FoldLeft(LAMBDA p, f : IF f.seq > seq THEN Append(p, f) ELSE p, <<>>, q)

\* The loop over runOrder of replay() and SubscribeActive: piece[x] is what is
\* offered of run x.
InOrder(piece) == FoldLeft(LAMBDA q, x : q \o piece[x], <<>>, runOrder)

\* Mutant: the resumed run itself is replayed, the later ones are not.
BacklogOfRunOnly(r, seq) == NewerThan(ring[r], seq)

\* What replay() offers: the rest of the run, and every later run.
Backlog(r, seq) ==
    InOrder([x \in Runs |-> IF x = r THEN NewerThan(ring[r], seq)
                            ELSE IF x \in After(r) THEN ring[x] ELSE <<>>])

\* Why replay() cannot resume after frame seq of run r ("" when it can).
Refused(r, seq) ==
    CASE phase[r] \notin {"live", "ended"} \/ seq >= NextSeq(r) -> "unknown_run"
      [] seq + 1 < ring[r][1].seq
           \/ \E x \in After(r) : ring[x][1].seq > 1 -> "evicted"
      [] OTHER -> ""

Opened == [NewSub EXCEPT !.used = TRUE]

\* How much of log a reader has that saw frame seq of run r last.
Position(r, seq) ==
    Cardinality({i \in DOMAIN log :
        \E j \in i..Len(log) : log[j].run = r /\ log[j].seq = Max({seq, 1})})
      - (IF seq = 0 THEN 1 ELSE 0)

\* Hub.Subscribe with a Last-Event-ID.
Subscribe(s, r, seq) ==
    /\ ~sub[s].used
    /\ sub' = [sub EXCEPT ![s] =
                 IF closed THEN [Opened EXCEPT !.closed = TRUE]
                   ELSE IF Refused(r, seq) # "" THEN Overflow(Opened, Refused(r, seq))
                   ELSE [OfferAll(Opened, Backlog(r, seq)) EXCEPT !.attached = TRUE]]
    /\ at' = [at EXCEPT ![s] = IF sub'[s].attached THEN Position(r, seq) ELSE Len(log)]
    /\ UNCHANGED <<closed, phase, runOrder, ring, log>>

\* A run that SubscribeActive replays: still in flight, its start not evicted.
Replayable(r) == phase[r] = "live" /\ ring[r][1].seq = 1

\* Hub.Subscribe without a position: the live edge.
SubscribeLive(s) ==
    /\ ~sub[s].used
    /\ sub' = [sub EXCEPT ![s] = [Opened EXCEPT !.closed = closed, !.attached = ~closed]]
    /\ at' = [at EXCEPT ![s] = Len(log)]
    /\ UNCHANGED <<closed, phase, runOrder, ring, log>>

\* Hub.SubscribeActive: the runs in flight are replayed from their start.
SubscribeActive(s) ==
    LET back == InOrder([x \in Runs |-> IF Replayable(x) THEN ring[x] ELSE <<>>]) IN
    /\ ~sub[s].used
    /\ sub' = [sub EXCEPT ![s] =
                 IF closed THEN [Opened EXCEPT !.closed = TRUE]
                   ELSE [OfferAll(Opened, back) EXCEPT !.attached = TRUE]]
    /\ at' = [at EXCEPT ![s] = Len(log) - Len(back)]
    /\ UNCHANGED <<closed, phase, runOrder, ring, log>>

\* Subscription.Next returns a frame (io.EOF and idling change nothing).
TakeFrame(s) ==
    /\ sub[s].queue # <<>>
    /\ sub' = [sub EXCEPT ![s].queue = Tail(@)]
    /\ at' = [at EXCEPT ![s] = IF Head(sub[s].queue) \in Overflows THEN @ ELSE @ + 1]
    /\ UNCHANGED <<closed, phase, runOrder, ring, log>>

\* Subscription.Close
CloseSub(s) ==
    /\ sub[s].used
    /\ sub' = [sub EXCEPT ![s] = [queue |-> <<>>, closed |-> TRUE,
                                  attached |-> FALSE, used |-> TRUE]]
    /\ UNCHANGED <<closed, phase, runOrder, ring, log, at>>

HubNext ==
    \/ \E r \in Runs :
          \/ \E size \in Sizes : Publish(r, size)
          \/ EndRun(r)
          \/ PurgeRun(r)
    \/ CloseHub

Next ==
    \/ HubNext
    \/ \E s \in Subs :
          \/ SubscribeLive(s)
          \/ SubscribeActive(s)
          \/ \E r \in Runs, seq \in 0..MaxFrames : Subscribe(s, r, seq)
          \/ TakeFrame(s)
          \/ CloseSub(s)

Spec == Init /\ [][Next]_vars

-----------------------------------------------------------------------------
(* Properties.                                                             *)

Overflowed(s) == \E i \in DOMAIN sub[s].queue : sub[s].queue[i] \in Overflows

\* N4, N5: a subscription is lossless or ends in overflow.  What an open
\* subscription has queued is exactly what was published after the position
\* its reader is at, across resumption, eviction, purged runs and the change
\* from one run of the chat to the next.
LosslessOrOverflow ==
    \A s \in Subs : sub[s].attached /\ ~sub[s].closed
                      => sub[s].queue = SubSeq(log, at[s] + 1, Len(log))

\* A subscription that ended still owes its reader no hole: what is left in
\* its queue is either the overflow notice alone or the frames that come next.
EndsWithoutHole ==
    \A s \in Subs : sub[s].closed /\ sub[s].queue # <<>>
        => \/ Len(sub[s].queue) = 1 /\ Overflowed(s)
           \/ sub[s].queue = SubSeq(log, at[s] + 1, at[s] + Len(sub[s].queue))
=============================================================================
