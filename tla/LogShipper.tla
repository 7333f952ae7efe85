----------------------------- MODULE LogShipper -----------------------------
(***************************************************************************)
(* The Loki exporter (loki/loki.go).  Any goroutine emits; one pusher,     *)
(* woken by a tick, by a full batch or by Close, takes batches off the     *)
(* bounded queue and posts each once; Close waits for its last drain no    *)
(* longer than its budget, then counts what is left as dropped, while a    *)
(* wedged post may still be under way.                                     *)
(***************************************************************************)
EXTENDS Naturals, Sequences

CONSTANTS Events,     \* events, each emitted once
          BatchSize,  \* entries per push
          QueueSize   \* bound of the backlog

ASSUME ShipperAssumption == BatchSize \in Nat \ {0} /\ QueueSize \in Nat \ {0}

VARIABLES queue,    \* Exporter.queue
          batch,    \* what the pusher is posting
          posted,   \* entries of the posts known to have been accepted by Loki
          dropped,  \* what CountLokiDropped was told of
          wake,     \* the wake channel holds a token
          pusher,   \* run(): "off", "select", "drain", "parting", "done"
          closing,  \* Close(): "open", "closed", "returned"
          failing, warnings
lvars == <<queue, batch, posted, dropped, wake, pusher, closing, failing, warnings>>

Ledger == INSTANCE EventLedger
            WITH Capacity <- QueueSize + BatchSize, pending <- batch \o queue,
                 shipped <- posted, lost <- dropped

InSeq(q) == {q[i] : i \in 1..Len(q)}
Emitted == InSeq(queue) \cup InSeq(batch) \cup InSeq(posted) \cup dropped
CloseCalled == closing # "open"

SInit == /\ queue = <<>> /\ batch = <<>> /\ posted = <<>> /\ dropped = {}
         /\ wake = FALSE /\ pusher = "off" /\ closing = "open"
         /\ failing = FALSE /\ warnings = 0

\* Start, once, on an exporter that is not closed.
StartPusher == /\ pusher = "off" /\ ~CloseCalled /\ pusher' = "select"
               /\ UNCHANGED <<queue, batch, posted, dropped, wake, closing, failing, warnings>>

\* Emit: never blocks; a full or closed exporter drops the new event.
Emit(e) ==
  /\ e \notin Emitted
  /\ IF CloseCalled \/ Len(queue) >= QueueSize
       THEN dropped' = dropped \cup {e} /\ UNCHANGED <<queue, wake>>
       ELSE /\ queue' = Append(queue, e) /\ UNCHANGED dropped
            /\ wake' = (wake \/ Len(queue) + 1 >= BatchSize)
  /\ UNCHANGED <<batch, posted, pusher, closing, failing, warnings>>

\* Mutant: only a full batch wakes the pusher.
WakenedByBatch(stop) ==
  /\ pusher = "select"
  /\ \/ ~stop /\ wake /\ pusher' = "drain" /\ wake' = FALSE
     \/ stop /\ CloseCalled /\ pusher' = "parting" /\ UNCHANGED wake
  /\ UNCHANGED <<queue, batch, posted, dropped, closing, failing, warnings>>

\* The select of run(): a tick or a wake starts a drain, stop the last one.
Wakened(stop) ==
  /\ pusher = "select"
  /\ \/ ~stop /\ pusher' = "drain" /\ wake' \in {wake, FALSE}
     \/ stop /\ CloseCalled /\ pusher' = "parting" /\ UNCHANGED wake
  /\ UNCHANGED <<queue, batch, posted, dropped, closing, failing, warnings>>

Draining == pusher \in {"drain", "parting"}
DrainOver == pusher' = IF pusher = "parting" THEN "done" ELSE "select"

\* drain(): the oldest entries leave the queue; an empty queue ends it.
TakeBatch ==
  LET n == IF Len(queue) < BatchSize THEN Len(queue) ELSE BatchSize IN
  /\ Draining /\ batch = <<>>
  /\ IF queue = <<>> THEN DrainOver /\ UNCHANGED <<queue, batch>>
     ELSE /\ batch' = SubSeq(queue, 1, n) /\ queue' = SubSeq(queue, n + 1, Len(queue))
          /\ UNCHANGED pusher
  /\ UNCHANGED <<posted, dropped, wake, closing, failing, warnings>>

\* ... as does, in the last drain, the end of its budget.
OutOfTime == /\ pusher = "parting" /\ batch = <<>> /\ pusher' = "done"
             /\ UNCHANGED <<queue, batch, posted, dropped, wake, closing, failing, warnings>>

\* post(): one attempt.  A failure drops the batch, and warns once per outage;
\* so does a reply that is lost, although Loki may have taken the batch.
PostBatch(ok) ==
  /\ batch # <<>> /\ batch' = <<>>
  /\ posted' = IF ok THEN posted \o batch ELSE posted
  /\ dropped' = IF ok THEN dropped ELSE dropped \cup InSeq(batch)
  /\ failing' = ~ok /\ warnings' = IF ~ok /\ ~failing THEN warnings + 1 ELSE warnings
  /\ UNCHANGED <<queue, wake, pusher, closing>>

\* Close: no event is taken any more, and the pusher is told.
Close == /\ closing = "open" /\ closing' = "closed"
         /\ UNCHANGED <<queue, batch, posted, dropped, wake, pusher, failing, warnings>>

\* Mutant: what is left when Close gives up is forgotten, not counted.
CloseForgets == /\ closing = "closed" /\ closing' = "returned" /\ queue' = <<>>
                /\ UNCHANGED <<batch, posted, dropped, wake, pusher, failing, warnings>>

\* Close returns when the pusher is done, was never started, or its budget is
\* over; the rest of the queue is lost and counted.
CloseReturns == /\ closing = "closed" /\ closing' = "returned"
                /\ dropped' = dropped \cup InSeq(queue) /\ queue' = <<>>
                /\ UNCHANGED <<batch, posted, wake, pusher, failing, warnings>>

PusherStep == \/ \E stop \in BOOLEAN : Wakened(stop)
              \/ TakeBatch \/ OutOfTime \/ \E ok \in BOOLEAN : PostBatch(ok)
SNext == \/ StartPusher \/ Close \/ CloseReturns \/ PusherStep
         \/ \E e \in Events : Emit(e)

\* The ticker ticks and a post ends, by its own timeout; once stop is closed a
\* select that keeps coming up takes it sooner or later; Close has a budget.
SFairness == /\ WF_lvars(PusherStep) /\ SF_lvars(Wakened(TRUE)) /\ WF_lvars(CloseReturns)
SSpec == SInit /\ [][SNext]_lvars /\ SFairness

-----------------------------------------------------------------------------
\* The exporter is a bounded queue that ships in order, at most once, and
\* counts every event it does not ship (Emit, drain, post, Close).
ShipsOnce == Ledger!LSpec

Distinct(q) == \A i, j \in 1..Len(q) : q[i] = q[j] => i = j
\* No event is posted twice, and none is both known to be accepted and counted
\* as dropped, although Close counts what is left while a post is under way
\* (a consequence of ShipsOnce).
NoneTwice == Distinct(posted) /\ InSeq(posted) \cap dropped = {}

\* Once events stop, and the pusher was started or Close called, every event
\* has been shipped or counted as dropped, whatever Loki does and whenever
\* Close is called (run, drain, Close).
Accounted == <>[](pusher # "off" \/ CloseCalled => Emitted = InSeq(posted) \cup dropped)
=============================================================================
