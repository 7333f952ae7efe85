----------------------------- MODULE ModelStream -----------------------------
(***************************************************************************)
(* One model turn: the request (openai.go, anthropic.go, ollama.go), the   *)
(* goroutine that turns the provider's stream into deltas, one state       *)
(* machine per dialect, the bounded channel of deltas, and the turn that   *)
(* drains it and decides which tool calls run (agents/run.go).  The stream *)
(* may end early, break, carry an error or be cut at the token limit, and  *)
(* the run may be cancelled at any moment.  A call is its number of        *)
(* fragments; the words of the answer are left out.                        *)
(***************************************************************************)
EXTENDS Naturals, Sequences, FiniteSets

CONSTANTS Indexes,   \* indexes of tool calls in one answer, 1..n
          Frags,     \* fragments a call's arguments arrive in
          ChanSize   \* bound of the channel of deltas

ASSUME ModelStreamAssumption ==
  IsFiniteSet(Indexes) /\ Indexes \subseteq Nat \ {0} /\ Frags \in Nat \ {0}

VARIABLES provider,  \* "anthropic", "openai" or "compat"
          detected,  \* isOllama's cached answer: "unknown", "ollama", "generic"
          dialect,   \* what this turn's stream speaks
          frags,     \* fragments accumulated, by index
          block,     \* Anthropic: "none", "open" or "stopped", by index
          texts,     \* the text holds a call written out as text
          finish,    \* finish reason the stream gave
          marked,    \* [DONE], message_stop or done was seen
          cut,       \* the answer was cut: at the token limit, or by an early [DONE]
          reader,    \* "idle", "reading", "ending", "closed"
          out,       \* deltas the reader still has to send
          ch,        \* the channel
          cancelled, \* ctx is done
          got,       \* deltas the turn received
          result     \* turnResult.kind
mvars == <<provider, detected, dialect, frags, block, texts, finish, marked, cut,
           reader, out, ch, cancelled, got, result>>
answer == <<frags, block, texts, finish, marked, cut>>
request == <<provider, detected, dialect>>

Text == [type |-> "text"]
Usage == [type |-> "usage"]
Failure == [type |-> "error"]
Done(why) == [type |-> "done", why |-> why]
Call(i, n) == [type |-> "tool_call", index |-> i, frags |-> n]
TextCall == Call(0, Frags)

Started == {i \in Indexes : frags[i] > 0 \/ block[i] # "none"}
Whole == \A i \in Started : frags[i] = Frags

MInit == /\ provider \in {"anthropic", "openai", "compat"} /\ detected = "unknown"
         /\ dialect = "none" /\ reader = "idle" /\ result = "none" /\ cancelled = FALSE
         /\ frags = [i \in Indexes |-> 0] /\ block = [i \in Indexes |-> "none"]
         /\ texts = FALSE /\ finish = "" /\ marked = FALSE /\ cut = FALSE
         /\ out = <<>> /\ ch = <<>> /\ got = <<>>

\* isOllama: only a definite answer is remembered.
Detected(probe) ==
  IF detected # "unknown" THEN detected
  ELSE CASE probe = "version" -> "ollama" [] probe = "other" -> "generic" [] OTHER -> "unknown"

\* Complete: the dialect of the turn, and a request the provider may refuse.
Complete(probe, accepted) ==
  /\ reader = "idle" /\ result = "none"
  /\ detected' = IF provider = "compat" THEN Detected(probe) ELSE detected
  /\ dialect' = CASE provider = "anthropic" -> "anthropic"
                  [] provider = "compat" /\ detected' = "ollama" -> "ollama"
                  [] OTHER -> "openai"
  /\ reader' = IF accepted THEN "reading" ELSE "idle"
  /\ result' = IF accepted THEN "none" ELSE IF cancelled THEN "cancelled" ELSE "failed"
  /\ UNCHANGED <<provider, answer, out, ch, cancelled, got>>

-----------------------------------------------------------------------------
\* The reader takes the next event once the deltas of the last are sent.
Reads == reader = "reading" /\ out = <<>>
Streaming == Reads /\ finish = "" /\ ~marked

Fail == /\ reader' = "ending" /\ out' = IF cancelled THEN <<>> ELSE <<Failure>>

\* Text, in every dialect.
TextEvent(call) == /\ Streaming /\ Text \notin {got[i] : i \in 1..Len(got)} \cup {ch[i] : i \in 1..Len(ch)}
                   /\ out' = <<Text>> /\ texts' = (texts \/ call)
                   /\ UNCHANGED <<request, frags, block, finish, marked, cut, reader, ch, cancelled, got, result>>

\* OpenAI: a fragment belongs to the call of its index.
OpenAIFragment(i) ==
  /\ dialect = "openai" /\ Streaming /\ frags[i] < Frags
  /\ frags' = [frags EXCEPT ![i] = @ + 1]
  /\ UNCHANGED <<request, block, texts, finish, marked, cut, reader, out, ch, cancelled, got, result>>

\* Anthropic: blocks start, grow and stop; a call leaves when its block stops.
BlockStart(i) ==
  /\ dialect = "anthropic" /\ Streaming /\ ~cut /\ block[i] = "none"
  /\ block' = [block EXCEPT ![i] = "open"]
  /\ UNCHANGED <<request, frags, texts, finish, marked, cut, reader, out, ch, cancelled, got, result>>
BlockDelta(i) ==
  /\ dialect = "anthropic" /\ Streaming /\ ~cut /\ block[i] = "open" /\ frags[i] < Frags
  /\ frags' = [frags EXCEPT ![i] = @ + 1]
  /\ UNCHANGED <<request, block, texts, finish, marked, cut, reader, out, ch, cancelled, got, result>>
BlockStop(i) ==
  /\ dialect = "anthropic" /\ Streaming /\ block[i] = "open"
  /\ block' = [block EXCEPT ![i] = "stopped"] /\ out' = <<Call(i, frags[i])>>
  /\ cut' = (cut \/ frags[i] < Frags)
  /\ UNCHANGED <<request, frags, texts, finish, marked, reader, ch, cancelled, got, result>>

\* Ollama: a call comes whole.
OllamaCall(i) ==
  /\ dialect = "ollama" /\ Streaming /\ frags[i] = 0
  /\ frags' = [frags EXCEPT ![i] = Frags] /\ out' = <<Call(i, Frags)>>
  /\ UNCHANGED <<request, block, texts, finish, marked, cut, reader, ch, cancelled, got, result>>

\* The reason an honest server gives: the token limit, or the end of the answer.
Reasons == IF Whole /\ ~cut /\ \A i \in Indexes : block[i] # "open"
             THEN {"length", IF Started = {} THEN "stop" ELSE "tool_use"}
           ELSE IF \A i \in Indexes : block[i] # "open" THEN {"length"} ELSE {}

\* finish_reason, or message_delta with a stop reason.
FinishReason(r) ==
  /\ dialect # "ollama" /\ Streaming /\ r \in Reasons
  /\ finish' = r /\ cut' = (cut \/ r = "length")
  /\ UNCHANGED <<request, frags, block, texts, marked, reader, out, ch, cancelled, got, result>>

\* [DONE] or message_stop.  OpenAI's servers may leave out the reason.
EndMark == /\ dialect # "ollama" /\ Reads /\ ~marked /\ marked' = TRUE
           /\ finish # "" \/ dialect = "openai"
           /\ cut' = (cut \/ ~Whole)
           /\ UNCHANGED <<request, frags, block, texts, finish, reader, out, ch, cancelled, got, result>>

Used == {<<>>, <<Usage>>}
\* Calls recovered from the text, when there is no other.
Recovered == IF Started = {} /\ texts THEN <<TextCall>> ELSE <<>>
Why(calls) == IF calls # <<>> THEN "tool_use"
              ELSE IF finish = "length" THEN "max_tokens" ELSE "stop"

\* OpenAI's calls leave in the order of their indexes.
Sorted(S) == {order \in [1..Cardinality(S) -> S] :
                \A m, n \in 1..Cardinality(S) : m < n => order[m] < order[n]}
OpenAICalls(order) == [n \in 1..Len(order) |-> Call(order[n], frags[order[n]])] \o Recovered
\* What it says last: the calls, the usage if it came, and the end.
Collected(u, order) == OpenAICalls(order) \o u \o <<Done(Why(OpenAICalls(order)))>>

\* Mutant: a stream that stopped short counts as finished.
EofIsDone ==
  /\ Reads /\ dialect # "ollama"
  /\ \E u \in Used, order \in Sorted(Started) :
       CASE dialect = "openai" -> out' = Collected(u, order)
         [] marked -> out' = <<Usage, Done(IF finish = "length" THEN "max_tokens" ELSE finish)>>
         [] OTHER -> out' = IF cancelled THEN <<>> ELSE <<Failure>>
  /\ reader' = "ending"
  /\ UNCHANGED <<request, answer, ch, cancelled, got, result>>

\* The body ends: the calls OpenAI collected, the usage and the end; or a
\* failure, when no finish reason and no end mark was seen.
Eof ==
  /\ Reads
  /\ CASE dialect = "openai" /\ (finish # "" \/ marked) ->
            /\ \E u \in Used, order \in Sorted(Started) : out' = Collected(u, order)
            /\ reader' = "ending"
       [] dialect = "anthropic" /\ marked ->
            /\ out' = <<Usage, Done(IF finish = "length" THEN "max_tokens" ELSE finish)>>
            /\ reader' = "ending"
       [] OTHER -> Fail
  /\ UNCHANGED <<request, answer, ch, cancelled, got, result>>

\* Mutant: the reader goes on to the end of the body after "done".
DoneReadsOn(r) ==
  /\ dialect = "ollama" /\ Streaming /\ r \in Reasons
  /\ finish' = r /\ cut' = (r = "length")
  /\ \E u \in Used : out' = Recovered \o u \o
       <<Done(IF Started # {} \/ Recovered # <<>> THEN "tool_use"
              ELSE IF r = "length" THEN "max_tokens" ELSE "stop")>>
  /\ UNCHANGED <<request, frags, block, texts, marked, reader, ch, cancelled, got, result>>

\* Ollama: the line that says done ends the stream.
OllamaDone(r) ==
  /\ dialect = "ollama" /\ Streaming /\ r \in Reasons
  /\ finish' = r /\ cut' = (r = "length") /\ reader' = "ending"
  /\ \E u \in Used : out' = Recovered \o u \o
       <<Done(IF Started # {} \/ Recovered # <<>> THEN "tool_use"
              ELSE IF r = "length" THEN "max_tokens" ELSE "stop")>>
  /\ UNCHANGED <<request, frags, block, texts, marked, ch, cancelled, got, result>>

\* A broken connection, an error event, or one that does not parse; a
\* cancelled request ends the read the same way.
ReadFails == Reads /\ Fail /\ UNCHANGED <<request, answer, ch, cancelled, got, result>>

-----------------------------------------------------------------------------
\* emitter.send: the delta goes into the channel, or the sender gives up.
Send == /\ out # <<>> /\ Len(ch) < ChanSize /\ ch' = Append(ch, Head(out)) /\ out' = Tail(out)
        /\ UNCHANGED <<request, answer, reader, cancelled, got, result>>
GiveUp == /\ out # <<>> /\ cancelled /\ out' = <<>> /\ reader' = "ending"
          /\ UNCHANGED <<request, answer, ch, cancelled, got, result>>
CloseChannel == /\ reader = "ending" /\ out = <<>> /\ reader' = "closed"
                /\ UNCHANGED <<request, answer, out, ch, cancelled, got, result>>

Cancel == /\ ~cancelled /\ cancelled' = TRUE /\ result = "none"
          /\ UNCHANGED <<request, answer, reader, out, ch, got, result>>

\* turn: the range over the channel ...
Receive == /\ ch # <<>> /\ got' = Append(got, Head(ch)) /\ ch' = Tail(ch)
           /\ UNCHANGED <<request, answer, reader, out, cancelled, result>>

Received(type) == {i \in 1..Len(got) : got[i].type = type}
CallsGot == {got[i] : i \in Received("tool_call")}
\* ... and what comes of it.
Conclude ==
  /\ reader = "closed" /\ ch = <<>> /\ result = "none"
  /\ result' = CASE cancelled -> "cancelled"
                 [] ~cancelled /\ Received("error") # {} -> "failed"
                 [] ~cancelled /\ Received("error") = {} /\ CallsGot # {}
                      /\ \E i \in Received("done") : got[i].why = "tool_use" -> "tools"
                 [] OTHER -> "done"
  /\ UNCHANGED <<request, answer, reader, out, ch, cancelled, got>>

\* The run's next turn, with the same provider.
NextTurn ==
  /\ result # "none" /\ reader' = "idle" /\ result' = "none" /\ cancelled' = FALSE
  /\ frags' = [i \in Indexes |-> 0] /\ block' = [i \in Indexes |-> "none"]
  /\ texts' = FALSE /\ finish' = "" /\ marked' = FALSE /\ cut' = FALSE
  /\ out' = <<>> /\ ch' = <<>> /\ got' = <<>> /\ UNCHANGED request

ReaderStep == \/ \E call \in BOOLEAN : TextEvent(call)
              \/ \E i \in Indexes : OpenAIFragment(i) \/ BlockStart(i) \/ BlockDelta(i)
                                    \/ BlockStop(i) \/ OllamaCall(i)
              \/ \E r \in {"length", "stop", "tool_use"} : FinishReason(r) \/ OllamaDone(r)
              \/ EndMark \/ Eof \/ ReadFails \/ Send \/ GiveUp \/ CloseChannel
MNext == \/ \E probe \in {"version", "other", "unreachable"}, ok \in BOOLEAN : Complete(probe, ok)
         \/ ReaderStep \/ Cancel \/ Receive \/ Conclude \/ NextTurn
MSpec == MInit /\ [][MNext]_mvars

-----------------------------------------------------------------------------
Over == result \in {"done", "tools", "failed", "cancelled"} /\ reader = "closed"
Ends == Received("done") \cup Received("error")

\* A stream ends with exactly one "done" or "error", after at most one usage,
\* and nothing follows it; only a cancelled one may just stop (the contract of
\* Delta, kept by stream, streamOllama, emitter.send and emitter.fail).
EndsOnce ==
  Over => /\ Cardinality(Ends) <= 1 /\ (cancelled \/ Ends # {})
          /\ Ends \subseteq {Len(got)} /\ Cardinality(Received("usage")) <= 1

\* A turn runs exactly the calls of the answer, each of them whole, and none
\* of an answer that failed, unless the answer was cut: by the token limit, or by
\* a [DONE] in the middle of a call (stream, streamOllama, recoverTextToolCalls,
\* turn).
CallsAsSent ==
  Over /\ result \in {"done", "tools"} /\ ~cut =>
    LET run == IF result = "tools" THEN CallsGot ELSE {} IN
    run = IF Started = {} THEN (IF texts /\ dialect # "anthropic" THEN {TextCall} ELSE {})
          ELSE {Call(i, Frags) : i \in Started}
=============================================================================
