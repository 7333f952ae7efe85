------------------------------ MODULE Prompting ------------------------------
(***************************************************************************)
(* How a conversation becomes the request of a model provider: tool        *)
(* results are capped (agents/toolcap.go), then written the way each       *)
(* provider wants them (llm/openai.go, anthropic.go, ollama.go), and for   *)
(* Ollama first made to fit the context window (llm/fitwindow.go).         *)
(* A text is its length; pictures, which count for nothing, are left out.   *)
(***************************************************************************)
EXTENDS Naturals, Sequences, SequencesExt, FiniteSetsExt

CONSTANTS Says,     \* lengths of what a person writes
          Turns,    \* what a model may answer: [blocks, calls]
          Outputs,  \* what a tool may return: lengths of its texts
          Toolset,    \* tools on offer: [size, bad]
          System,   \* length of the system prompt
          Windows,  \* [declared, setting, shown, chat]: sources of num_ctx, 0 for none
          AutoCap,  \* ollamaAutoCtxCap, in characters like every window here
          ResultMax, HeadTail, \* toolResultMaxChars, and the least that headTail keeps
          OldKeep, LatestMin, Allowance, Marker, \* of fitwindow.go; Marker: a note's length
          MaxLen    \* bound of the model: messages

ASSUME PromptAssumption ==
  /\ System \in Nat /\ AutoCap \in Nat /\ ResultMax \in Nat /\ HeadTail \in Nat
  /\ OldKeep \in Nat /\ LatestMin \in Nat
  /\ Allowance \in Nat /\ Marker \in 0..Allowance \* there is room for a note
  /\ Says \subseteq Nat /\ Outputs \subseteq Seq(Nat)
  /\ Len(Toolset) \in Nat /\ DOMAIN Toolset = 1..Len(Toolset)
  /\ \A i \in DOMAIN Toolset : Toolset[i].size \in Nat /\ Toolset[i].bad \in BOOLEAN
  /\ Windows \subseteq [declared : Nat, setting : Nat, shown : Nat, chat : Nat]
  /\ \A t \in Turns : /\ t.blocks \in Seq([type : {"text", "thinking"}, size : Nat,
                                          at : Nat, signed : BOOLEAN])
                      /\ Len(t.calls) \in Nat /\ DOMAIN t.calls = 1..Len(t.calls)
                      \* Calls come in the order of their places, and each
                      \* has an id of its own within the answer.
                      /\ \A i, j \in DOMAIN t.calls :
                           /\ t.calls[i].at \in Nat
                           /\ i <= j => t.calls[i].at <= t.calls[j].at
                           /\ t.calls[i].id = t.calls[j].id => i = j

VARIABLES prompt, window, sent
promptvars == <<prompt, window, sent>>

Nothing == [provider |-> "none", msgs |-> <<>>, body |-> <<>>]
PromptInit == prompt = <<>> /\ window \in Windows /\ sent = Nothing

SumOf(s) == LET upto[i \in 0..Len(s)] == IF i = 0 THEN 0 ELSE upto[i - 1] + s[i]
            IN  upto[Len(s)]
Map(op(_), s) == [i \in DOMAIN s |-> op(s[i])]

-----------------------------------------------------------------------------
(* The conversation.                                                       *)

Msg(role, blocks, calls, results) ==
    [role |-> role, blocks |-> blocks, calls |-> calls, results |-> results]
TextBlock(n) == [type |-> "text", size |-> n, at |-> 0, signed |-> FALSE]

\* capBlocks: the texts share the maximum in order, and each that is cut keeps
\* at least HeadTail characters and a note.
CapBlocks(texts) ==
    LET left[i \in 0..Len(texts)] ==
            IF i = 0 THEN ResultMax
            ELSE IF texts[i] <= left[i - 1] THEN left[i - 1] - texts[i] ELSE 0
        kept(i) == IF left[i - 1] < HeadTail THEN HeadTail ELSE left[i - 1]
    IN IF SumOf(texts) <= ResultMax THEN texts
       ELSE [i \in DOMAIN texts |->
               IF texts[i] <= left[i - 1] \/ texts[i] <= kept(i) THEN texts[i]
               ELSE kept(i) + Marker]

Say(n) == /\ Len(prompt) < MaxLen
          /\ prompt' = Append(prompt, Msg("user", <<TextBlock(n)>>, <<>>, <<>>))
          /\ sent' = Nothing /\ UNCHANGED window
\* A hub message of the system kind.
Note == /\ Len(prompt) < MaxLen
        /\ prompt' = Append(prompt, Msg("system", <<TextBlock(1)>>, <<>>, <<>>))
        /\ sent' = Nothing /\ UNCHANGED window
\* The orders in which n calls may land: execTools runs them at once and stores
\* each result when it is there, and what repairToolPairs adds comes last.
Orders(n) == Bijection(1..n, 1..n)
Result(c, out) == Msg("tool", <<>>, <<>>, <<[id |-> c.id, texts |-> CapBlocks(out)]>>)
\* An answer and, as repairToolPairs sees to it, a result for each of its calls.
Answer(t, outs, order) ==
    /\ prompt # <<>> /\ Len(prompt) + 1 + Len(t.calls) <= MaxLen
    /\ prompt' = Append(prompt, Msg("assistant", t.blocks, t.calls, <<>>)) \o
                 [k \in DOMAIN t.calls |-> Result(t.calls[order[k]], outs[order[k]])]
    /\ sent' = Nothing /\ UNCHANGED window

-----------------------------------------------------------------------------
(* fitToWindow.                                                            *)

ResultChars(m) == SumOf(Map(LAMBDA r : SumOf(r.texts), m.results))
MessageChars(m) == SumOf(Map(LAMBDA b : b.size, m.blocks)) + Len(m.calls) + ResultChars(m)
\* sanitizeTools: what the provider would reject is not offered to the model.
SanitizeTools == Map(LAMBDA t : IF t.bad THEN 0 ELSE t.size, Toolset)
UsedChars(msgs) == System + SumOf(SanitizeTools) + SumOf(Map(MessageChars, msgs))

\* contextWindow and completeOllama: the models file, the setting, what the
\* model can do up to a limit; and never more than the chat's own budget.
Least(a, b) == IF a < b THEN a ELSE b
ContextWindow(w) ==
    LET own == IF w.declared > 0 THEN w.declared
               ELSE IF w.setting > 0 THEN w.setting ELSE Least(w.shown, AutoCap)
    IN IF w.chat > 0 /\ (own = 0 \/ w.chat < own) THEN w.chat ELSE own

ShrunkText(n, keep) == IF n <= keep THEN n ELSE keep + Marker
Shrink(m, keep) ==
    [m EXCEPT !.results = Map(LAMBDA r : [r EXCEPT !.texts =
                                  Map(LAMBDA n : ShrunkText(n, keep), @)], @)]
LastTool(msgs) == SelectLastInSeq(msgs, LAMBDA m : m.role = "tool")

\* Oldest first, sparing the latest result.
FitOld(msgs, budget) ==
    LET upto[i \in 0..Len(msgs)] ==
            IF i = 0 THEN msgs
            ELSE IF UsedChars(upto[i - 1]) > budget /\ msgs[i].role = "tool" /\ i # LastTool(msgs)
                   THEN [upto[i - 1] EXCEPT ![i] = Shrink(@, OldKeep)]
            ELSE upto[i - 1]
    IN upto[Len(msgs)]

\* Mutant: the latest results are cut to what the whole prompt may be.
RoomForAll(msgs, budget) ==
    IF UsedChars(msgs) <= budget \/ LastTool(msgs) = 0 THEN msgs
    ELSE [msgs EXCEPT ![LastTool(msgs)] = Shrink(@, LatestMin + budget)]
\* Then the latest, to the room there is.
FitLatest(msgs, budget) ==
    LET last == LastTool(msgs)
        others == UsedChars(msgs) - ResultChars(msgs[last])
        room == IF budget >= others + Allowance THEN budget - others - Allowance ELSE 0
    IN IF UsedChars(msgs) <= budget \/ last = 0 THEN msgs
       ELSE [msgs EXCEPT ![last] = Shrink(@, IF room > LatestMin THEN room ELSE LatestMin)]

FitToWindow(msgs, budget) ==
    IF budget = 0 \/ UsedChars(msgs) <= budget THEN msgs
    ELSE FitLatest(FitOld(msgs, budget), budget)

-----------------------------------------------------------------------------
(* The three formats.                                                      *)

\* openaiMessages: one tool message for each result.
OpenAIMessages(msgs) ==
    FlattenSeq(Map(LAMBDA m :
        IF m.role = "tool"
          THEN Map(LAMBDA r : [role |-> "tool", id |-> r.id], m.results)
          ELSE <<[role |-> m.role, calls |-> Map(LAMBDA c : c.id, m.calls)]>>, msgs))

\* names[id] after i messages: the last call of an id has given it its name.
CallsFor(m, id) == {c \in DOMAIN m.calls : m.calls[c].id = id}
\* Mutant: the first call of an id keeps the name for good.
FirstCall(msgs, i, id) ==
    LET m == msgs[Min({j \in 1..i : CallsFor(msgs[j], id) # {}})]
    IN m.calls[Max(CallsFor(m, id))]
NamedCall(msgs, i, id) ==
    LET m == msgs[Max({j \in 1..i : CallsFor(msgs[j], id) # {}})]
    IN m.calls[Max(CallsFor(m, id))]

\* ollamaMessages: a result bears the name of its tool, found by the call's id.
OllamaMessages(msgs) ==
    FlattenSeq([i \in DOMAIN msgs |->
         IF msgs[i].role = "tool"
           THEN Map(LAMBDA r : [role |-> "tool", name |-> NamedCall(msgs, i, r.id).name],
                    msgs[i].results)
           ELSE <<[role |-> msgs[i].role, calls |-> Map(LAMBDA c : c.name, msgs[i].calls)]>>])

\* anthBlocks: text that is not empty, thinking that is signed.
Replayed(b) == IF b.type = "text" THEN b.size > 0 ELSE b.signed
AnthBlocks(blocks) ==
    FlattenSeq(Map(LAMBDA b : IF Replayed(b) THEN <<b>> ELSE <<>>, blocks))
Use(c) == [type |-> "tool_use", id |-> c.id, at |-> c.at]
\* sort.SliceStable: each item behind the last that came no later.
Placed(items, x) ==
    LET k == Max({0} \cup {j \in DOMAIN items : items[j].at <= x.at})
    IN SubSeq(items, 1, k) \o <<x>> \o SubSeq(items, k + 1, Len(items))
\* anthAssistantBlocks: text, thinking and calls in the order they came in.
AssistantBlocks(m) ==
    LET items == AnthBlocks(m.blocks) \o Map(Use, m.calls)
        placed[i \in 0..Len(items)] ==
            IF i = 0 THEN <<>> ELSE Placed(placed[i - 1], items[i])
    IN placed[Len(items)]

\* anthropicMessages: results and what a person says next are one user message.
AppendUser(list, blocks) ==
    IF blocks = <<>> THEN list
    ELSE IF list # <<>> /\ Last(list).role = "user"
      THEN [list EXCEPT ![Len(list)].blocks = @ \o blocks]
    ELSE Append(list, [role |-> "user", blocks |-> blocks])
AppendMsg(list, m) ==
    CASE m.role = "system" -> list
      [] m.role = "user" -> AppendUser(list, AnthBlocks(m.blocks))
      [] m.role = "tool" ->
           AppendUser(list, Map(LAMBDA r : [type |-> "tool_result", id |-> r.id], m.results))
      [] OTHER -> IF AssistantBlocks(m) = <<>> THEN list
                  ELSE Append(list, [role |-> "assistant", blocks |-> AssistantBlocks(m)])
AnthropicMessages(msgs) ==
    LET list[i \in 0..Len(msgs)] ==
            IF i = 0 THEN <<>> ELSE AppendMsg(list[i - 1], msgs[i])
    IN list[Len(msgs)]

-----------------------------------------------------------------------------
SendPrompt(p) ==
    /\ prompt # <<>> /\ sent = Nothing
    /\ LET msgs == IF p = "ollama" THEN FitToWindow(prompt, ContextWindow(window)) ELSE prompt
       IN sent' = [provider |-> p, msgs |-> msgs,
                   body |-> CASE p = "openai" -> OpenAIMessages(msgs)
                              [] p = "ollama" -> OllamaMessages(msgs)
                              [] p = "anthropic" -> AnthropicMessages(msgs)]
    /\ UNCHANGED <<prompt, window>>

PromptNext == \/ \E n \in Says : Say(n)
              \/ Note
              \/ \E t \in Turns : \E outs \in [DOMAIN t.calls -> Outputs], order \in Orders(Len(t.calls)) :
                   Answer(t, outs, order)
              \/ \E p \in {"openai", "ollama", "anthropic"} : SendPrompt(p)
PromptSpec == PromptInit /\ [][PromptNext]_promptvars

-----------------------------------------------------------------------------
\* A prompt for Ollama is within the model's window and the chat's budget, or
\* every older result is down to OldKeep and the latest to LatestMin (or it has
\* several texts, each cut to the room for all); and nothing else has changed.
WithoutTexts(m) == [m EXCEPT !.results = Map(LAMBDA r : r.id, @)]
AllTexts(m) == UNION {ToSet(m.results[i].texts) : i \in DOMAIN m.results}
Floored(i) == LET last == LastTool(sent.msgs)
                  floor == IF i = last THEN LatestMin ELSE OldKeep
              IN \/ \A n \in AllTexts(sent.msgs[i]) : n <= floor + Marker
                 \/ i = last /\ \E j \in DOMAIN sent.msgs[i].results :
                                  Len(sent.msgs[i].results[j].texts) > 1
FitsOrFloored ==
    sent.provider = "ollama" =>
      /\ \A i \in DOMAIN prompt : WithoutTexts(sent.msgs[i]) = WithoutTexts(prompt[i])
      /\ \/ window.chat > 0 /\ UsedChars(sent.msgs) <= window.chat
         \/ window.chat = 0 /\ (ContextWindow(window) = 0 \/ UsedChars(sent.msgs) <= ContextWindow(window))
         \/ \A i \in DOMAIN prompt : Floored(i)

\* Right behind an answer come the results of its calls, one of each, in the
\* order they landed; and every provider gets a result as that of its own call,
\* by its id or, from Ollama, by the name of its tool (which does not tell two calls
\* of one tool apart). Anthropic gets no two user messages in a row, nor an
\* answer whose parts are not in the order they came in.
Follow(body, Says_(_)) ==
    /\ \A i \in DOMAIN body : body[i].role = "assistant" =>
         \E p \in Orders(Len(body[i].calls)) : \A k \in DOMAIN body[i].calls :
           /\ i + k \in DOMAIN body /\ body[i + k].role = "tool"
           /\ sent.msgs[i + k].results[1].id = sent.msgs[i].calls[p[k]].id
           /\ Says_(body[i + k]) = body[i].calls[p[k]]
    /\ \A i \in DOMAIN body : body[i].role = "tool" =>
          \E j \in 1..i - 1 : body[j].role = "assistant" /\ i <= j + Len(body[j].calls)
OfType(blocks, type) ==
    FlattenSeq(Map(LAMBDA b : IF b.type = type THEN <<b>> ELSE <<>>, blocks))
UsesIn(m) == OfType(m.blocks, "tool_use")
ResultsIn(m) == OfType(m.blocks, "tool_result")
Alternate(body) ==
    \A i \in DOMAIN body :
      /\ i > 1 => {body[i - 1].role, body[i].role} # {"user"}
      /\ body[i].role = "user" /\ ResultsIn(body[i]) # <<>> =>
           i > 1 /\ UsesIn(body[i - 1]) # <<>>
      /\ UsesIn(body[i]) # <<>> =>
           /\ i < Len(body) /\ Len(ResultsIn(body[i + 1])) = Len(UsesIn(body[i]))
           /\ \E p \in Orders(Len(UsesIn(body[i]))) : \A k \in 1..Len(UsesIn(body[i])) :
                /\ body[i + 1].blocks[k].type = "tool_result"
                /\ body[i + 1].blocks[k].id = UsesIn(body[i])[p[k]].id
      /\ body[i].role = "assistant" =>
           \A j \in 1..Len(body[i].blocks) - 1 : body[i].blocks[j].at <= body[i].blocks[j + 1].at
ResultsFollowCalls ==
    CASE sent.provider = "openai" -> Follow(sent.body, LAMBDA m : m.id)
      [] sent.provider = "ollama" -> Follow(sent.body, LAMBDA m : m.name)
      [] sent.provider = "anthropic" -> Alternate(sent.body)
      [] OTHER -> TRUE
=============================================================================
