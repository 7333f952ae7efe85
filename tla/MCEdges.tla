------------------------------ MODULE MCEdges ------------------------------
(***************************************************************************)
(* Small instances of the modules about what an agent may reach and what   *)
(* the hub says to others: the agents' grants, the catalog and the gauges  *)
(* derived from the registry, the frames of a server's sessions, and the   *)
(* requests and streams of a model provider.  They share no state, so one  *)
(* run explores each by itself: part says which one moves.                 *)
(***************************************************************************)
EXTENDS AgentTree, Catalog, Topology, SessionPipe, Prompting, ModelStream, TLC

VARIABLE part
allvars == <<vars, cvars, tvars, pipe, promptvars, mvars, part>>

\* Two fields of two values.  The root may use everything but one server of one
\* client.
Pat(l, s) == ("label" :> l) @@ ("server" :> s)
Row(p, allowed, source) == [pat |-> p, allowed |-> allowed, source |-> source]
McFields == {"label", "server"}
McRootRows == {Row(Pat(Wild, Wild), TRUE, "explicit"), Row(Pat("x", "y"), FALSE, "human")}
McAsks == {Nil, {Row(Pat("x", Wild), TRUE, "inherited")},
           {Row(Pat(Wild, "y"), TRUE, "inherited"), Row(Pat("y", Wild), FALSE, "inherited")}}
McEditPats == {Pat("x", Wild), Pat("y", "y")}

\* One server with a project, one without, names that join alike with and without
\* a project, and names that join alike because one ends with "_".
X == <<"x">>
Y == <<"y">>
Z == <<"z">>
McServerNames == {X, Y, <<"x", "_">>}
McToolNames == {Z, Join(Y, Z), <<"_", "z">>}
Plain == [project |-> <<>>, tools |-> {Z, Join(Y, Z)}]
Inner == [project |-> <<X>>, tools |-> {Z, Join(Y, Z)}]
McConfigs == {[label |-> <<"a">>, servers |-> (X :> Plain) @@ (Y :> Inner)],
              [label |-> <<"a">>, servers |-> X :> Inner],
              [label |-> <<"b">>, servers |-> (X :> [Plain EXCEPT !.tools = {Z, <<"_", "z">>}])
                                              @@ (<<"x", "_">> :> [Plain EXCEPT !.tools = {Z}])]}
McPaths == LET pairs == {<<"project", X>>, <<"server", X>>, <<"server", Y>>} IN
           {<<>>} \cup ({<<"a">>, <<"b">>} \X ({<<>>} \cup {<<p>> : p \in pairs}
                                              \cup {<<p, q>> : p \in pairs, q \in pairs}))

\* Answers with text, with thinking that is signed or not, and with calls of two
\* tools or of one, whose ids are those of the answer before.
Thinks(n, s) == [type |-> "thinking", size |-> 1, at |-> n, signed |-> s]
Calls(i, f, n) == [id |-> i, name |-> f, at |-> n]
McTurns == {[blocks |-> <<TextBlock(1)>>, calls |-> <<>>],
            [blocks |-> <<Thinks(0, FALSE)>>, calls |-> <<>>],
            [blocks |-> <<Thinks(0, TRUE), Thinks(2, TRUE)>>,
             calls |-> <<Calls("call_0", "f", 1), Calls("call_1", "g", 3)>>],
            [blocks |-> <<>>, calls |-> <<Calls("call_0", "f", 0), Calls("call_1", "f", 1)>>],
            [blocks |-> <<>>, calls |-> <<Calls("call_0", "f", 0)>>],
            [blocks |-> <<>>, calls |-> <<Calls("call_0", "g", 0)>>]}
McOutputs == {<<1>>, <<4>>, <<9>>, <<4, 5>>}
McToolset == <<[size |-> 1, bad |-> FALSE], [size |-> 5, bad |-> TRUE]>>
NoWindow == [declared |-> 0, setting |-> 0, shown |-> 0, chat |-> 0]
McWindows == {NoWindow, [NoWindow EXCEPT !.shown = 40],
              [NoWindow EXCEPT !.declared = 30, !.setting = 20, !.chat = 14],
              [NoWindow EXCEPT !.setting = 16, !.shown = 8]}

\* The parts that do not move begin in one state.
McInit == /\ Init /\ CInit /\ TInit /\ PipeInit /\ PromptInit /\ MInit
          /\ part \in {"grants", "catalog", "gauges", "frames", "prompts", "streams"}
          /\ part # "catalog" => path = <<>>
          /\ part # "prompts" => window = NoWindow
          /\ part # "streams" => provider = "openai"
McNext ==
    \/ part = "grants" /\ Next /\ UNCHANGED <<cvars, tvars, pipe, promptvars, mvars, part>>
    \/ part = "catalog" /\ CNext /\ UNCHANGED <<vars, tvars, pipe, promptvars, mvars, part>>
    \/ part = "gauges" /\ TNext /\ UNCHANGED <<vars, cvars, pipe, promptvars, mvars, part>>
    \/ part = "frames" /\ PipeNext /\ UNCHANGED <<vars, cvars, tvars, promptvars, mvars, part>>
    \/ part = "prompts" /\ PromptNext /\ UNCHANGED <<vars, cvars, tvars, pipe, mvars, part>>
    \/ part = "streams" /\ MNext /\ UNCHANGED <<vars, cvars, tvars, pipe, promptvars, part>>
McSpec == McInit /\ [][McNext]_allvars
=============================================================================
