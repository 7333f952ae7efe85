------------------------------- MODULE Catalog -------------------------------
(***************************************************************************)
(* The hub's MCP endpoints: which tools a consumer finds at the path it    *)
(* opened (mcpserver/scope.go, server.go) and which server and tool a name *)
(* it took from a listing is called on later (registry.ResolveTool), while *)
(* clients come back with other servers and sessions open and close.       *)
(* Names are sequences of characters: what "__" joins may itself begin or  *)
(* end with "_".                                                           *)
(***************************************************************************)
EXTENDS Naturals, Sequences, FiniteSets

CONSTANTS Links,       \* connections, each used once
          Chars,       \* what names are made of
          Configs,     \* what a client may declare: [label, servers], servers
                       \* from a server's name to its [project, tools]
          ServerNames, ToolNames,
          Paths,       \* what follows /mcp in the path a consumer opens
          MaxName      \* longest composed name

None == <<>>           \* no project, or a field of a path that was not named
NoConfig == [label |-> None, servers |-> <<>>]
Underscore == "_"
NameSeparator == <<Underscore, Underscore>>

\* ValidateName, which every hello has passed: of a label, a project and a server.
ValidName(n) == n \in Seq(Chars) /\ n # <<>> /\ \A i \in 1..Len(n) - 1 : <<n[i], n[i + 1]>> # NameSeparator

\* A project is None or one name; a path is a host and pairs after it.
ASSUME CatalogAssumption ==
  /\ Underscore \in Chars /\ ToolNames \subseteq Seq(Chars) /\ \A s \in ServerNames : ValidName(s)
  /\ NoConfig \notin Configs
  /\ \A c \in Configs : /\ ValidName(c.label) /\ DOMAIN c.servers \subseteq ServerNames
                       /\ \A s \in DOMAIN c.servers : LET d == c.servers[s] IN
                            /\ d.tools \subseteq ToolNames
                            /\ d.project \in Seq(Seq(Chars)) /\ Len(d.project) <= 1
                            /\ d.project # None => ValidName(d.project[1])
  /\ \A p \in Paths : p = None \/ Len(p[2]) \in Nat

VARIABLES up,      \* Registry.connections
          config,  \* what a connection declared
          phase,   \* a channel's session and tools, see Tools
          path,    \* the endpoint the consumer opened
          want,    \* the entry of a listing it will call
          steady,  \* nothing happened to that entry's server since
          picked,  \* what ResolveTool answered
          outcome  \* how the call ended
cvars == <<up, config, phase, path, want, steady, picked, outcome>>
consumer == <<path, want, picked, outcome>>

NoEntry  == [name |-> None]

\* SetSession and SetTools are two steps, when a session opens and when it
\* closes: "session" has no tools yet, "tools" has no session any more.
Ready(k, s)   == phase[k][s] \in {"session", "served"}
Declared(k)   == DOMAIN config[k].servers
Tools(k, s)   == IF phase[k][s] \in {"served", "tools"} THEN config[k].servers[s].tools ELSE {}
Place(k, s)   == [label |-> config[k].label, project |-> config[k].servers[s].project, server |-> s]

\* IterServers and Tools: every tool of every connected server.
IterTools == {x \in up \X ServerNames \X ToolNames :
                x[2] \in Declared(x[1]) /\ x[3] \in Tools(x[1], x[2])}

-----------------------------------------------------------------------------
Reach(scope, label) == [scope |-> scope, label |-> label, project |-> None, server |-> None]
NotFound == Reach("404", None)

\* One {keyword, value} pair narrows the target, a project before a server.
Narrow(t, pair) ==
  CASE pair[1] = "project" /\ t.scope = "host" ->
         [t EXCEPT !.project = <<pair[2]>>, !.scope = "project"]
    [] pair[1] = "server" /\ t.scope = "host" -> [t EXCEPT !.server = <<pair[2]>>, !.scope = "server"]
    [] pair[1] = "server" /\ t.scope = "project" ->
         [t EXCEPT !.server = <<pair[2]>>, !.scope = "project_server"]
    [] OTHER -> NotFound

\* parseTarget of a path without a host, or with one and pairs after it.
Target(p) ==
  LET upto[i \in 0..Len(p[2])] ==
        IF i = 0 THEN Reach("host", <<p[1]>>)
        ELSE Narrow(upto[i - 1], p[2][i])
  IN  IF p = None THEN Reach("all", None) ELSE upto[Len(p[2])]

Optional(field, value) == field = None \/ field = <<value>>

\* Target.matches, what a listing goes by.
TargetMatches(t, place) == /\ Optional(t.label, place.label) /\ Optional(t.server, place.server)
                           /\ (t.project = None \/ t.project = place.project)

\* Mutant: a path that names no project asks for the servers without one.
FilterNoProject(t, place) == /\ Optional(t.label, place.label) /\ Optional(t.server, place.server)
                             /\ t.project = place.project

\* Target.filter and Filter.matches, what a call goes by.
Filter(t, place) == /\ Optional(t.label, place.label) /\ Optional(t.server, place.server)
                    /\ (t.project = None \/ t.project = place.project)

\* ComposeToolName: the parts the scope leaves open; None when it is too long.
Join(part, rest) == part \o NameSeparator \o rest
Compose(scope, place, tool) ==
  LET served == Join(place.server, tool)
      hosted == IF place.project = None THEN served ELSE Join(place.project[1], served)
      name   == CASE scope \in {"server", "project_server"} -> tool
                  [] scope = "project" -> served
                  [] scope = "host" -> hosted
                  [] OTHER -> Join(place.label, hosted)
  IN  IF Len(name) > MaxName THEN None ELSE name

Entry(t, x) == [name |-> Compose(t.scope, Place(x[1], x[2]), x[3]),
                link |-> x[1], place |-> Place(x[1], x[2]), tool |-> x[3]]
Entries(t, S) == {e \in {Entry(t, x) : x \in S} : e.name # None}

-----------------------------------------------------------------------------
CInit == /\ up = {} /\ config = [k \in Links |-> NoConfig]
         /\ phase = [k \in Links |-> [s \in ServerNames |-> "none"]]
         /\ path \in {p \in Paths : Target(p) # NotFound} /\ want = NoEntry /\ steady = FALSE
         /\ picked = NoEntry /\ outcome = "none"

Wanted(k) == want # NoEntry /\ want.link = k
Lives(gone) == steady' = (steady /\ \A k \in gone : ~Wanted(k))

\* A hello: the label's old connection is out, its sessions close by and by.
Hello(k, c) ==
  LET old == {j \in up : config[j].label = c.label} IN
  /\ config[k] = NoConfig /\ config' = [config EXCEPT ![k] = c]
  /\ up' = (up \ old) \cup {k} /\ Lives(old) /\ UNCHANGED <<phase, consumer>>

\* A connection ends after its supervisors have stopped.
Leave(k) == /\ k \in up /\ \A s \in ServerNames : phase[k][s] = "none"
            /\ up' = up \ {k} /\ Lives({k}) /\ UNCHANGED <<config, phase, consumer>>

\* openSession and closeSession; a tools/list that fails leaves no tools.
Turn(k, s) ==
  /\ s \in Declared(k)
  /\ \E to \in CASE phase[k][s] = "none" -> {"session"}
                 [] phase[k][s] = "session" -> {"served", "none"}
                 [] phase[k][s] = "served" -> {"tools"}
                 [] OTHER -> {"none"} :
       phase' = [phase EXCEPT ![k][s] = to]
  /\ steady' = (steady /\ ~(Wanted(k) /\ want.place.server = s))
  /\ UNCHANGED <<up, config, consumer>>

\* listTools: of two tools with one name, either may be met first and stay.
ListTools ==
  LET t == Target(path) IN
  /\ \E e \in Entries(t, {x \in IterTools : Ready(x[1], x[2]) /\ TargetMatches(t, Place(x[1], x[2]))}) :
       want' = e
  /\ steady' = TRUE /\ picked' = NoEntry /\ outcome' = "none"
  /\ UNCHANGED <<up, config, phase, path>>

\* ResolveTool: the first server whose tool composes to the name, in any order.
ResolveTool ==
  LET t == Target(path)
      found == {e \in Entries(t, {x \in IterTools : Filter(t, Place(x[1], x[2]))}) :
                  e.name = want.name} IN
  /\ want # NoEntry /\ picked = NoEntry /\ outcome = "none"
  /\ IF found = {} THEN outcome' = "unknown" /\ UNCHANGED picked
     ELSE /\ \E e \in found : picked' = e
          /\ UNCHANGED outcome
  /\ UNCHANGED <<up, config, phase, path, want, steady>>

\* The dispatcher calls the channel's session, if it has one.
CallTool == /\ picked # NoEntry /\ outcome = "none"
            /\ outcome' = IF Ready(picked.link, picked.place.server) THEN "ran" ELSE "gone"
            /\ UNCHANGED <<up, config, phase, path, want, steady, picked>>

CNext == \/ \E k \in Links, c \in Configs : Hello(k, c)
         \/ \E k \in Links : Leave(k)
         \/ \E k \in Links, s \in ServerNames : Turn(k, s)
         \/ ListTools \/ ResolveTool \/ CallTool
CSpec == CInit /\ [][CNext]_cvars

-----------------------------------------------------------------------------
\* A label, project or server that ends as the separator begins: "x_", "__", "z"
\* and "x", "__", "_z" are one name.
Blurred(place) ==
  \/ place.label[Len(place.label)] = Underscore
  \/ place.server[Len(place.server)] = Underscore
  \/ place.project # None /\ place.project[1][Len(place.project[1])] = Underscore

\* A call runs where the endpoint reaches; unless a part of either name ends with
\* "_", it runs on the machine the listing named and runs the listed tool, or one
\* whose name reads the same when one has a project and the other has none.  A
\* name is unknown only after its server changed (listTools, callTool, parseTarget,
\* ComposeToolName, ResolveTool).
AnswersAsListed ==
  LET t == Target(path) IN
  /\ outcome = "ran" =>
       /\ TargetMatches(t, picked.place)
       /\ \/ Blurred(picked.place) \/ Blurred(want.place)
          \/ /\ picked.place.label = want.place.label
             /\ \/ picked.place.server = want.place.server /\ picked.tool = want.tool
                \/ t.scope \in {"all", "host"} /\ (picked.place.project = None) # (want.place.project = None)
  /\ outcome = "unknown" => ~steady
=============================================================================
