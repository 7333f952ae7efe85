------------------------------ MODULE AgentTree ------------------------------
(***************************************************************************)
(* The tree of agents and their grants: createAgent, SetGrant, UpdateAgent  *)
(* and DeleteAgent in hub/internal/agents/service_impl.go, toolSpawn in     *)
(* switchboard.go, and the transactions behind them in                     *)
(* hub/internal/store/sqlite_agents.go and sqlite_grants.go.               *)
(*                                                                         *)
(* Every store operation is one transaction.  Creating a child is several: *)
(* createAgent reads the parent, counts its children and reads its grants, *)
(* and only then inserts the child with the rows it derived.  A human may  *)
(* edit or delete in between.                                              *)
(***************************************************************************)
EXTENDS Grants, Integers, FiniteSets

CONSTANTS
    Agents,
    Root,         \* the agent that exists at the beginning
    RootRows,     \* and its grants
    Asks,         \* the grants a spawn asks for
    EditPats,     \* the patterns a human edits
    EditVerdicts, \* and to what
    Label,        \* the field that names the client
    MaxChildren,  \* AGENT_MAX_CHILDREN
    MaxDepth,     \* AGENT_MAX_DEPTH
    MaxEdits,     \* bound on edits by humans
    Nil

ASSUME AgentTreeAssumption ==
    /\ Root \in Agents
    /\ Table(RootRows)
    /\ Asks \subseteq (SUBSET Rows) \cup {Nil}
    /\ Label \in Fields
    /\ EditPats \subseteq Patterns /\ EditVerdicts \subseteq BOOLEAN
    /\ MaxChildren \in Nat /\ MaxDepth \in Nat /\ MaxEdits \in Nat

VARIABLES
    live,      \* agents that exist and are not deleted
    gone,      \* agents that were deleted
    parent,    \* agents.parent_id, which never changes
    anc,       \* its ancestors, which the store finds by a recursive query
    grants,    \* the grants table
    spawn,     \* a createAgent in progress: what it read and derived
    edits

vars == <<live, gone, parent, anc, grants, spawn, edits>>

TypeOK ==
    /\ live \subseteq Agents /\ gone \subseteq Agents \ live
    /\ parent \in [Agents -> Agents \cup {Nil}]
    /\ anc \in [Agents -> SUBSET Agents]
    /\ DOMAIN grants = Agents /\ \A a \in Agents : Table(grants[a])
    /\ DOMAIN spawn = Agents
    /\ \A c \in Agents : spawn[c] # Nil =>
          /\ spawn[c].parent \in Agents /\ spawn[c].ask \in Asks /\ spawn[c].derived \in BOOLEAN
          /\ Table(spawn[c].held) /\ Table(spawn[c].rows)
    /\ edits \in 0..MaxEdits

Init ==
    /\ live = {Root} /\ gone = {}
    /\ parent = [a \in Agents |-> Nil]
    /\ anc = [a \in Agents |-> {}]
    /\ grants = [a \in Agents |-> IF a = Root THEN RootRows ELSE {}]
    /\ spawn = [a \in Agents |-> Nil]
    /\ edits = 0

Descendants(a) == {d \in Agents : a \in anc[d]}
LiveChildren(p) == {c \in live : parent[c] = p}
Depth(a) == Cardinality(anc[a])

-----------------------------------------------------------------------------
(* Spawning.                                                               *)

\* createAgent checks that the parent is live and within the limits ...
CheckParent(c, p, ask) ==
    /\ c \notin live \cup gone /\ spawn[c] = Nil
    /\ p \in live
    /\ MaxDepth > 0 => Depth(p) + 1 <= MaxDepth
    /\ MaxChildren > 0 => Cardinality(LiveChildren(p)) < MaxChildren
    /\ spawn' = [spawn EXCEPT ![c] = [parent |-> p, ask |-> ask, derived |-> FALSE,
                                      held |-> {}, rows |-> {}]]
    /\ UNCHANGED <<live, gone, parent, anc, grants, edits>>

\* ... reads its grants, and derives the child's from them.
DeriveGrants(c) ==
    /\ spawn[c] # Nil /\ ~spawn[c].derived
    /\ LET held == grants[spawn[c].parent]
           req == IF spawn[c].ask = Nil THEN Everything(held) ELSE spawn[c].ask
       IN spawn' = [spawn EXCEPT ![c].derived = TRUE, ![c].held = held,
                                 ![c].rows = DeriveChildGrants(held, req)]
    /\ UNCHANGED <<live, gone, parent, anc, grants, edits>>

\* Mutant: the transaction does not look at the parent again.
InsertBlindly(c) ==
    /\ spawn[c] # Nil /\ spawn[c].derived
    /\ live' = live \cup {c}
    /\ parent' = [parent EXCEPT ![c] = spawn[c].parent]
    /\ anc' = [anc EXCEPT ![c] = anc[spawn[c].parent] \cup {spawn[c].parent}]
    /\ grants' = [grants EXCEPT ![c] = spawn[c].rows]
    /\ spawn' = [spawn EXCEPT ![c] = Nil]
    /\ UNCHANGED <<gone, edits>>

\* CreateAgent: the parent has to be live in the transaction, too.
InsertChild(c) ==
    /\ spawn[c] # Nil /\ spawn[c].derived
    /\ IF spawn[c].parent \in live
         THEN /\ live' = live \cup {c}
              /\ parent' = [parent EXCEPT ![c] = spawn[c].parent]
              /\ anc' = [anc EXCEPT ![c] = anc[spawn[c].parent] \cup {spawn[c].parent}]
              /\ grants' = [grants EXCEPT ![c] = spawn[c].rows]
         ELSE UNCHANGED <<live, parent, anc, grants>>
    /\ spawn' = [spawn EXCEPT ![c] = Nil]
    /\ UNCHANGED <<gone, edits>>

-----------------------------------------------------------------------------
(* Edits by a human.                                                       *)

Upsert(rows, row) == {g \in rows : g.pat # row.pat} \cup {row}

\* Mutant: all rows below are deleted, whoever made them.
RevokeAll(rows, pat) == {g \in rows : ~(g.allowed /\ Covers(pat, g.pat))}

\* revokeBelowTx (A14): inherited allows that the revoked pattern covers.
Revoke(rows, pat) ==
    {g \in rows : ~(g.allowed /\ g.source = "inherited" /\ Covers(pat, g.pat))}

SetGrant(a, pat, allowed) ==
    /\ edits < MaxEdits
    /\ a \in live
    /\ edits' = edits + 1
    /\ grants' = [d \in Agents |->
          IF d = a THEN Upsert(grants[a], [pat |-> pat, allowed |-> allowed, source |-> "human"])
          ELSE IF ~allowed /\ a \in anc[d] THEN Revoke(grants[d], pat)
          ELSE grants[d]]
    /\ UNCHANGED <<live, gone, parent, anc, spawn>>

\* setAgentClientTx (A24): the agent's grants become (client, *, *), or none,
\* and inherited allows for any other label are deleted below it.
SetClient(a, label) ==
    /\ edits < MaxEdits
    /\ a \in live
    /\ edits' = edits + 1
    /\ grants' = [d \in Agents |->
          IF d = a
            THEN IF label = Nil THEN {}
                   ELSE {[pat |-> [f \in Fields |-> IF f = Label THEN label ELSE Wild],
                          allowed |-> TRUE, source |-> "explicit"]}
          ELSE IF a \in anc[d]
            THEN {g \in grants[d] : ~(g.allowed /\ g.source = "inherited" /\ g.pat[Label] # label)}
          ELSE grants[d]]
    /\ UNCHANGED <<live, gone, parent, anc, spawn>>

\* SoftDeleteAgent takes the descendants along; HardDeleteAgent their rows, too.
DeleteAgent(a, hard) ==
    /\ edits < MaxEdits
    /\ a \in IF hard THEN live \cup gone ELSE live
    /\ edits' = edits + 1
    /\ LET all == {a} \cup Descendants(a) IN
       /\ live' = live \ all
       /\ gone' = gone \cup (live \cap all)
       /\ grants' = [d \in Agents |-> IF hard /\ d \in all THEN {} ELSE grants[d]]
    /\ UNCHANGED <<parent, anc, spawn>>

-----------------------------------------------------------------------------

Next ==
    \/ \E c, p \in Agents, ask \in Asks : CheckParent(c, p, ask)
    \/ \E c \in Agents : DeriveGrants(c) \/ InsertChild(c)
    \/ \E a \in Agents, pat \in EditPats, allowed \in EditVerdicts : SetGrant(a, pat, allowed)
    \/ \E a \in Agents, label \in {p[Label] : p \in EditPats} \cup {Nil} :
          label # Wild /\ SetClient(a, label)
    \/ \E a \in Agents, hard \in BOOLEAN : DeleteAgent(a, hard)

Spec == Init /\ [][Next]_vars

-----------------------------------------------------------------------------
(* Properties.                                                             *)

\* A12: "An agent can never grant a child more than it holds itself": whatever
\* a spawn asks for, wildcards and denies included, the rows derived for the
\* child permit no server that the parent's rows did not permit.
NoEscalation ==
    \A c \in Agents : spawn[c] # Nil =>
        \A ref \in Refs : Resolve(spawn[c].rows, ref) => Resolve(spawn[c].held, ref)

\* A1: a live agent hangs from a live agent, also when its parent is deleted
\* while it is being created.
NoOrphan == \A c \in live : parent[c] # Nil => parent[c] \in live

\* A13, A14: a step writes the grants of one agent; from all others it only
\* removes, and only allows they inherited from above.
NarrowingOnly ==
    [][\E a \in Agents : \A d \in (live \cap live') \ {a} :
          /\ grants'[d] \subseteq grants[d]
          /\ \A g \in grants[d] \ grants'[d] : g.allowed /\ g.source = "inherited"]_vars

OnlyInherited(d) == \A g \in grants[d] : g.source = "inherited"

\* A14, "Narrowing propagates": what a human takes from an agent, no descendant
\* with inherited grants only is left with.  Violated: the README says how.
NarrowingPropagates ==
    [][\A a \in live, pat \in EditPats : SetGrant(a, pat, FALSE) =>
          \A d \in Descendants(a) \cap live, ref \in Refs :
             OnlyInherited(d) /\ Matches(pat, ref) => ~Resolve(grants'[d], ref)]_vars
=============================================================================
