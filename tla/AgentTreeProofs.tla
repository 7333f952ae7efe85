--------------------------- MODULE AgentTreeProofs ---------------------------
(***************************************************************************)
(* Proofs about Grants and AgentTree: a spawn never gives more than the     *)
(* parent holds, for any fields, values, rows and requests; the tree stays  *)
(* connected; and edits only narrow what others hold.                       *)
(***************************************************************************)
EXTENDS AgentTree, TLAPS

-----------------------------------------------------------------------------
(* Patterns (hub/internal/agents/patterns.go).                             *)

\* intersect: two patterns that match one ref overlap, and their intersection
\* matches what both match and nothing else.
LEMMA IntersectMatches ==
    ASSUME NEW p, NEW q, NEW ref
    PROVE  /\ Matches(p, ref) /\ Matches(q, ref) =>
                Overlap(p, q) /\ Matches(Intersect(p, q), ref)
           /\ Overlap(p, q) /\ Matches(Intersect(p, q), ref) =>
                Matches(p, ref) /\ Matches(q, ref)
<1>1. \A f \in Fields : Intersect(p, q)[f] = IF p[f] = Wild THEN q[f] ELSE p[f]
  BY DEF Intersect
<1>2. Matches(p, ref) /\ Matches(q, ref) => Overlap(p, q)
  BY DEF Matches, Overlap
<1>3. Matches(p, ref) /\ Matches(q, ref) => Matches(Intersect(p, q), ref)
  BY <1>1 DEF Matches
<1>4. Overlap(p, q) /\ Matches(Intersect(p, q), ref) => Matches(p, ref) /\ Matches(q, ref)
  <2> SUFFICES ASSUME Overlap(p, q), Matches(Intersect(p, q), ref), NEW f \in Fields
               PROVE  (p[f] = Wild \/ p[f] = ref[f]) /\ (q[f] = Wild \/ q[f] = ref[f])
    BY DEF Matches
  <2>1. Intersect(p, q)[f] = Wild \/ Intersect(p, q)[f] = ref[f]
    BY DEF Matches
  <2>2. p[f] = Wild \/ q[f] = Wild \/ p[f] = q[f]
    BY DEF Overlap
  <2> QED BY <1>1, <2>1, <2>2
<1> QED BY <1>2, <1>3, <1>4

\* What the derived rows of an intersection come from.
LEMMA IntersectionsMember ==
    ASSUME NEW P, NEW Q, NEW i
    PROVE  i \in Intersections(P, Q) <=>
             \E p \in P, q \in Q : Overlap(p, q) /\ i = Intersect(p, q)
<1>1. ASSUME i \in Intersections(P, Q)
      PROVE  \E p \in P, q \in Q : Overlap(p, q) /\ i = Intersect(p, q)
  <2>1. PICK x \in P \X Q : Overlap(x[1], x[2]) /\ i = Intersect(x[1], x[2])
    BY <1>1, Zenon DEF Intersections
  <2>2. x[1] \in P /\ x[2] \in Q
    OBVIOUS
  <2> QED BY <2>1, <2>2
<1>2. ASSUME NEW p \in P, NEW q \in Q, Overlap(p, q), i = Intersect(p, q)
      PROVE  i \in Intersections(P, Q)
  <2>1. /\ <<p, q>> \in P \X Q
        /\ Overlap(<<p, q>>[1], <<p, q>>[2])
        /\ i = Intersect(<<p, q>>[1], <<p, q>>[2])
    BY <1>2
  <2> QED BY <2>1, Zenon DEF Intersections
<1> QED BY <1>1, <1>2

\* The intersection of two patterns is a pattern.
LEMMA IntersectTyped ==
    ASSUME NEW p \in Patterns, NEW q \in Patterns
    PROVE  Intersect(p, q) \in Patterns
BY DEF Patterns, Intersect

-----------------------------------------------------------------------------
(* deriveChildGrants.                                                      *)

\* Inherited builds one row per pattern, with the verdict it is given.
LEMMA InheritedRow ==
    ASSUME NEW S, NEW b \in BOOLEAN
    PROVE  /\ \A g \in Inherited(S, b) :
                /\ g.pat \in S /\ g.allowed = b
                /\ g = [pat |-> g.pat, allowed |-> b, source |-> "inherited"]
           /\ \A p \in S : [pat |-> p, allowed |-> b, source |-> "inherited"] \in Inherited(S, b)
<1>1. ASSUME NEW g \in Inherited(S, b)
      PROVE  /\ g.pat \in S /\ g.allowed = b
             /\ g = [pat |-> g.pat, allowed |-> b, source |-> "inherited"]
  <2>1. PICK p \in S : g = [pat |-> p, allowed |-> b, source |-> "inherited"]
    BY <1>1, Zenon DEF Inherited
  <2>2. g.pat = p BY <2>1
  <2>3. g.allowed = b BY <2>1
  <2> QED BY <2>1, <2>2, <2>3, Zenon
<1>2. ASSUME NEW p \in S
      PROVE  [pat |-> p, allowed |-> b, source |-> "inherited"] \in Inherited(S, b)
  BY Zenon DEF Inherited
<1> QED BY <1>1, <1>2, Zenon

\* The verdicts of a set of derived rows.
LEMMA InheritedVerdicts ==
    ASSUME NEW S, NEW T
    PROVE  /\ Allows(Inherited(S, FALSE) \cup Inherited(T, TRUE)) = T
           /\ Denies(Inherited(S, FALSE) \cup Inherited(T, TRUE)) = S
<1> DEFINE rows == Inherited(S, FALSE) \cup Inherited(T, TRUE)
<1>1. ASSUME NEW p PROVE p \in Allows(rows) <=> \E g \in rows : g.allowed /\ p = g.pat
  BY Zenon DEF Allows
<1>2. ASSUME NEW p PROVE p \in Denies(rows) <=> \E g \in rows : ~g.allowed /\ p = g.pat
  BY Zenon DEF Denies
<1>3. ASSUME NEW g \in rows
      PROVE  \/ ~g.allowed /\ g.pat \in S
             \/ g.allowed /\ g.pat \in T
  <2>1. CASE g \in Inherited(S, FALSE) BY <2>1, InheritedRow, Zenon
  <2>2. CASE g \in Inherited(T, TRUE) BY <2>2, InheritedRow, Zenon
  <2> QED BY <2>1, <2>2
<1>4. ASSUME NEW p \in S PROVE \E g \in rows : ~g.allowed /\ p = g.pat
  <2> DEFINE g == [pat |-> p, allowed |-> FALSE, source |-> "inherited"]
  <2>1. g \in rows BY InheritedRow, Zenon
  <2>2. ~g.allowed /\ p = g.pat OBVIOUS
  <2> QED BY <2>1, <2>2
<1>5. ASSUME NEW p \in T PROVE \E g \in rows : g.allowed /\ p = g.pat
  <2> DEFINE g == [pat |-> p, allowed |-> TRUE, source |-> "inherited"]
  <2>1. g \in rows BY InheritedRow, Zenon
  <2>2. g.allowed /\ p = g.pat OBVIOUS
  <2> QED BY <2>1, <2>2
<1> HIDE DEF rows
<1>6. Allows(rows) = T BY <1>1, <1>3, <1>5
<1>7. Denies(rows) = S BY <1>2, <1>3, <1>4
<1> QED BY <1>6, <1>7 DEF rows

\* A12 for every parent, request and server: what the derived rows permit, the
\* parent's rows permit.
LEMMA DeriveNarrows ==
    ASSUME NEW held, NEW req, NEW ref, Resolve(DeriveChildGrants(held, req), ref)
    PROVE  Resolve(held, ref)
<1> DEFINE allow == Intersections(Allows(req), Allows(held))
           deny == Denies(req) \cup Intersections(allow, Denies(held))
<1>1. /\ Allows(DeriveChildGrants(held, req)) = allow \ deny
      /\ Denies(DeriveChildGrants(held, req)) = deny
  BY InheritedVerdicts DEF DeriveChildGrants
<1>2. PICK i \in allow : Matches(i, ref)
  BY <1>1 DEF Resolve
<1>3. PICK r \in Allows(req), p \in Allows(held) : Overlap(r, p) /\ i = Intersect(r, p)
  BY <1>2, IntersectionsMember
<1>4. Matches(p, ref)
  BY <1>2, <1>3, IntersectMatches
<1>5. ASSUME NEW d \in Denies(held), Matches(d, ref) PROVE FALSE
  <2>1. Overlap(i, d) /\ Matches(Intersect(i, d), ref)
    BY <1>2, <1>5, IntersectMatches
  <2>2. Intersect(i, d) \in deny
    BY <2>1, IntersectionsMember
  <2> QED BY <2>1, <2>2, <1>1 DEF Resolve
<1> QED BY <1>3, <1>4, <1>5 DEF Resolve

\* deriveChildGrants builds a map keyed by the pattern.
LEMMA DeriveTyped ==
    ASSUME NEW held, NEW req, held \subseteq Rows, req \subseteq Rows
    PROVE  Table(DeriveChildGrants(held, req))
<1> DEFINE allow == Intersections(Allows(req), Allows(held))
           deny == Denies(req) \cup Intersections(allow, Denies(held))
<1>1. /\ Allows(req) \subseteq Patterns /\ Denies(req) \subseteq Patterns
      /\ Allows(held) \subseteq Patterns /\ Denies(held) \subseteq Patterns
  BY DEF Allows, Denies, Rows
<1>2. ASSUME NEW P \in SUBSET Patterns, NEW Q \in SUBSET Patterns
      PROVE  Intersections(P, Q) \subseteq Patterns
  BY IntersectionsMember, IntersectTyped
<1>3. allow \subseteq Patterns
  BY <1>1, <1>2
<1>4. deny \subseteq Patterns
  BY <1>1, <1>2, <1>3
<1>5. ASSUME NEW S \in SUBSET Patterns, NEW T \in SUBSET Patterns
      PROVE  Table(Inherited(S, FALSE) \cup Inherited(T \ S, TRUE))
  <2> DEFINE rows == Inherited(S, FALSE) \cup Inherited(T \ S, TRUE)
  <2>1. ASSUME NEW U \in SUBSET Patterns, NEW b \in BOOLEAN, NEW g \in Inherited(U, b)
        PROVE  g \in Rows
    <3>1. g.pat \in U /\ g = [pat |-> g.pat, allowed |-> b, source |-> "inherited"]
      BY <2>1, InheritedRow, Zenon
    <3>2. PICK p \in Patterns : g = [pat |-> p, allowed |-> b, source |-> "inherited"]
      BY <3>1, Zenon
    <3> QED BY <3>2 DEF Rows, Sources
  <2>2. T \ S \in SUBSET Patterns OBVIOUS
  <2>3. ASSUME NEW g \in rows, NEW h \in rows, g.pat = h.pat PROVE g = h
    <3>1. ASSUME NEW U, NEW b \in BOOLEAN, g \in Inherited(U, b), h \in Inherited(U, b) PROVE g = h
      <4>1. g = [pat |-> g.pat, allowed |-> b, source |-> "inherited"] BY <3>1, InheritedRow, Zenon
      <4>2. h = [pat |-> h.pat, allowed |-> b, source |-> "inherited"] BY <3>1, InheritedRow, Zenon
      <4> QED BY <2>3, <4>1, <4>2, Zenon
    <3>2. \A r \in Inherited(S, FALSE) : r.pat \in S BY InheritedRow, Zenon
    <3>3. \A r \in Inherited(T \ S, TRUE) : r.pat \notin S BY InheritedRow, Zenon
    <3>4. \/ g \in Inherited(S, FALSE) /\ h \in Inherited(S, FALSE)
          \/ g \in Inherited(T \ S, TRUE) /\ h \in Inherited(T \ S, TRUE)
      BY <2>3, <3>2, <3>3, Zenon
    <3> QED BY <3>1, <3>4, Zenon
  <2> QED BY <2>1, <2>2, <2>3 DEF Table
<1>6. DeriveChildGrants(held, req) = Inherited(deny, FALSE) \cup Inherited(allow \ deny, TRUE)
  BY DEF DeriveChildGrants
<1> HIDE DEF allow, deny
<1> QED BY <1>3, <1>4, <1>5, <1>6

\* What a request without grants asks for is a set of rows.
LEMMA EverythingTyped ==
    ASSUME NEW held \in SUBSET Rows
    PROVE  Everything(held) \subseteq Rows
<1>1. ASSUME NEW p \in Allows(held) PROVE p \in Patterns
  BY DEF Allows, Rows
<1>2. ASSUME NEW g \in Everything(held) PROVE g \in Rows
  <2>1. g.pat \in Allows(held) /\ g = [pat |-> g.pat, allowed |-> TRUE, source |-> "inherited"]
    BY <1>2, InheritedRow, Zenon DEF Everything
  <2>2. PICK p \in Patterns : g = [pat |-> p, allowed |-> TRUE, source |-> "inherited"]
    BY <1>1, <2>1, Zenon
  <2> QED BY <2>2 DEF Rows, Sources
<1> QED BY <1>2

-----------------------------------------------------------------------------
(* The inductive invariant.  A parent is known before its child is, so a     *)
(* child's ancestors are its parent's and its parent; the agents a deletion  *)
(* takes are therefore closed under being a child.                          *)

Known == live \cup gone

Tree ==
    /\ \A c \in Agents : spawn[c] # Nil => c \notin Known /\ spawn[c].parent \in Known
    /\ \A c \in Agents : parent[c] # Nil =>
          /\ parent[c] \in Known
          /\ anc[c] = anc[parent[c]] \cup {parent[c]}

Inv == TypeOK /\ Tree /\ NoOrphan /\ NoEscalation

\* The state before the first spawn satisfies the invariant.
LEMMA InitInv == Init => Inv
<1> SUFFICES ASSUME Init PROVE Inv OBVIOUS
<1> USE AgentTreeAssumption
<1>1. TypeOK
  <2>1. Table({}) BY DEF Table
  <2>2. \A a \in Agents : Table(grants[a]) BY <2>1 DEF Init
  <2>3. parent \in [Agents -> Agents \cup {Nil}] BY DEF Init
  <2>4. anc \in [Agents -> SUBSET Agents] BY DEF Init
  <2> QED BY <2>2, <2>3, <2>4 DEF Init, TypeOK
<1>2. Tree /\ NoOrphan /\ NoEscalation
  BY DEF Init, Tree, NoOrphan, NoEscalation
<1> QED BY <1>1, <1>2 DEF Inv

\* createAgent's checks.
LEMMA CheckParentInv ==
    ASSUME Inv, NEW c \in Agents, NEW p \in Agents, NEW ask \in Asks, CheckParent(c, p, ask)
    PROVE  Inv'
<1> DEFINE new == [parent |-> p, ask |-> ask, derived |-> FALSE, held |-> {}, rows |-> {}]
<1>1. /\ spawn' = [spawn EXCEPT ![c] = new]
      /\ c \notin Known /\ p \in live
      /\ UNCHANGED <<live, gone, parent, anc, grants, edits>>
  BY DEF CheckParent, Known
<1>2. /\ new.parent = p /\ new.ask = ask /\ new.derived = FALSE
      /\ new.held = {} /\ new.rows = {}
  OBVIOUS
<1> HIDE DEF new
<1>3. /\ DOMAIN spawn' = Agents /\ spawn'[c] = new
      /\ \A d \in Agents \ {c} : spawn'[d] = spawn[d]
  BY <1>1 DEF Inv, TypeOK
<1>4. Table({}) BY DEF Table
<1>5. TypeOK' BY <1>1, <1>2, <1>3, <1>4, ZenonT(60) DEF Inv, TypeOK
<1>6. Tree' BY <1>1, <1>2, <1>3 DEF Inv, Tree, Known
<1>7. NoOrphan' BY <1>1 DEF Inv, NoOrphan
<1>8. NoEscalation'
  <2>1. \A ref \in Refs : ~Resolve({}, ref) BY DEF Resolve, Allows
  <2> QED BY <2>1, <1>2, <1>3 DEF Inv, NoEscalation
<1> QED BY <1>5, <1>6, <1>7, <1>8 DEF Inv

\* createAgent's derivation: NoEscalation is DeriveNarrows.
LEMMA DeriveGrantsInv ==
    ASSUME Inv, NEW c \in Agents, DeriveGrants(c)
    PROVE  Inv'
<1> DEFINE held == grants[spawn[c].parent]
           req == IF spawn[c].ask = Nil THEN Everything(held) ELSE spawn[c].ask
           rows == DeriveChildGrants(held, req)
<1>1. /\ spawn[c] # Nil
      /\ spawn' = [spawn EXCEPT ![c].derived = TRUE, ![c].held = held, ![c].rows = rows]
      /\ UNCHANGED <<live, gone, parent, anc, grants, edits>>
  BY DEF DeriveGrants
<1>2. /\ spawn[c].parent \in Agents /\ spawn[c].ask \in Asks
      /\ Table(held)
  BY <1>1 DEF Inv, TypeOK
<1>3. held \subseteq Rows BY <1>2 DEF Table
<1>4. req \subseteq Rows BY <1>2, <1>3, EverythingTyped, AgentTreeAssumption
<1>5. Table(rows) BY <1>3, <1>4, DeriveTyped
<1>6. \A ref \in Refs : Resolve(rows, ref) => Resolve(held, ref) BY DeriveNarrows
<1> HIDE DEF held, req, rows
<1>7. DOMAIN spawn = Agents BY DEF Inv, TypeOK
<1>8. /\ DOMAIN spawn' = Agents
      /\ \A d \in Agents \ {c} : spawn'[d] = spawn[d]
  BY <1>1, <1>7
<1>9. /\ spawn'[c].parent = spawn[c].parent /\ spawn'[c].ask = spawn[c].ask
      /\ spawn'[c].derived = TRUE /\ spawn'[c].held = held /\ spawn'[c].rows = rows
  BY <1>1, <1>7
<1>10. TypeOK'
  <2>1. \A d \in Agents : spawn'[d] # Nil =>
          /\ spawn'[d].parent \in Agents /\ spawn'[d].ask \in Asks /\ spawn'[d].derived \in BOOLEAN
          /\ Table(spawn'[d].held) /\ Table(spawn'[d].rows)
    <3>2. ASSUME NEW d \in Agents, d # c, spawn'[d] # Nil
          PROVE  /\ spawn'[d].parent \in Agents /\ spawn'[d].ask \in Asks
                 /\ spawn'[d].derived \in BOOLEAN
                 /\ Table(spawn'[d].held) /\ Table(spawn'[d].rows)
      BY <3>2, <1>8, Zenon DEF Inv, TypeOK
    <3>3. spawn'[c].derived \in BOOLEAN BY <1>9
    <3>4. Table(spawn'[c].held) /\ Table(spawn'[c].rows) BY <1>2, <1>5, <1>9, Zenon
    <3>5. spawn'[c].parent \in Agents /\ spawn'[c].ask \in Asks BY <1>2, <1>9, Zenon
    <3> QED BY <3>2, <3>3, <3>4, <3>5, Zenon
  <2> QED BY <1>1, <1>8, <2>1 DEF Inv, TypeOK
<1>11. Tree' BY <1>1, <1>8, <1>9 DEF Inv, Tree, Known
<1>12. NoOrphan' BY <1>1 DEF Inv, NoOrphan
<1>13. NoEscalation' BY <1>6, <1>8, <1>9, <1>1 DEF Inv, NoEscalation
<1> QED BY <1>10, <1>11, <1>12, <1>13 DEF Inv

\* CreateAgent: the parent is looked up again in the transaction.
LEMMA InsertChildInv ==
    ASSUME Inv, NEW c \in Agents, InsertChild(c)
    PROVE  Inv'
<1> DEFINE p == spawn[c].parent
<1>1. /\ spawn[c] # Nil /\ spawn' = [spawn EXCEPT ![c] = Nil]
      /\ UNCHANGED <<gone, edits>>
  BY DEF InsertChild
<1>2. /\ DOMAIN spawn' = Agents /\ spawn'[c] = Nil
      /\ \A d \in Agents \ {c} : spawn'[d] = spawn[d]
  BY <1>1 DEF Inv, TypeOK
<1>3. c \notin Known /\ p \in Agents /\ p \in Known /\ Table(spawn[c].rows)
  BY <1>1 DEF Inv, Tree, TypeOK
<1>4. NoEscalation' BY <1>2 DEF Inv, NoEscalation
<1>5. CASE p \notin live
  <2>1. UNCHANGED <<live, parent, anc, grants>> BY <1>5 DEF InsertChild
  <2>2. TypeOK' BY <1>1, <1>2, <2>1 DEF Inv, TypeOK
  <2>3. Tree' BY <1>1, <1>2, <2>1 DEF Inv, Tree, Known
  <2>4. NoOrphan' BY <2>1 DEF Inv, NoOrphan
  <2> QED BY <1>4, <2>2, <2>3, <2>4 DEF Inv
<1>6. CASE p \in live
  <2>1. /\ live' = live \cup {c}
        /\ parent' = [parent EXCEPT ![c] = p]
        /\ anc' = [anc EXCEPT ![c] = anc[p] \cup {p}]
        /\ grants' = [grants EXCEPT ![c] = spawn[c].rows]
    BY <1>6 DEF InsertChild
  <2> HIDE DEF p
  <2>2. /\ parent' \in [Agents -> Agents \cup {Nil}]
        /\ parent'[c] = p /\ \A d \in Agents \ {c} : parent'[d] = parent[d]
    BY <1>3, <2>1 DEF Inv, TypeOK
  <2>3. /\ anc' \in [Agents -> SUBSET Agents]
        /\ anc'[c] = anc[p] \cup {p} /\ \A d \in Agents \ {c} : anc'[d] = anc[d]
    BY <1>3, <2>1 DEF Inv, TypeOK
  <2>4. /\ DOMAIN grants' = Agents
        /\ \A d \in Agents : Table(grants'[d])
    BY <1>3, <2>1 DEF Inv, TypeOK
  <2>5. TypeOK'
    <3>1. live' \subseteq Agents /\ gone' \subseteq Agents \ live'
      BY <1>1, <1>3, <2>1 DEF Inv, TypeOK, Known
    <3>2. edits' \in 0..MaxEdits BY <1>1 DEF Inv, TypeOK
    <3> QED BY <1>2, <2>2, <2>3, <2>4, <3>1, <3>2 DEF Inv, TypeOK
  <2>6. Known' = Known \cup {c} BY <1>1, <2>1 DEF Known
  <2>7. Tree'
    <3>1. ASSUME NEW d \in Agents, spawn'[d] # Nil
          PROVE  d \notin Known' /\ spawn'[d].parent \in Known'
      BY <1>2, <2>6, <3>1 DEF Inv, Tree
    <3>2. ASSUME NEW d \in Agents, parent'[d] # Nil
          PROVE  parent'[d] \in Known' /\ anc'[d] = anc'[parent'[d]] \cup {parent'[d]}
      <4>1. CASE d = c
        BY <4>1, <1>3, <2>2, <2>3, <2>6
      <4>2. CASE d # c
        <5>1. parent'[d] = parent[d] /\ parent[d] \in Known /\ parent[d] # c /\ parent[d] \in Agents
          BY <4>2, <3>2, <2>2, <1>3 DEF Inv, Tree, TypeOK
        <5> QED BY <4>2, <5>1, <3>2, <2>3, <2>6 DEF Inv, Tree
      <4> QED BY <4>1, <4>2
    <3> QED BY <3>1, <3>2 DEF Tree
  <2>8. NoOrphan' BY <1>6, <2>1, <2>2 DEF Inv, NoOrphan, TypeOK
  <2> QED BY <1>4, <2>5, <2>7, <2>8 DEF Inv
<1> QED BY <1>5, <1>6

\* The steps by humans leave spawn, parent and anc alone, and keep every agent
\* known.
LEMMA EditInv ==
    ASSUME Inv, UNCHANGED <<parent, anc, spawn>>, edits' \in 0..MaxEdits,
           live' \subseteq Agents, gone' \subseteq Agents \ live', Known' = Known,
           DOMAIN grants' = Agents, \A d \in Agents : Table(grants'[d]),
           NoOrphan'
    PROVE  Inv'
<1>1. TypeOK' BY DEF Inv, TypeOK
<1>2. Tree' BY DEF Inv, Tree
<1>3. NoEscalation' BY DEF Inv, NoEscalation
<1> QED BY <1>1, <1>2, <1>3 DEF Inv

\* Removing rows keeps one row per pattern.
LEMMA SubTable ==
    ASSUME NEW rows, Table(rows), NEW S \in SUBSET rows
    PROVE  Table(S)
BY DEF Table

\* SetGrant preserves the invariant.
LEMMA SetGrantInv ==
    ASSUME Inv, NEW a \in Agents, NEW pat \in EditPats, NEW allowed \in EditVerdicts,
           SetGrant(a, pat, allowed)
    PROVE  Inv'
<1> DEFINE row == [pat |-> pat, allowed |-> allowed, source |-> "human"]
<1>1. /\ edits < MaxEdits /\ edits' = edits + 1
      /\ UNCHANGED <<live, gone, parent, anc, spawn>>
      /\ grants' = [d \in Agents |->
            IF d = a THEN Upsert(grants[a], row)
            ELSE IF ~allowed /\ a \in anc[d] THEN Revoke(grants[d], pat) ELSE grants[d]]
  BY DEF SetGrant
<1>2. row \in Rows /\ row.pat = pat
  BY AgentTreeAssumption DEF Rows, Sources
<1> HIDE DEF row
<1>3. ASSUME NEW rows, Table(rows) PROVE Table(Upsert(rows, row)) /\ Table(Revoke(rows, pat))
  <2>1. Table(Upsert(rows, row)) BY <1>2, <1>3 DEF Table, Upsert
  <2>2. Revoke(rows, pat) \subseteq rows BY DEF Revoke
  <2> QED BY <2>1, <2>2, <1>3, SubTable
<1>4. \A d \in Agents : Table(grants'[d]) BY <1>1, <1>3 DEF Inv, TypeOK
<1>5. DOMAIN grants' = Agents BY <1>1
<1>6. edits' \in 0..MaxEdits BY <1>1, AgentTreeAssumption DEF Inv, TypeOK
<1>7. /\ live' \subseteq Agents /\ gone' \subseteq Agents \ live' /\ Known' = Known /\ NoOrphan'
  BY <1>1 DEF Inv, TypeOK, Known, NoOrphan
<1> QED BY <1>1, <1>4, <1>5, <1>6, <1>7, EditInv

\* setAgentClientTx preserves the invariant.
LEMMA SetClientInv ==
    ASSUME Inv, NEW a \in Agents, NEW label \in {p[Label] : p \in EditPats} \cup {Nil},
           SetClient(a, label)
    PROVE  Inv'
<1> DEFINE row == [pat |-> [f \in Fields |-> IF f = Label THEN label ELSE Wild],
                   allowed |-> TRUE, source |-> "explicit"]
           own == IF label = Nil THEN {} ELSE {row}
           Kept(d) == {g \in grants[d] : ~(g.allowed /\ g.source = "inherited" /\ g.pat[Label] # label)}
<1>1. /\ edits < MaxEdits /\ edits' = edits + 1
      /\ UNCHANGED <<live, gone, parent, anc, spawn>>
      /\ grants' = [d \in Agents |-> IF d = a THEN own ELSE IF a \in anc[d] THEN Kept(d) ELSE grants[d]]
  BY DEF SetClient
<1>2. Table(own)
  <2>1. label # Nil => label \in Values \cup {Wild}
    BY AgentTreeAssumption DEF Patterns
  <2>2. label # Nil => [f \in Fields |-> IF f = Label THEN label ELSE Wild] \in Patterns
    BY <2>1 DEF Patterns
  <2>3. label # Nil => row \in Rows BY <2>2 DEF Rows, Sources
  <2> HIDE DEF row
  <2> QED BY <2>3 DEF Table
<1>3. \A d \in Agents : Table(Kept(d)) BY SubTable DEF Inv, TypeOK
<1> HIDE DEF own, Kept
<1>4. \A d \in Agents : Table(grants'[d]) BY <1>1, <1>2, <1>3 DEF Inv, TypeOK
<1>5. DOMAIN grants' = Agents BY <1>1
<1>6. edits' \in 0..MaxEdits BY <1>1, AgentTreeAssumption DEF Inv, TypeOK
<1>7. /\ live' \subseteq Agents /\ gone' \subseteq Agents \ live' /\ Known' = Known /\ NoOrphan'
  BY <1>1 DEF Inv, TypeOK, Known, NoOrphan
<1> QED BY <1>1, <1>4, <1>5, <1>6, <1>7, EditInv

\* A deletion takes the children of all that it takes.
LEMMA DeleteAgentInv ==
    ASSUME Inv, NEW a \in Agents, NEW hard \in BOOLEAN, DeleteAgent(a, hard)
    PROVE  Inv'
<1> DEFINE all == {a} \cup Descendants(a)
<1>1. /\ edits < MaxEdits /\ edits' = edits + 1
      /\ UNCHANGED <<parent, anc, spawn>>
      /\ live' = live \ all /\ gone' = gone \cup (live \cap all)
      /\ grants' = [d \in Agents |-> IF hard /\ d \in all THEN {} ELSE grants[d]]
  BY DEF DeleteAgent
<1>2. NoOrphan'
  <2> SUFFICES ASSUME NEW c \in live, c \notin all, parent[c] # Nil
               PROVE  parent[c] \in live \ all
    BY <1>1 DEF NoOrphan
  <2>1. parent[c] \in live /\ c \in Agents /\ anc[c] = anc[parent[c]] \cup {parent[c]}
    BY DEF Inv, NoOrphan, Tree, TypeOK
  <2>2. a \notin anc[c] BY <2>1 DEF Descendants
  <2> QED BY <2>1, <2>2 DEF Descendants
<1> HIDE DEF all
<1>3. \A d \in Agents : Table(grants'[d])
  <2>1. Table({}) BY DEF Table
  <2> QED BY <2>1, <1>1 DEF Inv, TypeOK
<1>4. DOMAIN grants' = Agents BY <1>1
<1>5. edits' \in 0..MaxEdits BY <1>1, AgentTreeAssumption DEF Inv, TypeOK
<1>6. live' \subseteq Agents /\ gone' \subseteq Agents \ live' /\ Known' = Known
  BY <1>1 DEF Inv, TypeOK, Known
<1> QED BY <1>1, <1>2, <1>3, <1>4, <1>5, <1>6, EditInv

\* Every step preserves the invariant.
LEMMA NextInv == Inv /\ [Next]_vars => Inv'
<1> SUFFICES ASSUME Inv, [Next]_vars PROVE Inv' OBVIOUS
<1>1. ASSUME NEW c \in Agents, NEW p \in Agents, NEW ask \in Asks, CheckParent(c, p, ask) PROVE Inv'
  BY <1>1, CheckParentInv
<1>2. ASSUME NEW c \in Agents, DeriveGrants(c) PROVE Inv' BY <1>2, DeriveGrantsInv
<1>3. ASSUME NEW c \in Agents, InsertChild(c) PROVE Inv' BY <1>3, InsertChildInv
<1>4. ASSUME NEW a \in Agents, NEW pat \in EditPats, NEW allowed \in EditVerdicts,
             SetGrant(a, pat, allowed) PROVE Inv'
  BY <1>4, SetGrantInv
<1>5. ASSUME NEW a \in Agents, NEW label \in {p[Label] : p \in EditPats} \cup {Nil},
             SetClient(a, label) PROVE Inv'
  BY <1>5, SetClientInv
<1>6. ASSUME NEW a \in Agents, NEW hard \in BOOLEAN, DeleteAgent(a, hard) PROVE Inv'
  BY <1>6, DeleteAgentInv
<1>7. CASE UNCHANGED vars
  <2>1. UNCHANGED <<live, gone, parent, anc, grants, spawn, edits>> BY <1>7 DEF vars
  <2>2. TypeOK' BY <2>1 DEF Inv, TypeOK
  <2>3. Tree' /\ NoOrphan' /\ NoEscalation' BY <2>1 DEF Inv, Tree, Known, NoOrphan, NoEscalation
  <2> QED BY <2>2, <2>3 DEF Inv
<1> QED BY <1>1, <1>2, <1>3, <1>4, <1>5, <1>6, <1>7, Zenon DEF Next

\* createAgent, CreateAgent, SetGrant, SetAgentClient and DeleteAgent, in any
\* order: the tables keep their shape, and a pattern has one row per agent.
THEOREM TypesHold == Spec => []TypeOK
<1>1. Inv => TypeOK BY DEF Inv
<1> QED BY <1>1, InitInv, NextInv, PTL DEF Spec

\* A12 for every set of fields, values, rows and requests: the rows derived for
\* a child permit no server that the rows read from its parent do not.
THEOREM NoEscalationHolds == Spec => []NoEscalation
<1>1. Inv => NoEscalation BY DEF Inv
<1> QED BY <1>1, InitInv, NextInv, PTL DEF Spec

\* A1: a live agent's parent is live, with deletions and spawns interleaved in
\* any way, for trees of any shape.
THEOREM NoOrphanHolds == Spec => []NoOrphan
<1>1. Inv => NoOrphan BY DEF Inv
<1> QED BY <1>1, InitInv, NextInv, PTL DEF Spec

\* A13, A14: a step writes the grants of at most one agent; from the others it
\* removes allows they inherited, and nothing else.
THEOREM NarrowingHolds == Spec => NarrowingOnly
<1> DEFINE Rest(a) == \A d \in (live \cap live') \ {a} :
              /\ grants'[d] \subseteq grants[d]
              /\ \A g \in grants[d] \ grants'[d] : g.allowed /\ g.source = "inherited"
<1>1. ASSUME Inv, Next PROVE \E a \in Agents : Rest(a)
  <2>0. live \subseteq Agents /\ DOMAIN grants = Agents BY <1>1 DEF Inv, TypeOK
  <2>1. CASE UNCHANGED grants BY <2>1, AgentTreeAssumption
  <2>2. ASSUME NEW c \in Agents, InsertChild(c) PROVE \E a \in Agents : Rest(a)
    <3>1. \A d \in Agents \ {c} : grants'[d] = grants[d]
      <4>1. grants' = [grants EXCEPT ![c] = spawn[c].rows] \/ grants' = grants
        BY <2>2, Zenon DEF InsertChild
      <4> QED BY <2>0, <4>1
    <3>2. Rest(c) BY <2>0, <3>1, Zenon
    <3> QED BY <3>2
  <2>3. ASSUME NEW a \in Agents, NEW pat \in EditPats, NEW allowed \in EditVerdicts,
               SetGrant(a, pat, allowed)
        PROVE  \E b \in Agents : Rest(b)
    <3>1. \A d \in Agents \ {a} : grants'[d] = Revoke(grants[d], pat) \/ grants'[d] = grants[d]
      BY <2>3 DEF SetGrant
    <3>2. ASSUME NEW rows
          PROVE  /\ Revoke(rows, pat) \subseteq rows
                 /\ \A g \in rows \ Revoke(rows, pat) : g.allowed /\ g.source = "inherited"
      BY Zenon DEF Revoke
    <3>3. Rest(a) BY <2>0, <3>1, <3>2, Zenon
    <3> QED BY <3>3
  <2>4. ASSUME NEW a \in Agents, NEW label, SetClient(a, label) PROVE \E b \in Agents : Rest(b)
    <3> DEFINE Kept(d) == {g \in grants[d] : ~(g.allowed /\ g.source = "inherited" /\ g.pat[Label] # label)}
    <3>1. \A d \in Agents \ {a} : grants'[d] = Kept(d) \/ grants'[d] = grants[d]
      BY <2>4 DEF SetClient
    <3>2. \A d \in Agents : /\ Kept(d) \subseteq grants[d]
                            /\ \A g \in grants[d] \ Kept(d) : g.allowed /\ g.source = "inherited"
      BY Zenon
    <3> HIDE DEF Kept
    <3>3. Rest(a) BY <2>0, <3>1, <3>2, Zenon
    <3> QED BY <3>3
  <2>5. ASSUME NEW a \in Agents, NEW hard \in BOOLEAN, DeleteAgent(a, hard)
        PROVE  \E b \in Agents : Rest(b)
    <3> DEFINE all == {a} \cup Descendants(a)
    <3>1. /\ live' = live \ all
          /\ grants' = [d \in Agents |-> IF hard /\ d \in all THEN {} ELSE grants[d]]
      BY <2>5, Zenon DEF DeleteAgent
    <3> HIDE DEF all
    <3>2. \A d \in live' : grants'[d] = grants[d] BY <2>0, <3>1
    <3>3. Rest(a) BY <3>2, Zenon
    <3> QED BY <3>3
  <2>6. ASSUME NEW c \in Agents, NEW p \in Agents, NEW ask \in Asks, CheckParent(c, p, ask)
        PROVE  \E b \in Agents : Rest(b)
    BY <2>6, <2>1 DEF CheckParent
  <2>7. ASSUME NEW c \in Agents, DeriveGrants(c) PROVE \E b \in Agents : Rest(b)
    BY <2>7, <2>1 DEF DeriveGrants
  <2> HIDE DEF Rest
  <2> QED BY <1>1, <2>2, <2>3, <2>4, <2>5, <2>6, <2>7, Zenon DEF Next
<1>2. Inv /\ [Next]_vars => [\E a \in Agents : Rest(a)]_vars BY <1>1
<1> QED BY <1>2, InitInv, NextInv, PTL DEF Spec, NarrowingOnly
=============================================================================
