------------------------------- MODULE Grants -------------------------------
(***************************************************************************)
(* Who may use which server: hub/internal/agents/grants.go and patterns.go. *)
(*                                                                         *)
(* A server is named by a value per field (label, project, server), and a  *)
(* grant row by a pattern, whose fields may be the wildcard.  A row allows *)
(* or denies what its pattern matches.                                     *)
(***************************************************************************)

CONSTANTS
    Fields,     \* label, project and server
    Values,     \* the values a field can have
    Wild        \* the wildcard

ASSUME GrantsAssumption == Wild \notin Values

Refs == [Fields -> Values]
Patterns == [Fields -> Values \cup {Wild}]
Sources == {"inherited", "explicit", "human"}
Rows == [pat : Patterns, allowed : BOOLEAN, source : Sources]

\* The rows of one agent: the pattern is the key.
Table(rows) == rows \subseteq Rows /\ \A g, h \in rows : g.pat = h.pat => g = h

Matches(p, ref) == \A f \in Fields : p[f] = Wild \/ p[f] = ref[f]

Allows(rows) == {r.pat : r \in {g \in rows : g.allowed}}
Denies(rows) == {r.pat : r \in {g \in rows : ~g.allowed}}

\* Resolve: any matching deny decides; otherwise some allow has to match.
Resolve(rows, ref) ==
    /\ \A p \in Denies(rows) : ~Matches(p, ref)
    /\ \E p \in Allows(rows) : Matches(p, ref)

\* covers: every ref that c matches is matched by p.
Covers(p, c) == \A f \in Fields : p[f] = Wild \/ p[f] = c[f]

\* intersect, and when there is one.
Overlap(p, q) == \A f \in Fields : p[f] = Wild \/ q[f] = Wild \/ p[f] = q[f]
Intersect(p, q) == [f \in Fields |-> IF p[f] = Wild THEN q[f] ELSE p[f]]
Intersections(P, Q) ==
    {Intersect(pq[1], pq[2]) : pq \in {x \in P \X Q : Overlap(x[1], x[2])}}

Inherited(pats, allowed) == {[pat |-> p, allowed |-> allowed, source |-> "inherited"] : p \in pats}

\* Mutant: the parent's denies are not carried along.
DeriveAllowsOnly(parent, requested) ==
    LET allow == Intersections(Allows(requested), Allows(parent))
        deny == Denies(requested)
    IN Inherited(deny, FALSE) \cup Inherited(allow \ deny, TRUE)

\* deriveChildGrants (A12): what was requested, cut down to what the parent
\* holds.  The parent's denies that overlap it come along; where an allow and
\* a deny have the same pattern the deny stays, in whatever order they come.
DeriveChildGrants(parent, requested) ==
    LET allow == Intersections(Allows(requested), Allows(parent))
        deny == Denies(requested) \cup Intersections(allow, Denies(parent))
    IN Inherited(deny, FALSE) \cup Inherited(allow \ deny, TRUE)

\* A request that names no grants asks for all the parent's allows.
Everything(parent) == Inherited(Allows(parent), TRUE)
=============================================================================
