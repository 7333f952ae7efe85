-------------------------- MODULE TranscriptProofs --------------------------
(***************************************************************************)
(* Proofs about the message tree of a chat: what a run appends is a chain, *)
(* the chat remembers the way back into every branch, every branch can be  *)
(* sent to the model, and what a run recorded is sent, for any number of   *)
(* messages, calls, runs, writers and switches of the branch.              *)
(* PathTo, Deepest and FlattenSeq are recursive functions; what they are   *)
(* for every tree, or sequence, is proved from a least message, or         *)
(* position, for which it would not hold.                                  *)
(***************************************************************************)
EXTENDS Transcript, SequenceTheorems, FiniteSetTheorems, WellFoundedInduction, TLAPS

\* The least message, or number, of a set of them.
LEMMA Least ==
    ASSUME NEW T, T \subseteq Nat, T # {}
    PROVE  \E x \in T : \A y \in T : x <= y
<1> DEFINE Less == {q \in Nat \X Nat : q[1] < q[2]}
<1>1. IsWellFoundedOn(Less, Nat)
  BY NatLessThanWellFounded DEF OpToRel
<1>2. PICK x \in T : \A y \in T : ~ (<<y, x>> \in Less)
  BY <1>1, WFMin
<1>3. ASSUME NEW y \in T PROVE x <= y
  <2>1. <<y, x>> \in Nat \X Nat
    OBVIOUS
  <2>2. ~ (y < x)
    BY <1>2, <2>1
  <2> QED BY <2>2
<1> QED BY <1>3

-----------------------------------------------------------------------------
(* Paths.                                                                  *)

Msgs == [parent : Nat, role : {"user", "assistant", "tool"}, calls : SUBSET Calls,
         answers : Calls \cup {Nil}, run : Nat]
Tree(ms) == ms \in Seq(Msgs) /\ \A n \in 1..Len(ms) : ms[n].parent \in 0..(n - 1)

LEMMA PathExists ==
    ASSUME NEW ms, Tree(ms)
    PROVE  \E f : f = [n \in 0..Len(ms) |->
                         IF n = 0 THEN <<>> ELSE Append(f[ms[n].parent], n)]
<1> DEFINE Up(f, k) == f = [n \in 0..k |-> IF n = 0 THEN <<>> ELSE Append(f[ms[n].parent], n)]
           T == {k \in 0..Len(ms) : ~ \E f : Up(f, k)}
<1>1. Len(ms) \in Nat /\ \A n \in 1..Len(ms) : ms[n].parent \in 0..(n - 1)
  BY LenProperties DEF Tree
<1>2. CASE T = {}
  BY <1>1, <1>2
<1>3. CASE T # {}
  <2>1. PICK k \in T : \A j \in T : k <= j
    <3>1. T \subseteq Nat
      OBVIOUS
    <3> QED BY <1>3, <3>1, Least
  <2>2. k # 0
    <3>1. Up([n \in 0..0 |-> <<>>], 0)
      OBVIOUS
    <3> QED BY <3>1
  <2>3. k - 1 \in 0..Len(ms) /\ k \in 1..Len(ms) /\ ~(k <= k - 1)
    BY <1>1, <2>2
  <2>4. PICK f : Up(f, k - 1)
    <3>1. k - 1 \notin T
      BY <2>1, <2>3
    <3> QED BY <2>3, <3>1
  <2>5. PICK g : g = [n \in 0..k |-> IF n = k THEN Append(f[ms[k].parent], k) ELSE f[n]]
    OBVIOUS
  <2>6. \A n \in 0..k : g[n] = IF n = 0 THEN <<>> ELSE Append(g[ms[n].parent], n)
    <3> SUFFICES ASSUME NEW n \in 0..k
                 PROVE  g[n] = IF n = 0 THEN <<>> ELSE Append(g[ms[n].parent], n)
      OBVIOUS
    <3>1. \A j \in 0..(k - 1) : g[j] = f[j]
      BY <2>3, <2>5
    <3>2. CASE n = k
      <4>1. ms[k].parent \in 0..(k - 1)
        BY <1>1, <2>3
      <4> QED BY <2>2, <2>3, <2>5, <3>1, <3>2, <4>1
    <3>3. CASE n # k /\ n # 0
      <4>1. n \in 0..(k - 1) /\ n \in 1..Len(ms)
        BY <2>3, <3>3
      <4>2. ms[n].parent \in 0..(n - 1) /\ 0..(n - 1) \subseteq 0..(k - 1)
        BY <1>1, <2>3, <4>1
      <4>3. f[n] = Append(f[ms[n].parent], n)
        BY <2>4, <3>3, <4>1
      <4> QED BY <3>1, <3>3, <4>1, <4>2, <4>3
    <3>4. CASE n = 0
      <4>1. 0 \in 0..(k - 1)
        BY <2>3
      <4>2. f[0] = <<>>
        BY <2>4, <4>1
      <4> QED BY <3>1, <3>4, <4>1, <4>2
    <3> QED BY <3>2, <3>3, <3>4
  <2>7. Up(g, k)
    BY <2>5, <2>6
  <2> QED BY <2>1, <2>7
<1> QED BY <1>2, <1>3

LEMMA PathDef ==
    ASSUME NEW ms, Tree(ms)
    PROVE  /\ PathTo(ms, 0) = <<>>
           /\ \A n \in 1..Len(ms) : PathTo(ms, n) = Append(PathTo(ms, ms[n].parent), n)
<1>1. PICK f : /\ f = [n \in 0..Len(ms) |-> IF n = 0 THEN <<>> ELSE Append(f[ms[n].parent], n)]
               /\ \A x : PathTo(ms, x) = f[x]
  <2>1. \E f : f = [n \in 0..Len(ms) |-> IF n = 0 THEN <<>> ELSE Append(f[ms[n].parent], n)]
    BY PathExists
  <2> QED BY <2>1 DEF PathTo
<1>2. Len(ms) \in Nat /\ \A n \in 1..Len(ms) : ms[n].parent \in 0..(n - 1)
  BY LenProperties DEF Tree
<1>3. PathTo(ms, 0) = <<>>
  <2>1. 0 \in 0..Len(ms)
    BY <1>2
  <2>2. f[0] = <<>>
    BY <1>1, <2>1
  <2> QED BY <1>1, <2>2
<1>4. ASSUME NEW n \in 1..Len(ms)
      PROVE  PathTo(ms, n) = Append(PathTo(ms, ms[n].parent), n)
  <2>1. n \in 0..Len(ms) /\ n # 0
    BY <1>2
  <2>2. f[n] = Append(f[ms[n].parent], n)
    BY <1>1, <2>1
  <2> QED BY <1>1, <2>2
<1> QED BY <1>3, <1>4

\* A path climbs from a root, one parent at a time, to its message.
Climbs(ms, n) ==
  LET p == PathTo(ms, n) IN
  /\ p \in Seq(1..n) /\ (n # 0 => p # <<>> /\ p[Len(p)] = n)
  /\ \A i \in 1..(Len(p) - 1) : p[i] \in 0..(n - 1) /\ ms[p[i + 1]].parent = p[i]

LEMMA PathClimbs ==
    ASSUME NEW ms, Tree(ms), NEW n \in 0..Len(ms)
    PROVE  Climbs(ms, n)
<1> DEFINE T == {k \in 0..Len(ms) : ~Climbs(ms, k)}
<1>1. Len(ms) \in Nat /\ \A k \in 1..Len(ms) : ms[k].parent \in 0..(k - 1)
  BY LenProperties DEF Tree
<1>2. SUFFICES ASSUME T # {} PROVE FALSE
  BY <1>1
<1>3. PICK k \in T : \A j \in T : k <= j
  <2>1. T \subseteq Nat
    OBVIOUS
  <2> QED BY <1>2, <2>1, Least
<1>4. k # 0
  <2>1. PathTo(ms, 0) = <<>>
    BY PathDef
  <2>2. <<>> \in Seq(1..0) /\ Len(<<>>) = 0 /\ 1..(0 - 1) = {}
    BY EmptySeq
  <2>3. Climbs(ms, 0)
    BY <2>1, <2>2 DEF Climbs
  <2> QED BY <2>3
<1>5. k \in 1..Len(ms) /\ k \in Nat
  BY <1>1, <1>4
<1> DEFINE u == ms[k].parent
           q == PathTo(ms, u)
<1>6. u \in 0..(k - 1) /\ u \in Nat /\ u < k /\ u \in 0..Len(ms)
  BY <1>1, <1>5
<1>7. Climbs(ms, u)
  BY <1>3, <1>5, <1>6
<1>8. PathTo(ms, k) = Append(q, k)
  BY <1>5, PathDef
<1> HIDE DEF u, T
<1>9. /\ q \in Seq(1..u) /\ (u # 0 => q # <<>> /\ q[Len(q)] = u)
      /\ \A i \in 1..(Len(q) - 1) : q[i] \in 0..(u - 1) /\ ms[q[i + 1]].parent = q[i]
  BY <1>7 DEF Climbs
<1> HIDE DEF q
<1>10. q \in Seq(1..k) /\ k \in 1..k /\ Len(q) \in Nat
  <2>1. 1..u \subseteq 1..k /\ k \in 1..k
    BY <1>5, <1>6
  <2>2. q \in Seq(1..k)
    BY <1>9, <2>1, SeqMonotonic
  <2> QED BY <2>1, <2>2, LenProperties
<1>11. PICK p : p = Append(q, k)
  OBVIOUS
<1>12. /\ p \in Seq(1..k) /\ Len(p) = Len(q) + 1 /\ p[Len(p)] = k
       /\ \A i \in 1..Len(q) : p[i] = q[i]
  BY <1>10, <1>11, AppendProperties
<1>13. p # <<>>
  BY <1>10, <1>12
<1>14. ASSUME NEW i \in 1..(Len(p) - 1)
       PROVE  p[i] \in 0..(k - 1) /\ ms[p[i + 1]].parent = p[i]
  <2>1. i \in 1..Len(q) /\ p[i] = q[i]
    BY <1>10, <1>12
  <2>2. q[i] \in 1..u
    BY <1>9, <2>1, ElementOfSeq
  <2>3. q[i] \in 0..(k - 1)
    BY <1>5, <1>6, <2>2
  <2>4. CASE i = Len(q)
    <3>1. p[i + 1] = k
      BY <1>12, <2>4
    <3>2. u # 0
      BY <1>6, <2>2
    <3> QED BY <1>9, <2>1, <2>3, <2>4, <3>1, <3>2 DEF u
  <2>5. CASE i # Len(q)
    <3>1. i \in 1..(Len(q) - 1) /\ i + 1 \in 1..Len(q)
      BY <1>10, <2>1, <2>5
    <3>2. p[i + 1] = q[i + 1]
      BY <1>12, <3>1
    <3> QED BY <1>9, <2>1, <2>3, <3>1, <3>2
  <2> QED BY <2>4, <2>5
<1>15. Climbs(ms, k)
  BY <1>8, <1>11, <1>12, <1>13, <1>14 DEF Climbs
<1> QED BY <1>3, <1>15 DEF T

\* A message is on the path to it, with those on the path to its parent.
LEMMA OnDef ==
    ASSUME NEW ms, Tree(ms)
    PROVE  /\ On(ms, 0) = {}
           /\ \A n \in 1..Len(ms) : On(ms, n) = On(ms, ms[n].parent) \cup {n}
<1>1. On(ms, 0) = {}
  <2>1. PathTo(ms, 0) = <<>>
    BY PathDef
  <2> QED BY <2>1 DEF On, ToSet
<1>2. ASSUME NEW n \in 1..Len(ms) PROVE On(ms, n) = On(ms, ms[n].parent) \cup {n}
  <2>1. PICK q : q = PathTo(ms, ms[n].parent)
    OBVIOUS
  <2>2. PathTo(ms, n) = Append(q, n)
    BY <2>1, PathDef
  <2>3. q \in Seq(1..ms[n].parent) /\ Len(q) \in Nat
    <3>1. ms[n].parent \in 0..Len(ms)
      BY LenProperties DEF Tree
    <3> QED BY <2>1, <3>1, PathClimbs, LenProperties DEF Climbs
  <2>4. PICK p : p = Append(q, n)
    OBVIOUS
  <2>5. q \in Seq(Nat) /\ n \in Nat
    BY <2>3, LenProperties DEF Tree
  <2>6. /\ DOMAIN q = 1..Len(q) /\ DOMAIN p = 1..(Len(q) + 1) /\ p[Len(q) + 1] = n
        /\ \A i \in 1..Len(q) : p[i] = q[i]
    BY <2>4, <2>5, AppendProperties, LenProperties
  <2>7. ToSet(p) = ToSet(q) \cup {n}
    BY <2>3, <2>6 DEF ToSet
  <2> QED BY <2>1, <2>2, <2>4, <2>7 DEF On
<1> QED BY <1>1, <1>2

\* What holds of the roots, and of a message when it holds of its parent, holds
\* of every message: the least for which it does not would be neither.
LEMMA FromRoots ==
    ASSUME NEW ms, Tree(ms), NEW T, T \subseteq 1..Len(ms), T # {}
    PROVE  \E n \in T : n \in 1..Len(ms) /\ ms[n].parent \in 0..(n - 1) /\ ms[n].parent \notin T
<1>1. Len(ms) \in Nat /\ \A k \in 1..Len(ms) : ms[k].parent \in 0..(k - 1)
  BY LenProperties DEF Tree
<1>2. PICK k \in T : \A j \in T : k <= j
  <2>1. T \subseteq Nat
    OBVIOUS
  <2> QED BY <2>1, Least
<1>3. ms[k].parent \in 0..(k - 1) /\ k \in Nat
  BY <1>1, <1>2
<1>4. ~(k <= ms[k].parent)
  BY <1>3
<1> QED BY <1>2, <1>3, <1>4

LEMMA OnBelow ==
    ASSUME NEW ms, Tree(ms), NEW n \in 0..Len(ms)
    PROVE  On(ms, n) \subseteq 1..n /\ On(ms, n) \subseteq 1..Len(ms) /\ (n # 0 => n \in On(ms, n))
<1>1. Len(ms) \in Nat /\ \A k \in 1..Len(ms) : ms[k].parent \in 0..(k - 1)
  BY LenProperties DEF Tree
<1>2. On(ms, n) \subseteq 1..n
  <2>1. PathTo(ms, n) \in Seq(1..n)
    BY PathClimbs DEF Climbs
  <2>2. \A i \in DOMAIN PathTo(ms, n) : PathTo(ms, n)[i] \in 1..n
    BY <2>1, LenProperties, ElementOfSeq
  <2> QED BY <2>2 DEF On, ToSet
<1>3. n # 0 => n \in On(ms, n)
  BY <1>1, OnDef
<1> QED BY <1>1, <1>2, <1>3

\* An ancestor's ancestors are ancestors.
LEMMA OnTrans ==
    ASSUME NEW ms, Tree(ms), NEW c \in 0..Len(ms), NEW b \in On(ms, c), NEW a \in On(ms, b)
    PROVE  a \in On(ms, c)
<1> DEFINE T == {k \in 1..Len(ms) : b \in On(ms, k) /\ a \notin On(ms, k)}
<1>1. CASE T = {}
  <2>1. c # 0
    BY OnDef
  <2> QED BY <1>1, <2>1
<1>2. CASE T # {}
  <2>1. PICK k \in T : k \in 1..Len(ms) /\ ms[k].parent \in 0..(k - 1) /\ ms[k].parent \notin T
    BY <1>2, FromRoots
  <2>2. On(ms, k) = On(ms, ms[k].parent) \cup {k} /\ On(ms, 0) = {}
    BY <2>1, OnDef
  <2>3. b \in On(ms, ms[k].parent) /\ a \notin On(ms, ms[k].parent)
    BY <2>1, <2>2
  <2>4. ms[k].parent \in 1..Len(ms)
    BY <2>1, <2>2, <2>3
  <2> QED BY <2>1, <2>3, <2>4
<1> QED BY <1>1, <1>2

\* Two ancestors of a message are ancestors of one another.
LEMMA OnLinear ==
    ASSUME NEW ms, Tree(ms), NEW c \in 0..Len(ms), NEW a \in On(ms, c), NEW b \in On(ms, c), a <= b
    PROVE  a \in On(ms, b)
<1> DEFINE T == {k \in 1..Len(ms) : a \in On(ms, k) /\ b \in On(ms, k)}
<1>0. a \in Nat /\ b \in Nat
  BY OnBelow
<1>1. SUFFICES ASSUME a \notin On(ms, b) PROVE FALSE
  OBVIOUS
<1>2. c \in T
  <2>1. c # 0
    BY OnDef
  <2> QED BY <2>1
<1>3. PICK k \in T : k \in 1..Len(ms) /\ ms[k].parent \in 0..(k - 1) /\ ms[k].parent \notin T
  BY <1>2, FromRoots
<1>4. On(ms, k) = On(ms, ms[k].parent) \cup {k} /\ On(ms, 0) = {}
  BY <1>3, OnDef
<1>5. b # k
  BY <1>1, <1>3
<1>6. a # k
  <2>1. b \in 1..k
    BY <1>3, OnBelow
  <2> QED BY <1>0, <1>5, <2>1
<1>7. ms[k].parent \in 1..Len(ms)
  BY <1>3, <1>4, <1>5
<1> QED BY <1>3, <1>4, <1>5, <1>6, <1>7

\* Between a message and an ancestor of it there is a child of that ancestor,
\* and only one.
LEMMA OnChild ==
    ASSUME NEW ms, Tree(ms), NEW c \in 0..Len(ms), NEW a \in On(ms, c), a # c
    PROVE  \E k \in On(ms, c) : ms[k].parent = a
<1> DEFINE T == {n \in 1..Len(ms) : a \in On(ms, n) /\ a # n
                                      /\ ~ \E k \in On(ms, n) : ms[k].parent = a}
<1>1. SUFFICES ASSUME T # {} PROVE FALSE
  <2>1. c # 0
    BY OnDef
  <2> QED BY <2>1
<1>2. PICK n \in T : n \in 1..Len(ms) /\ ms[n].parent \in 0..(n - 1) /\ ms[n].parent \notin T
  BY <1>1, FromRoots
<1>3. On(ms, n) = On(ms, ms[n].parent) \cup {n} /\ On(ms, 0) = {}
  BY <1>2, OnDef
<1>4. a \in On(ms, ms[n].parent) /\ a # ms[n].parent
  BY <1>2, <1>3
<1>5. ms[n].parent \in 1..Len(ms)
  BY <1>2, <1>3, <1>4
<1> QED BY <1>2, <1>3, <1>4, <1>5

LEMMA OnOneChild ==
    ASSUME NEW ms, Tree(ms), NEW c \in 0..Len(ms), NEW j \in On(ms, c), NEW k \in On(ms, c),
           ms[j].parent = ms[k].parent
    PROVE  j = k
<1>1. /\ j \in 1..Len(ms) /\ k \in 1..Len(ms) /\ Len(ms) \in Nat
      /\ \A n \in 1..Len(ms) : ms[n].parent \in 0..(n - 1)
  BY OnBelow, LenProperties DEF Tree
<1>2. ASSUME NEW x \in On(ms, c), NEW y \in On(ms, c), ms[x].parent = ms[y].parent, x <= y, x # y,
             x \in 1..Len(ms), y \in 1..Len(ms)
      PROVE  FALSE
  <2>1. x \in On(ms, y)
    BY <1>2, OnLinear
  <2>2. x \in On(ms, ms[y].parent)
    BY <1>2, <2>1, OnDef
  <2>3. ms[y].parent \in 0..Len(ms) /\ ms[x].parent \in 0..(x - 1)
    BY <1>1, <1>2
  <2>4. x \in 1..ms[y].parent
    BY <2>2, <2>3, OnBelow
  <2> QED BY <1>2, <2>3, <2>4
<1>3. j <= k \/ k <= j
  BY <1>1
<1> QED BY <1>1, <1>2, <1>3

\* A message that is added disturbs no path.
LEMMA TreeGrows ==
    ASSUME NEW ms, Tree(ms), NEW m \in Msgs, m.parent \in 0..Len(ms)
    PROVE  /\ Tree(Append(ms, m)) /\ Len(Append(ms, m)) = Len(ms) + 1
           /\ Append(ms, m)[Len(ms) + 1] = m
           /\ \A n \in 1..Len(ms) : Append(ms, m)[n] = ms[n]
<1>1. /\ ms \in Seq(Msgs) /\ Len(ms) \in Nat /\ \A n \in 1..Len(ms) : ms[n].parent \in 0..(n - 1)
  BY LenProperties DEF Tree
<1>2. PICK s : s = Append(ms, m)
  OBVIOUS
<1>3. /\ s \in Seq(Msgs) /\ Len(s) = Len(ms) + 1 /\ s[Len(ms) + 1] = m
      /\ \A n \in 1..Len(ms) : s[n] = ms[n]
  BY <1>1, <1>2, AppendProperties
<1>4. \A n \in 1..Len(s) : s[n].parent \in 0..(n - 1)
  BY <1>1, <1>3
<1> QED BY <1>2, <1>3, <1>4 DEF Tree

LEMMA OnGrows ==
    ASSUME NEW ms, Tree(ms), NEW m \in Msgs, m.parent \in 0..Len(ms), NEW n \in 0..Len(ms)
    PROVE  On(Append(ms, m), n) = On(ms, n)
<1>1. PICK s : s = Append(ms, m)
  OBVIOUS
<1>2. Tree(s) /\ Len(s) = Len(ms) + 1 /\ \A k \in 1..Len(ms) : s[k] = ms[k]
  BY <1>1, TreeGrows
<1>3. Len(ms) \in Nat
  BY LenProperties DEF Tree
<1> DEFINE T == {k \in 1..Len(ms) : On(s, k) # On(ms, k)}
<1>4. On(s, 0) = {} /\ On(ms, 0) = {}
  BY <1>2, OnDef
<1>5. T = {}
  <2>1. SUFFICES ASSUME T # {} PROVE FALSE
    OBVIOUS
  <2>2. PICK k \in T : k \in 1..Len(ms) /\ ms[k].parent \in 0..(k - 1) /\ ms[k].parent \notin T
    BY <2>1, FromRoots
  <2>3. k \in 1..Len(s) /\ s[k].parent = ms[k].parent
    BY <1>2, <1>3, <2>2
  <2>4. On(s, k) = On(s, ms[k].parent) \cup {k} /\ On(ms, k) = On(ms, ms[k].parent) \cup {k}
    BY <1>2, <2>2, <2>3, OnDef, SMTT(30), ZenonT(60), Z3T(60)
  <2>5. On(s, ms[k].parent) = On(ms, ms[k].parent)
    <3>1. ms[k].parent = 0 \/ ms[k].parent \in 1..Len(ms)
      BY <1>3, <2>2
    <3>2. CASE ms[k].parent = 0
      BY <1>4, <3>2
    <3>3. CASE ms[k].parent \in 1..Len(ms)
      BY <2>2, <3>3
    <3> QED BY <3>1, <3>2, <3>3
  <2> QED BY <2>4, <2>5
<1>6. On(s, n) = On(ms, n)
  BY <1>3, <1>4, <1>5, SMTT(30), ZenonT(60), Z3T(60)
<1> QED BY <1>1, <1>6

-----------------------------------------------------------------------------
(* The way back into a branch.                                             *)

\* pathUpdateSQL: the messages above x point down the path to it, the others
\* to where they did.
LEMMA Updated ==
    ASSUME NEW ms, Tree(ms), Len(ms) <= MaxMsgs, NEW x \in 0..Len(ms), NEW m \in Ids
    PROVE  /\ m \in On(ms, x) /\ m # x =>
                PathUpdate(ms, x)[m] \in On(ms, x) /\ ms[PathUpdate(ms, x)[m]].parent = m
           /\ ~(m \in On(ms, x) /\ m # x) => PathUpdate(ms, x)[m] = last[m]
<1> DEFINE p == PathTo(ms, x)
           above == {i \in 1..(Len(p) - 1) : TRUE}
           at == CHOOSE i \in above : p[i] = m
<1>1. /\ p \in Seq(1..x) /\ (x # 0 => p # <<>> /\ p[Len(p)] = x)
      /\ \A i \in 1..(Len(p) - 1) : p[i] \in 0..(x - 1) /\ ms[p[i + 1]].parent = p[i]
  BY PathClimbs DEF Climbs
<1>2. PathUpdate(ms, x)[m] = IF \E i \in above : p[i] = m THEN p[at + 1] ELSE last[m]
  BY DEF PathUpdate
<1>3. On(ms, x) = ToSet(p)
  BY DEF On
<1> HIDE DEF p
<1>4. /\ Len(p) \in Nat /\ DOMAIN p = 1..Len(p) /\ Len(ms) \in Nat
      /\ \A i \in 1..Len(p) : p[i] \in 1..x
  BY <1>1, LenProperties, ElementOfSeq DEF Tree
<1>11. Len(p) \in Nat
  BY <1>4
<1>5. On(ms, x) = {p[i] : i \in 1..Len(p)}
  BY <1>3, <1>4 DEF ToSet
<1>6. ASSUME NEW i \in above PROVE p[i] # x /\ p[i + 1] \in On(ms, x) /\ ms[p[i + 1]].parent = p[i]
  BY <1>1, <1>4, <1>5
<1>7. (\E i \in above : p[i] = m) <=> m \in On(ms, x) /\ m # x
  <2>1. ASSUME NEW i \in above, p[i] = m PROVE m \in On(ms, x) /\ m # x
    <3>1. i \in 1..Len(p)
      BY <1>4
    <3> QED BY <1>5, <1>6, <2>1, <3>1
  <2>2. ASSUME m \in On(ms, x), m # x PROVE \E i \in above : p[i] = m
    <3>1. PICK i \in 1..Len(p) : p[i] = m
      BY <1>5, <2>2
    <3>2. x # 0
      BY <1>4, <3>1
    <3>3. i # Len(p)
      BY <1>1, <2>2, <3>1, <3>2
    <3>4. i \in 1..(Len(p) - 1)
      BY <1>11, <3>3
    <3>5. i \in above
      BY <3>4
    <3> QED BY <3>1, <3>5
  <2> QED BY <2>1, <2>2
<1>8. (\E i \in above : p[i] = m) => at \in above /\ p[at] = m
  OBVIOUS
<1> HIDE DEF above, at
<1>9. ASSUME m \in On(ms, x), m # x
      PROVE  PathUpdate(ms, x)[m] \in On(ms, x) /\ ms[PathUpdate(ms, x)[m]].parent = m
  BY <1>2, <1>6, <1>7, <1>8, <1>9
<1>10. ~(m \in On(ms, x) /\ m # x) => PathUpdate(ms, x)[m] = last[m]
  BY <1>2, <1>7
<1> QED BY <1>9, <1>10

\* From m the remembered children lead down to where the conversation last was.
Leads(ms, l, w) ==
  \A m \in 1..Len(ms) : w[m] # 0 =>
    /\ w[m] \in 1..Len(ms) /\ m \in On(ms, w[m])
    /\ \A k \in On(ms, w[m]) : m \in On(ms, ms[k].parent) => l[ms[k].parent] = k
Points(ms, l) == \A m \in Ids : l[m] # 0 => l[m] \in 1..Len(ms) /\ ms[l[m]].parent = m

LEMMA StillLeads ==
    ASSUME NEW ms, Tree(ms), Len(ms) <= MaxMsgs, NEW x \in 1..Len(ms),
           Points(ms, last), Leads(ms, last, was)
    PROVE  Points(ms, PathUpdate(ms, x)) /\ Leads(ms, PathUpdate(ms, x), Seen(ms, x))
<1>1. /\ Len(ms) \in Nat /\ x \in 0..Len(ms) /\ 1..Len(ms) \subseteq Ids /\ MaxMsgs \in Nat
      /\ \A n \in 1..Len(ms) : ms[n].parent \in 0..(n - 1)
  BY LenProperties, TranscriptAssumption DEF Tree, Ids
<1>2. On(ms, x) \subseteq 1..Len(ms) /\ x \in On(ms, x)
  BY <1>1, OnBelow
<1>3. PICK l : l = PathUpdate(ms, x)
  OBVIOUS
<1>4. PICK w : w = Seen(ms, x)
  OBVIOUS
<1>5. \A m \in Ids : /\ m \in On(ms, x) /\ m # x => l[m] \in On(ms, x) /\ ms[l[m]].parent = m
                     /\ ~(m \in On(ms, x) /\ m # x) => l[m] = last[m]
  BY <1>1, <1>3, Updated
<1>6. \A m \in Ids : w[m] = IF m \in On(ms, x) THEN x ELSE was[m]
  BY <1>4 DEF Seen
<1>7. Points(ms, l)
  BY <1>2, <1>5 DEF Points
<1>8. ASSUME NEW m \in 1..Len(ms), w[m] # 0
      PROVE  /\ w[m] \in 1..Len(ms) /\ m \in On(ms, w[m])
             /\ \A k \in On(ms, w[m]) : m \in On(ms, ms[k].parent) => l[ms[k].parent] = k
  <2>1. CASE m \in On(ms, x)
    <3>1. w[m] = x
      BY <1>1, <1>6, <2>1
    <3>2. ASSUME NEW k \in On(ms, x), m \in On(ms, ms[k].parent) PROVE l[ms[k].parent] = k
      <4> DEFINE u == ms[k].parent
      <4>1. k \in 1..Len(ms) /\ k \in 1..x
        BY <1>1, <1>2, OnBelow
      <4>2. u \in 0..(k - 1) /\ u # 0
        BY <1>1, <3>2, <4>1, OnDef
      <4>3. u \in 1..Len(ms) /\ u # x
        BY <1>1, <4>1, <4>2
      <4>4. u \in On(ms, k)
        <5>1. u \in On(ms, u)
          BY <1>1, <4>3, OnBelow
        <5> QED BY <4>1, <5>1, OnDef
      <4>5. u \in On(ms, x)
        BY <1>1, <4>4, OnTrans
      <4>6. l[u] \in On(ms, x) /\ ms[l[u]].parent = u
        BY <1>1, <1>5, <4>3, <4>5
      <4> QED BY <1>1, <4>6, OnOneChild
    <3> QED BY <1>2, <2>1, <3>1, <3>2
  <2>2. CASE m \notin On(ms, x)
    <3>1. w[m] = was[m]
      BY <1>1, <1>6, <2>2
    <3>2. /\ was[m] \in 1..Len(ms) /\ m \in On(ms, was[m])
          /\ \A k \in On(ms, was[m]) : m \in On(ms, ms[k].parent) => last[ms[k].parent] = k
      BY <1>8, <3>1 DEF Leads
    <3>3. ASSUME NEW k \in On(ms, was[m]), m \in On(ms, ms[k].parent) PROVE l[ms[k].parent] = k
      <4> DEFINE u == ms[k].parent
      <4>1. k \in 1..Len(ms)
        BY <1>1, <3>2, OnBelow
      <4>2. u \in 0..(k - 1) /\ u # 0
        BY <1>1, <3>3, <4>1, OnDef
      <4>3. u \in 1..Len(ms)
        BY <1>1, <4>1, <4>2
      <4>4. u \notin On(ms, x)
        BY <1>1, <2>2, <3>3, OnTrans
      <4>5. l[u] = last[u]
        BY <1>1, <1>5, <4>3, <4>4
      <4> QED BY <3>2, <3>3, <4>5
    <3> QED BY <3>1, <3>2, <3>3
  <2> QED BY <2>1, <2>2
<1>9. Leads(ms, l, w)
  BY <1>8 DEF Leads
<1> QED BY <1>3, <1>4, <1>7, <1>9

\* deepestSQL follows the remembered children, or the newest, to a leaf.
LEMMA ChildDef ==
    ASSUME Tree(msgs), Points(msgs, last), Len(msgs) <= MaxMsgs,
           NEW n \in 1..Len(msgs), Children(n) # {}
    PROVE  /\ Child(n) \in (n + 1)..Len(msgs) /\ msgs[Child(n)].parent = n
           /\ last[n] # 0 => Child(n) = last[n]
<1>1. /\ msgs \in Seq(Msgs) /\ DOMAIN msgs = 1..Len(msgs) /\ Len(msgs) \in Nat
      /\ \A m \in 1..Len(msgs) : msgs[m].parent \in 0..(m - 1)
  BY LenProperties DEF Tree
<1>2. n \in Ids
  BY <1>1, TranscriptAssumption DEF Ids
<1>3. Child(n) \in 1..Len(msgs) /\ msgs[Child(n)].parent = n
  <2>1. CASE last[n] # 0
    BY <1>2, <2>1 DEF Child, Points
  <2>2. CASE last[n] = 0
    <3> DEFINE T == {i \in 0..Len(msgs) : Len(msgs) - i \in Children(n)}
    <3>1. Children(n) \subseteq 1..Len(msgs) /\ \A m \in Children(n) : msgs[m].parent = n
      BY <1>1 DEF Children, Known
    <3>2. T # {} /\ T \subseteq Nat
      <4>1. PICK m \in Children(n) : TRUE
        OBVIOUS
      <4>2. Len(msgs) - m \in 0..Len(msgs) /\ Len(msgs) - (Len(msgs) - m) = m
        BY <1>1, <3>1, <4>1
      <4> QED BY <4>1, <4>2
    <3>3. PICK i \in T : \A j \in T : i <= j
      BY <3>2, Least
    <3>4. ASSUME NEW k \in Children(n) PROVE k <= Len(msgs) - i
      <4>1. Len(msgs) - k \in 0..Len(msgs) /\ Len(msgs) - (Len(msgs) - k) = k
        BY <1>1, <3>1
      <4>2. i <= Len(msgs) - k
        BY <3>3, <4>1
      <4> QED BY <1>1, <3>1, <4>2
    <3>5. \E m \in Children(n) : \A k \in Children(n) : k <= m
      BY <3>3, <3>4
    <3>6. Child(n) \in Children(n)
      BY <2>2, <3>5 DEF Child
    <3> QED BY <3>1, <3>6
  <2> QED BY <2>1, <2>2
<1>4. Child(n) \in (n + 1)..Len(msgs)
  BY <1>1, <1>3
<1> QED BY <1>3, <1>4 DEF Child

\* The steps that are left to a message, counted from the newest.
LEMMA DeepestDef ==
    ASSUME Tree(msgs), Points(msgs, last), Len(msgs) <= MaxMsgs, NEW n \in 1..Len(msgs)
    PROVE  Deepest(n) = IF Children(n) = {} THEN n ELSE Deepest(Child(n))
<1> DEFINE N == Len(msgs)
           Way(f, k) == f = [i \in 0..k |->
             IF N - i = 0 \/ Children(N - i) = {} THEN N - i ELSE f[N - Child(N - i)]]
           T == {k \in 0..N : ~ \E f : Way(f, k)}
<1>1. N \in Nat
  BY LenProperties DEF Tree
<1>2. ASSUME NEW i \in 0..N, N - i # 0, Children(N - i) # {}
      PROVE  N - Child(N - i) \in 0..N /\ N - Child(N - i) < i
  <2>1. N - i \in 1..N
    BY <1>1, <1>2
  <2>2. Child(N - i) \in (N - i + 1)..N
    BY <1>2, <2>1, ChildDef
  <2> QED BY <1>1, <2>2
<1> HIDE DEF N, Way
<1>3. \E f : Way(f, N)
  <2>1. SUFFICES ASSUME T # {} PROVE FALSE
    <3>1. N \in 0..N
      BY <1>1
    <3> QED BY <3>1
  <2>2. PICK k \in T : \A j \in T : k <= j
    <3>1. T \subseteq Nat
      OBVIOUS
    <3> QED BY <2>1, <3>1, Least
  <2>3. \E f : \A i \in 0..(k - 1) :
          f[i] = IF N - i = 0 \/ Children(N - i) = {} THEN N - i ELSE f[N - Child(N - i)]
    <3>1. CASE k = 0
      BY <3>1
    <3>2. CASE k # 0
      <4>1. k - 1 \in 0..N /\ ~(k <= k - 1)
        BY <1>1, <3>2
      <4>2. k - 1 \notin T
        BY <2>2, <4>1
      <4>3. PICK f : Way(f, k - 1)
        BY <4>1, <4>2
      <4> QED BY <4>3 DEF Way
    <3> QED BY <3>1, <3>2
  <2>4. PICK f : \A i \in 0..(k - 1) :
          f[i] = IF N - i = 0 \/ Children(N - i) = {} THEN N - i ELSE f[N - Child(N - i)]
    BY <2>3
  <2>5. PICK g : g = [i \in 0..k |->
          IF i = k THEN (IF N - k = 0 \/ Children(N - k) = {} THEN N - k ELSE f[N - Child(N - k)])
          ELSE f[i]]
    OBVIOUS
  <2>6. ASSUME NEW i \in 0..k
        PROVE  g[i] = IF N - i = 0 \/ Children(N - i) = {} THEN N - i ELSE g[N - Child(N - i)]
    <3>1. i \in 0..N /\ k \in 0..N
      BY <1>1
    <3>2. g[i] = IF N - i = 0 \/ Children(N - i) = {} THEN N - i ELSE f[N - Child(N - i)]
      <4>1. CASE i = k
        BY <2>5, <4>1
      <4>2. CASE i # k
        <5>1. i \in 0..(k - 1)
          BY <3>1, <4>2
        <5> QED BY <2>4, <2>5, <4>2, <5>1
      <4> QED BY <4>1, <4>2
    <3>3. CASE N - i = 0 \/ Children(N - i) = {}
      BY <3>2, <3>3
    <3>4. CASE N - i # 0 /\ Children(N - i) # {}
      <4>1. N - Child(N - i) \in 0..N /\ N - Child(N - i) < i
        BY <1>2, <3>1, <3>4
      <4>2. N - Child(N - i) \in 0..k /\ N - Child(N - i) # k
        BY <3>1, <4>1
      <4>3. g[N - Child(N - i)] = f[N - Child(N - i)]
        BY <2>5, <4>2
      <4> QED BY <3>2, <3>4, <4>3
    <3> QED BY <3>3, <3>4
  <2>7. Way(g, k)
    BY <2>5, <2>6 DEF Way
  <2> QED BY <2>2, <2>7
<1>4. PICK f : Way(f, N) /\ \A x : Deepest(x) = f[N - x]
  BY <1>3 DEF Deepest, N, Way
<1>5. /\ n \in 1..N /\ N - n \in 0..N /\ N - (N - n) = n
  BY <1>1 DEF N
<1>6. f[N - n] = IF n = 0 \/ Children(n) = {} THEN n ELSE f[N - Child(n)]
  BY <1>4, <1>5 DEF Way
<1>7. n # 0 /\ Deepest(n) = f[N - n] /\ Deepest(Child(n)) = f[N - Child(n)]
  BY <1>4, <1>5
<1> QED BY <1>6, <1>7

\* What holds of the leaves, and of a message when it holds of its child, holds
\* of every message: the newest for which it does not would be neither.
LEMMA FromLeaves ==
    ASSUME Tree(msgs), Points(msgs, last), Len(msgs) <= MaxMsgs,
           NEW T, T \subseteq 1..Len(msgs), T # {}
    PROVE  \E n \in T : Children(n) # {} => Child(n) \in 1..Len(msgs) /\ Child(n) \notin T
<1> DEFINE N == Len(msgs)
           U == {i \in 0..N : N - i \in T}
<1>1. N \in Nat
  BY LenProperties DEF Tree
<1>2. PICK i \in U : \A j \in U : i <= j
  <2>1. PICK m \in T : m \in 1..N
    OBVIOUS
  <2>2. N - m \in 0..N /\ N - (N - m) = m
    BY <1>1, <2>1
  <2>3. N - m \in U /\ U \subseteq Nat
    BY <2>2
  <2> QED BY <2>3, Least
<1>3. PICK n \in T : n = N - i /\ n \in 1..N
  OBVIOUS
<1>4. ASSUME Children(n) # {} PROVE Child(n) \in 1..N /\ Child(n) \notin T
  <2>1. Child(n) \in (n + 1)..N
    BY <1>3, <1>4, ChildDef
  <2>2. Child(n) \in 1..N /\ N - Child(n) \in 0..N /\ N - (N - Child(n)) = Child(n)
        /\ ~(i <= N - Child(n))
    BY <1>1, <1>3, <2>1
  <2>3. N - Child(n) \notin U
    BY <1>2, <2>2
  <2> QED BY <2>2, <2>3
<1> QED BY <1>3, <1>4

LEMMA DeepestBelow ==
    ASSUME Tree(msgs), Points(msgs, last), Len(msgs) <= MaxMsgs, NEW n \in 1..Len(msgs)
    PROVE  Deepest(n) \in 1..Len(msgs) /\ n \in On(msgs, Deepest(n))
<1> DEFINE Ok(k) == Deepest(k) \in 1..Len(msgs) /\ k \in On(msgs, Deepest(k))
           T == {k \in 1..Len(msgs) : ~Ok(k)}
<1>1. SUFFICES ASSUME T # {} PROVE FALSE
  OBVIOUS
<1>2. PICK k \in T : Children(k) # {} => Child(k) \in 1..Len(msgs) /\ Child(k) \notin T
  <2>1. T \subseteq 1..Len(msgs)
    OBVIOUS
  <2> HIDE DEF T
  <2> QED BY <1>1, <2>1, FromLeaves
<1>3. k \in 1..Len(msgs) /\ k \in 0..Len(msgs) /\ k # 0
  BY LenProperties DEF Tree
<1>4. k \in On(msgs, k)
  BY <1>3, OnBelow
<1>5. CASE Children(k) = {}
  <2>1. Deepest(k) = k
    BY <1>3, <1>5, DeepestDef
  <2> QED BY <1>3, <1>4, <2>1
<1>6. CASE Children(k) # {}
  <2>1. Deepest(k) = Deepest(Child(k)) /\ msgs[Child(k)].parent = k
    BY <1>3, <1>6, DeepestDef, ChildDef
  <2>2. Child(k) \in 1..Len(msgs) /\ Ok(Child(k))
    BY <1>2, <1>6
  <2>3. k \in On(msgs, Child(k))
    BY <1>4, <2>1, <2>2, OnDef
  <2>4. Deepest(Child(k)) \in 0..Len(msgs)
    BY <2>2, LenProperties DEF Tree
  <2>5. k \in On(msgs, Deepest(Child(k)))
    BY <2>2, <2>3, <2>4, OnTrans
  <2> QED BY <2>1, <2>2, <2>5
<1> QED BY <1>5, <1>6

\* Selecting a message follows what is remembered.
LEMMA DeepestFollows ==
    ASSUME Tree(msgs), Points(msgs, last), Leads(msgs, last, was), Len(msgs) <= MaxMsgs,
           NEW m \in 1..Len(msgs), was[m] # 0
    PROVE  was[m] \in On(msgs, Deepest(m))
<1> DEFINE w == was[m]
           T == {k \in 1..Len(msgs) : /\ m \in On(msgs, k) /\ k \in On(msgs, w)
                                      /\ w \notin On(msgs, Deepest(k))}
<1>1. /\ w \in 1..Len(msgs) /\ m \in On(msgs, w)
      /\ \A k \in On(msgs, w) : m \in On(msgs, msgs[k].parent) => last[msgs[k].parent] = k
  BY DEF Leads
<1>2. Len(msgs) \in Nat /\ 1..Len(msgs) \subseteq 0..Len(msgs) /\ m # 0
  BY LenProperties DEF Tree
<1>3. SUFFICES ASSUME w \notin On(msgs, Deepest(m)) PROVE FALSE
  OBVIOUS
<1>4. m \in T
  BY <1>1, <1>2, <1>3, OnBelow
<1> HIDE DEF w
<1>5. PICK k \in T : Children(k) # {} => Child(k) \in 1..Len(msgs) /\ Child(k) \notin T
  <2>1. T \subseteq 1..Len(msgs) /\ T # {}
    BY <1>4
  <2> HIDE DEF T
  <2> QED BY <2>1, FromLeaves
<1>6. k \in 1..Len(msgs) /\ m \in On(msgs, k) /\ k \in On(msgs, w) /\ w \notin On(msgs, Deepest(k))
  OBVIOUS
<1>7. k # w
  BY <1>6, DeepestBelow
<1>8. PICK j \in On(msgs, w) : msgs[j].parent = k
  BY <1>1, <1>2, <1>6, <1>7, OnChild
<1>9. last[k] = j /\ j \in 1..Len(msgs) /\ j # 0
  <2>1. j \in 1..Len(msgs)
    BY <1>1, <1>2, OnBelow
  <2>2. j # 0
    BY <2>1
  <2> QED BY <1>1, <1>6, <1>8, <2>1, <2>2
<1>10. j \in Children(k)
  BY <1>8, <1>9, LenProperties DEF Children, Known, Tree
<1>11. Child(k) = j /\ Deepest(k) = Deepest(j)
  BY <1>6, <1>9, <1>10, ChildDef, DeepestDef
<1>12. m \in On(msgs, j)
  BY <1>6, <1>8, <1>9, OnDef
<1> QED BY <1>5, <1>6, <1>9, <1>10, <1>11, <1>12

-----------------------------------------------------------------------------
(* The invariant.                                                          *)

Pcs == {"point", "read", "append", "first", "reply", "repoint", "load", "ready", "tools", "turn", "done"}
Early == {"point", "read", "append"}
Untouched == \A m \in Ids : m > Len(msgs) => was[m] = 0
Stored ==
  /\ Tree(msgs) /\ Len(msgs) <= MaxMsgs /\ leaf \in 0..Len(msgs)
  /\ Points(msgs, last) /\ Leads(msgs, last, was) /\ Untouched

\* Submissions and runs in a chat of n messages, k runs having been submitted.
SubsOf(n) == [point : 0..n, has : BOOLEAN, explicit : BOOLEAN, parent : 0..n]
QueuedOf(n, k) == [id : 1..k, sub : SubsOf(n)]
ActivesOf(n, k) ==
  [id : 1..k, sub : SubsOf(n) \cup {Nil}, pc : Pcs, leaf : 0..n, left : SUBSET Calls,
   path : Seq(1..n), upto : 0..n, compacted : BOOLEAN]

\* A run that appended nothing yet is to append below a message there is; what
\* any other appended is on the path to its leaf.
NothingOf(ms, id) == \A m \in 1..Len(ms) : ms[m].run # id
RunOk(ms, k, a) ==
  /\ a \in ActivesOf(Len(ms), k)
  /\ a.pc \in Early => a.sub \in SubsOf(Len(ms)) /\ NothingOf(ms, a.id)
  /\ a.pc = "repoint" => a.leaf # 0
  /\ a.pc # "done" => \A m \in 1..Len(ms) : ms[m].run = a.id => m \in On(ms, a.leaf)
QueueOk ==
  /\ queue \in Seq(QueuedOf(Len(msgs), count.runs))
  /\ \A i, j \in 1..Len(queue) : queue[i].id = queue[j].id => i = j
  /\ \A i \in 1..Len(queue) : NothingOf(msgs, queue[i].id)
ActiveOk ==
  active # Nil => /\ RunOk(msgs, count.runs, active)
                  /\ \A i \in 1..Len(queue) : queue[i].id # active.id
OthersOk ==
  /\ mark \in 0..Len(msgs)
  /\ checked # Nil => checked \in [append : BOOLEAN, sub : SubsOf(Len(msgs))]
  /\ mail \in [Writers -> (0..Len(msgs)) \cup {Nil}]
  /\ count \in [runs : Nat, others : Nat]
  /\ \A m \in 1..Len(msgs) : msgs[m].run \in 0..count.runs
Chain(ms) ==
  \A x, y \in 1..Len(ms) : x < y /\ ms[x].run = ms[y].run /\ ms[x].run # 0 => x \in On(ms, y)
Inv == Stored /\ QueueOk /\ ActiveOk /\ OthersOk /\ Chain(msgs)

-----------------------------------------------------------------------------
(* What a transaction leaves of the store.                                 *)

\* s is the transcript ms with m added.
Extends(s, ms, m) ==
  /\ Len(s) = Len(ms) + 1 /\ s[Len(ms) + 1] = m
  /\ \A n \in 1..Len(ms) : s[n] = ms[n]
  /\ \A n \in 0..Len(ms) : On(s, n) = On(ms, n)
  /\ On(s, Len(ms) + 1) = On(ms, m.parent) \cup {Len(ms) + 1}

LEMMA StoredFacts ==
    ASSUME Stored
    PROVE  /\ Len(msgs) \in Nat /\ DOMAIN msgs = 1..Len(msgs) /\ Known = 1..Len(msgs)
           /\ \A n \in 1..Len(msgs) : msgs[n] \in Msgs /\ msgs[n].parent \in 0..(n - 1)
                                      /\ msgs[n].parent \in 0..Len(msgs) /\ n \in Ids
BY LenProperties, ElementOfSeq, TranscriptAssumption DEF Stored, Tree, Known, Ids

LEMMA StoredAppend ==
    ASSUME Stored, NEW m \in Msgs, m.parent \in 0..Len(msgs), AppendTx(m)
    PROVE  Stored' /\ Extends(msgs', msgs, m)
<1>1. /\ Tree(msgs) /\ Len(msgs) \in Nat /\ Len(msgs) < MaxMsgs /\ Points(msgs, last)
      /\ Leads(msgs, last, was) /\ Untouched /\ MaxMsgs \in Nat
  BY StoredFacts, TranscriptAssumption DEF Stored, AppendTx
<1>2. PICK s : s = Append(msgs, m)
  OBVIOUS
<1>3. /\ Tree(s) /\ Len(s) = Len(msgs) + 1 /\ s[Len(msgs) + 1] = m
      /\ \A n \in 1..Len(msgs) : s[n] = msgs[n]
  BY <1>1, <1>2, TreeGrows
<1>4. \A n \in 0..Len(msgs) : On(s, n) = On(msgs, n)
  BY <1>1, <1>2, OnGrows
<1>5. On(s, Len(s)) = On(msgs, m.parent) \cup {Len(s)}
  <2>1. Len(s) \in 1..Len(s)
    BY <1>1, <1>3
  <2>2. On(s, Len(s)) = On(s, m.parent) \cup {Len(s)}
    BY <1>3, <2>1, OnDef
  <2> QED BY <1>4, <2>2
<1>6. Points(s, last)
  BY <1>1, <1>3 DEF Points
<1>7. Leads(s, last, was)
  <2> SUFFICES ASSUME NEW x \in 1..Len(s), was[x] # 0
               PROVE  /\ was[x] \in 1..Len(s) /\ x \in On(s, was[x])
                      /\ \A k \in On(s, was[x]) : x \in On(s, s[k].parent) => last[s[k].parent] = k
    BY DEF Leads
  <2>1. x \in Ids
    BY <1>1, <1>3 DEF Ids
  <2>2. x \in 1..Len(msgs)
    BY <1>1, <1>3, <2>1 DEF Untouched
  <2>3. /\ was[x] \in 1..Len(msgs) /\ x \in On(msgs, was[x])
        /\ \A k \in On(msgs, was[x]) : x \in On(msgs, msgs[k].parent) => last[msgs[k].parent] = k
    BY <1>1, <2>2 DEF Leads
  <2>4. was[x] \in 1..Len(s) /\ was[x] \in 0..Len(msgs)
    BY <1>1, <1>3, <2>3
  <2>5. On(s, was[x]) = On(msgs, was[x])
    BY <1>4, <2>4
  <2>6. ASSUME NEW k \in On(msgs, was[x])
        PROVE  s[k] = msgs[k] /\ On(s, msgs[k].parent) = On(msgs, msgs[k].parent)
    <3>1. k \in 1..Len(msgs)
      BY <1>1, <2>4, OnBelow
    <3>2. msgs[k].parent \in 0..Len(msgs)
      BY <3>1, StoredFacts
    <3> QED BY <1>3, <1>4, <3>1, <3>2
  <2> QED BY <2>3, <2>4, <2>5, <2>6
<1>8. /\ Points(s, PathUpdate(s, Len(s))) /\ Leads(s, PathUpdate(s, Len(s)), Seen(s, Len(s)))
  <2>1. Len(s) \in 1..Len(s) /\ Len(s) <= MaxMsgs
    BY <1>1, <1>3
  <2> QED BY <1>3, <1>6, <1>7, <2>1, StillLeads
<1>9. msgs' = s /\ leaf' = Len(s) /\ last' = PathUpdate(s, Len(s)) /\ was' = Seen(s, Len(s))
  BY <1>2 DEF AppendTx
<1>10. \A x \in Ids : x > Len(s) => was'[x] = 0
  <2> SUFFICES ASSUME NEW x \in Ids, x > Len(s) PROVE was'[x] = 0
    OBVIOUS
  <2>1. Len(s) \in 0..Len(s)
    BY <1>1, <1>3
  <2>2. x \notin On(s, Len(s))
    <3>1. On(s, Len(s)) \subseteq 1..Len(s)
      BY <1>3, <2>1, OnBelow
    <3> QED BY <1>1, <1>3, <3>1 DEF Ids
  <2>3. was'[x] = was[x]
    BY <1>9, <2>2 DEF Seen
  <2>4. x > Len(msgs)
    BY <1>1, <1>3 DEF Ids
  <2> QED BY <1>1, <2>3, <2>4 DEF Untouched
<1>11. Stored'
  <2>1. leaf' \in 0..Len(s) /\ Len(s) <= MaxMsgs
    BY <1>1, <1>3, <1>9
  <2> QED BY <1>3, <1>8, <1>9, <1>10, <2>1 DEF Stored, Untouched
<1>12. Extends(msgs', msgs, m)
  BY <1>3, <1>4, <1>5, <1>9 DEF Extends
<1> QED BY <1>11, <1>12

LEMMA StoredLeaf ==
    ASSUME Stored, NEW x \in 1..Len(msgs), SetLeafTx(x), UNCHANGED msgs
    PROVE  Stored'
<1>1. /\ leaf' = x /\ last' = PathUpdate(msgs, x) /\ was' = Seen(msgs, x)
  BY DEF SetLeafTx
<1>2. /\ Tree(msgs) /\ Len(msgs) \in Nat /\ Len(msgs) <= MaxMsgs /\ Points(msgs, last)
      /\ Leads(msgs, last, was) /\ Untouched
  BY StoredFacts DEF Stored
<1>3. Points(msgs, last') /\ Leads(msgs, last', was')
  BY <1>1, <1>2, StillLeads
<1>4. \A n \in Ids : n > Len(msgs) => was'[n] = 0
  <2> SUFFICES ASSUME NEW n \in Ids, n > Len(msgs) PROVE was'[n] = 0
    OBVIOUS
  <2>1. n \notin On(msgs, x)
    <3>1. On(msgs, x) \subseteq 1..Len(msgs)
      BY <1>2, OnBelow
    <3> QED BY <1>2, <3>1 DEF Ids
  <2> QED BY <1>1, <1>2, <2>1 DEF Seen, Untouched
<1> QED BY <1>1, <1>2, <1>3, <1>4 DEF Stored, Untouched

LEMMA StoredStays ==
    ASSUME Stored, UNCHANGED <<msgs, leaf, last, was>>
    PROVE  Stored'
<1>1. Leads(msgs, last, was)' /\ Points(msgs, last)' /\ Tree(msgs)' /\ Untouched'
  BY DEF Stored, Untouched
<1> QED BY <1>1 DEF Stored

-----------------------------------------------------------------------------
(* What the transactions leave of the rest.                                *)

LEMMA Wider ==
    ASSUME NEW n \in Nat, NEW n2 \in Nat, n <= n2, NEW k \in Nat, NEW k2 \in Nat, k <= k2
    PROVE  /\ SubsOf(n) \subseteq SubsOf(n2) /\ QueuedOf(n, k) \subseteq QueuedOf(n2, k2)
           /\ ActivesOf(n, k) \subseteq ActivesOf(n2, k2)
<1>1. 0..n \subseteq 0..n2 /\ 1..n \subseteq 1..n2 /\ 1..k \subseteq 1..k2
  OBVIOUS
<1>2. SubsOf(n) \subseteq SubsOf(n2)
  BY <1>1 DEF SubsOf
<1>3. QueuedOf(n, k) \subseteq QueuedOf(n2, k2)
  BY <1>1, <1>2 DEF QueuedOf
<1>4. Seq(1..n) \subseteq Seq(1..n2)
  BY <1>1, SeqMonotonic
<1>5. ActivesOf(n, k) \subseteq ActivesOf(n2, k2)
  BY <1>1, <1>2, <1>4 DEF ActivesOf
<1> QED BY <1>2, <1>3, <1>5

\* Neither a message of somebody else nor a submission disturbs a run.
LEMMA RunStays ==
    ASSUME Stored, NEW s, NEW m, Extends(s, msgs, m), NEW k \in Nat, NEW a, RunOk(msgs, k, a), m.run # a.id
    PROVE  RunOk(s, k, a)
<1>1. /\ Len(msgs) \in Nat /\ Len(s) = Len(msgs) + 1 /\ s[Len(msgs) + 1] = m
      /\ \A n \in 1..Len(msgs) : s[n] = msgs[n]
      /\ \A n \in 0..Len(msgs) : On(s, n) = On(msgs, n)
  BY StoredFacts DEF Extends
<1>2. Len(s) \in Nat /\ Len(msgs) <= Len(s) /\ \A n \in 1..Len(s) : n = Len(msgs) + 1 \/ n \in 1..Len(msgs)
  BY <1>1
<1>3. a \in ActivesOf(Len(msgs), k) /\ a.leaf \in 0..Len(msgs)
  BY DEF RunOk, ActivesOf
<1>4. a \in ActivesOf(Len(s), k) /\ SubsOf(Len(msgs)) \subseteq SubsOf(Len(s))
  BY <1>1, <1>2, <1>3, Wider
<1>5. NothingOf(msgs, a.id) => NothingOf(s, a.id)
  BY <1>1, <1>2 DEF NothingOf
<1>6. (\A n \in 1..Len(msgs) : msgs[n].run = a.id => n \in On(msgs, a.leaf))
      => \A n \in 1..Len(s) : s[n].run = a.id => n \in On(s, a.leaf)
  BY <1>1, <1>2, <1>3
<1> QED BY <1>4, <1>5, <1>6 DEF RunOk

\* A run that appends below all that it appended is at the end of its chain.
LEMMA RunAppends ==
    ASSUME Stored, NEW s, NEW m, Extends(s, msgs, m), NEW k \in Nat, NEW a \in ActivesOf(Len(s), k),
           a.leaf = Len(s), a.pc \notin Early,
           \A n \in 1..Len(msgs) : msgs[n].run = a.id => n \in On(msgs, m.parent)
    PROVE  RunOk(s, k, a)
<1>1. /\ Len(msgs) \in Nat /\ Len(s) = Len(msgs) + 1
      /\ \A n \in 1..Len(msgs) : s[n] = msgs[n]
      /\ On(s, Len(s)) = On(msgs, m.parent) \cup {Len(s)}
  BY StoredFacts DEF Extends
<1>2. Len(s) # 0 /\ \A n \in 1..Len(s) : n = Len(s) \/ n \in 1..Len(msgs)
  BY <1>1
<1>3. ASSUME NEW n \in 1..Len(s), s[n].run = a.id PROVE n \in On(s, a.leaf)
  BY <1>1, <1>2, <1>3
<1> QED BY <1>2, <1>3 DEF RunOk

LEMMA QueueStays ==
    ASSUME Stored, QueueOk, OthersOk, NEW m, Extends(msgs', msgs, m), UNCHANGED <<queue, count>>,
           \A i \in 1..Len(queue) : queue[i].id # m.run
    PROVE  QueueOk'
<1>1. /\ Len(msgs) \in Nat /\ Len(msgs') = Len(msgs) + 1 /\ msgs'[Len(msgs) + 1] = m
      /\ \A n \in 1..Len(msgs) : msgs'[n] = msgs[n]
  BY StoredFacts DEF Extends
<1>2. Len(msgs') \in Nat /\ Len(msgs) <= Len(msgs') /\ \A n \in 1..Len(msgs') : n = Len(msgs) + 1 \/ n \in 1..Len(msgs)
  BY <1>1
<1>3. count.runs \in Nat
  BY DEF OthersOk
<1>4. QueuedOf(Len(msgs), count.runs) \subseteq QueuedOf(Len(msgs'), count.runs)
  BY <1>1, <1>2, <1>3, Wider
<1>5. queue \in Seq(QueuedOf(Len(msgs'), count.runs))
  BY <1>4, SeqMonotonic DEF QueueOk
<1>6. ASSUME NEW i \in 1..Len(queue) PROVE NothingOf(msgs', queue[i].id)
  <2>1. NothingOf(msgs, queue[i].id)
    BY DEF QueueOk
  <2> QED BY <1>1, <1>2, <2>1 DEF NothingOf
<1>7. queue' = queue /\ count' = count
  OBVIOUS
<1> QED BY <1>5, <1>6, <1>7 DEF QueueOk

LEMMA OthersStay ==
    ASSUME Stored, OthersOk, NEW m \in Msgs, Extends(msgs', msgs, m), UNCHANGED <<mark, count>>,
           m.run \in 0..count.runs, checked' = checked \/ checked' = Nil,
           mail' = mail \/ \E w \in Writers : mail' = [mail EXCEPT ![w] = Nil]
    PROVE  OthersOk'
<1>1. /\ Len(msgs) \in Nat /\ Len(msgs') = Len(msgs) + 1 /\ msgs'[Len(msgs) + 1] = m
      /\ \A n \in 1..Len(msgs) : msgs'[n] = msgs[n]
  BY StoredFacts DEF Extends
<1>2. Len(msgs') \in Nat /\ Len(msgs) <= Len(msgs') /\ \A n \in 1..Len(msgs') : n = Len(msgs) + 1 \/ n \in 1..Len(msgs)
  BY <1>1
<1>3. 0..Len(msgs) \subseteq 0..Len(msgs') /\ SubsOf(Len(msgs)) \subseteq SubsOf(Len(msgs'))
  BY <1>1, <1>2, Wider
<1>4. mark' \in 0..Len(msgs')
  BY <1>3 DEF OthersOk
<1>5. checked' # Nil => checked' \in [append : BOOLEAN, sub : SubsOf(Len(msgs'))]
  BY <1>3 DEF OthersOk
<1>6. mail' \in [Writers -> (0..Len(msgs')) \cup {Nil}]
  BY <1>3 DEF OthersOk
<1>7. \A n \in 1..Len(msgs') : msgs'[n].run \in 0..count.runs
  BY <1>1, <1>2 DEF OthersOk
<1> QED BY <1>4, <1>5, <1>6, <1>7 DEF OthersOk

LEMMA ChainGrows ==
    ASSUME Stored, Chain(msgs), NEW s, NEW m, Extends(s, msgs, m),
           \/ m.run = 0
           \/ \A n \in 1..Len(msgs) : msgs[n].run = m.run => n \in On(msgs, m.parent)
    PROVE  Chain(s)
<1>1. /\ Len(msgs) \in Nat /\ Len(s) = Len(msgs) + 1 /\ s[Len(msgs) + 1] = m
      /\ \A n \in 1..Len(msgs) : s[n] = msgs[n]
      /\ \A n \in 0..Len(msgs) : On(s, n) = On(msgs, n)
      /\ On(s, Len(msgs) + 1) = On(msgs, m.parent) \cup {Len(msgs) + 1}
  BY StoredFacts DEF Extends
<1> SUFFICES ASSUME NEW x \in 1..Len(s), NEW y \in 1..Len(s), x < y, s[x].run = s[y].run, s[x].run # 0
             PROVE  x \in On(s, y)
  BY DEF Chain
<1>2. x \in 1..Len(msgs) /\ (y \in 1..Len(msgs) \/ y = Len(msgs) + 1)
  BY <1>1
<1>3. CASE y \in 1..Len(msgs)
  <2>1. y \in 0..Len(msgs)
    BY <1>1, <1>3
  <2>2. x \in On(msgs, y)
    BY <1>1, <1>2, <1>3 DEF Chain
  <2> QED BY <1>1, <2>1, <2>2
<1>4. CASE y = Len(msgs) + 1
  BY <1>1, <1>2, <1>4
<1> QED BY <1>2, <1>3, <1>4

LEMMA InitInv == Init => Inv
<1> SUFFICES ASSUME Init PROVE Inv
  OBVIOUS
<1>1. msgs = <<>> /\ queue = <<>> /\ Len(msgs) = 0 /\ Len(queue) = 0 /\ 1..0 = {}
  BY DEF Init
<1>2. Stored
  <2>1. msgs \in Seq(Msgs)
    BY <1>1
  <2>2. Tree(msgs)
    BY <1>1, <2>1 DEF Tree
  <2> QED BY <1>1, <2>2, TranscriptAssumption DEF Init, Stored, Points, Leads, Untouched, Ids
<1>3. QueueOk
  BY <1>1 DEF QueueOk
<1>4. ActiveOk
  BY DEF Init, ActiveOk
<1>5. OthersOk
  BY <1>1 DEF Init, OthersOk
<1>6. Chain(msgs)
  BY <1>1 DEF Chain
<1> QED BY <1>2, <1>3, <1>4, <1>5, <1>6 DEF Inv

-----------------------------------------------------------------------------
(* The steps of a run that change no message.                              *)

LEMMA Quiet ==
    ASSUME Inv, UNCHANGED <<msgs, leaf, last, was>>, QueueOk', ActiveOk', OthersOk'
    PROVE  Inv'
<1>1. Stored'
  BY StoredStays DEF Inv
<1>2. Chain(msgs)'
  BY DEF Inv, Chain
<1> QED BY <1>1, <1>2 DEF Inv

\* What is known of the run that has the chat.
LEMMA ActiveFacts ==
    ASSUME Inv, active # Nil
    PROVE  /\ active \in ActivesOf(Len(msgs), count.runs) /\ RunOk(msgs, count.runs, active)
           /\ active.id \in 1..count.runs /\ active.leaf \in 0..Len(msgs) /\ active.pc \in Pcs
           /\ active.left \in SUBSET Calls /\ active.path \in Seq(1..Len(msgs))
           /\ active.upto \in 0..Len(msgs) /\ active.compacted \in BOOLEAN
           /\ active.sub \in SubsOf(Len(msgs)) \cup {Nil}
           /\ \A i \in 1..Len(queue) : queue[i].id # active.id
           /\ Len(msgs) \in Nat /\ count.runs \in Nat
<1>1. RunOk(msgs, count.runs, active) /\ \A i \in 1..Len(queue) : queue[i].id # active.id
  BY DEF Inv, ActiveOk
<1>2. active \in ActivesOf(Len(msgs), count.runs)
  BY <1>1 DEF RunOk
<1>3. Len(msgs) \in Nat /\ count.runs \in Nat
  BY StoredFacts DEF Inv, OthersOk
<1> QED BY <1>1, <1>2, <1>3 DEF ActivesOf

LEMMA QueueQuiet ==
    ASSUME QueueOk, UNCHANGED <<msgs, queue>>, count'.runs = count.runs
    PROVE  QueueOk'
BY DEF QueueOk

LEMMA QuietRun ==
    ASSUME Inv, UNCHANGED <<msgs, leaf, last, was, queue, checked, mail, count>>, active # Nil,
           mark' \in 0..Len(msgs), active'.id = active.id, RunOk(msgs, count.runs, active')
    PROVE  Inv'
<1>1. QueueOk'
  BY QueueQuiet DEF Inv
<1>2. ActiveOk'
  BY ActiveFacts DEF ActiveOk
<1>3. OthersOk'
  BY DEF Inv, OthersOk
<1> QED BY <1>1, <1>2, <1>3, Quiet

\* A run that is over is to do nothing more with what it had.
LEMMA EndedOk ==
    ASSUME NEW k \in Nat, NEW s, Len(s) \in Nat, active.id \in 1..k
    PROVE  Ended.id = active.id /\ Ended.pc = "done" /\ RunOk(s, k, Ended)
<1>1. <<>> \in Seq(1..Len(s)) /\ {} \in SUBSET Calls /\ 0 \in 0..Len(s)
  BY EmptySeq
<1>2. Ended \in ActivesOf(Len(s), k) /\ Ended.id = active.id /\ Ended.pc = "done"
  BY <1>1 DEF Ended, Active, ActivesOf, Pcs
<1> QED BY <1>2 DEF RunOk, Early

LEMMA Compacts ==
    ASSUME Stored, CompactNow
    PROVE  mark' \in 0..Len(msgs)
<1>1. PICK p : p = PathTo(msgs, leaf)
  OBVIOUS
<1>2. leaf \in 0..Len(msgs) /\ Tree(msgs) /\ Len(msgs) \in Nat
  BY StoredFacts DEF Stored
<1>3. p \in Seq(1..leaf)
  BY <1>1, <1>2, PathClimbs DEF Climbs
<1>4. PICK keep \in KeepMin..(Len(p) - 2) : mark' = p[Len(p) - keep]
  BY <1>1 DEF CompactNow
<1>5. Len(p) \in Nat /\ KeepMin \in Nat
  BY <1>3, LenProperties, TranscriptAssumption
<1>6. Len(p) - keep \in 1..Len(p)
  BY <1>5
<1>7. mark' \in 1..leaf
  BY <1>3, <1>4, <1>6, ElementOfSeq
<1> QED BY <1>2, <1>7

LEMMA LoadsPath ==
    ASSUME Stored
    PROVE  PathTo(msgs, leaf) \in Seq(1..Len(msgs))
<1>1. leaf \in 0..Len(msgs) /\ Tree(msgs) /\ Len(msgs) \in Nat
  BY StoredFacts DEF Stored
<1>2. PathTo(msgs, leaf) \in Seq(1..leaf)
  BY <1>1, PathClimbs DEF Climbs
<1>3. 1..leaf \subseteq 1..Len(msgs)
  BY <1>1
<1> QED BY <1>2, <1>3, SeqMonotonic

LEMMA EndStep ==
    ASSUME Inv, active # Nil, active' = Ended,
           UNCHANGED <<msgs, leaf, last, mark, queue, checked, mail, was, count>>
    PROVE  Inv'
<1>1. RunOk(msgs, count.runs, active') /\ active'.id = active.id
  BY ActiveFacts, EndedOk
<1>2. mark' \in 0..Len(msgs)
  BY DEF Inv, OthersOk
<1> QED BY <1>1, <1>2, QuietRun

LEMMA ReadLeafStep == Inv /\ ReadLeaf => Inv'
<1> SUFFICES ASSUME Inv, ReadLeaf PROVE Inv'
  OBVIOUS
<1>1. active # Nil /\ active.pc = "read" /\ active.pc \in Early
  BY DEF ReadLeaf, At, Early
<1>2. active.sub \in SubsOf(Len(msgs)) /\ NothingOf(msgs, active.id)
  BY <1>1, ActiveFacts DEF RunOk
<1>3. leaf \in 0..Len(msgs) /\ mark \in 0..Len(msgs)
  BY DEF Inv, Stored, OthersOk
<1>4. active' \in ActivesOf(Len(msgs), count.runs) /\ active'.id = active.id
  <2>1. CASE active.sub.has
    <3>1. PICK p \in 0..Len(msgs) :
            active' = [active EXCEPT !.pc = "append", !.sub.parent = p]
      <4>1. active.sub.parent \in 0..Len(msgs)
        BY <1>2 DEF SubsOf
      <4> QED BY <1>3, <2>1, <4>1 DEF ReadLeaf
    <3>2. [active.sub EXCEPT !.parent = p] \in SubsOf(Len(msgs))
      BY <1>2 DEF SubsOf
    <3> QED BY <1>1, <3>1, <3>2, ActiveFacts DEF ActivesOf, Pcs
  <2>2. CASE ~active.sub.has
    BY <1>1, <1>3, <2>2, ActiveFacts DEF ReadLeaf, ActivesOf, Pcs
  <2> QED BY <2>1, <2>2
<1>5. active'.pc \in {"append", "first"} /\ (active'.pc = "append" => active'.sub \in SubsOf(Len(msgs)))
  <2>1. CASE active.sub.has
    <3>1. PICK p \in 0..Len(msgs) :
            active' = [active EXCEPT !.pc = "append", !.sub.parent = p]
      <4>1. active.sub.parent \in 0..Len(msgs)
        BY <1>2 DEF SubsOf
      <4> QED BY <1>3, <2>1, <4>1 DEF ReadLeaf
    <3>2. [active.sub EXCEPT !.parent = p] \in SubsOf(Len(msgs))
      BY <1>2 DEF SubsOf
    <3> QED BY <1>1, <3>1, <3>2, ActiveFacts DEF ActivesOf
  <2>2. CASE ~active.sub.has
    BY <1>1, <2>2, ActiveFacts DEF ReadLeaf, ActivesOf
  <2> QED BY <2>1, <2>2
<1>6. NothingOf(msgs, active'.id)
  BY <1>2, <1>4
<1>7. RunOk(msgs, count.runs, active')
  BY <1>4, <1>5, <1>6 DEF RunOk, Early, NothingOf
<1> QED BY <1>1, <1>3, <1>4, <1>7, QuietRun DEF ReadLeaf

LEMMA CommandStep == Inv /\ Command => Inv'
<1> SUFFICES ASSUME Inv, Command PROVE Inv'
  OBVIOUS
<1>1. active # Nil /\ active.pc = "first" /\ active' = [active EXCEPT !.pc = "reply"]
  BY DEF Command, At
<1>2. mark' \in 0..Len(msgs)
  BY Compacts DEF Command, Inv, OthersOk
<1>3. active' \in ActivesOf(Len(msgs), count.runs) /\ active'.id = active.id
      /\ active'.leaf = active.leaf /\ active'.pc = "reply"
  BY <1>1, ActiveFacts DEF ActivesOf, Pcs
<1>4. RunOk(msgs, count.runs, active')
  BY <1>1, <1>3, ActiveFacts DEF RunOk, Early
<1> QED BY <1>1, <1>2, <1>3, <1>4, QuietRun DEF Command

LEMMA ReadChatStep == Inv /\ ReadChat => Inv'
<1> SUFFICES ASSUME Inv, ReadChat PROVE Inv'
  OBVIOUS
<1>1. /\ active # Nil /\ active.pc \in {"first", "turn"}
      /\ active' = [active EXCEPT !.pc = "load", !.upto = mark]
  BY DEF ReadChat, At
<1>2. mark \in 0..Len(msgs)
  BY DEF Inv, OthersOk
<1>3. active' \in ActivesOf(Len(msgs), count.runs) /\ active'.id = active.id
      /\ active'.leaf = active.leaf /\ active'.pc = "load"
  BY <1>1, <1>2, ActiveFacts DEF ActivesOf, Pcs
<1>4. RunOk(msgs, count.runs, active')
  BY <1>1, <1>3, ActiveFacts DEF RunOk, Early
<1> QED BY <1>1, <1>2, <1>3, <1>4, QuietRun DEF ReadChat

LEMMA LoadStep == Inv /\ Load => Inv'
<1> SUFFICES ASSUME Inv, Load PROVE Inv'
  OBVIOUS
<1>0. PICK p \in Seq(1..Len(msgs)) : p = PathTo(msgs, leaf)
  BY LoadsPath DEF Inv
<1>1. active # Nil /\ active.pc = "load" /\ active' = [active EXCEPT !.pc = "ready", !.path = p]
  BY <1>0 DEF Load, At
<1>2. mark \in 0..Len(msgs)
  BY DEF Inv, OthersOk
<1>3. active' \in ActivesOf(Len(msgs), count.runs) /\ active'.id = active.id
      /\ active'.leaf = active.leaf /\ active'.pc = "ready"
  BY <1>1, ActiveFacts DEF ActivesOf, Pcs
<1>4. RunOk(msgs, count.runs, active')
  BY <1>1, <1>3, ActiveFacts DEF RunOk, Early
<1> QED BY <1>1, <1>2, <1>3, <1>4, QuietRun DEF Load

LEMMA CompactStep == Inv /\ Compact => Inv'
<1> SUFFICES ASSUME Inv, Compact PROVE Inv'
  OBVIOUS
<1>1. /\ active # Nil /\ active.pc = "ready"
      /\ active' = [active EXCEPT !.pc = "load", !.compacted = TRUE]
  BY DEF Compact, At
<1>2. mark' \in 0..Len(msgs)
  BY Compacts DEF Compact, Inv
<1>3. active' \in ActivesOf(Len(msgs), count.runs) /\ active'.id = active.id
      /\ active'.leaf = active.leaf /\ active'.pc = "load"
  BY <1>1, ActiveFacts DEF ActivesOf, Pcs
<1>4. RunOk(msgs, count.runs, active')
  BY <1>1, <1>3, ActiveFacts DEF RunOk, Early
<1> QED BY <1>1, <1>2, <1>3, <1>4, QuietRun DEF Compact

\* A call that is over leaves the run where its last message is.
LEMMA CallOverOk ==
    ASSUME Inv, At("tools"), NEW c \in Calls, NEW cancelled \in BOOLEAN, NEW n \in Nat, Len(msgs) <= n,
           NEW l \in 0..n
    PROVE  /\ CallOver(c, cancelled, l).id = active.id
           /\ \/ CallOver(c, cancelled, l) = Ended
              \/ /\ CallOver(c, cancelled, l) \in ActivesOf(n, count.runs)
                 /\ CallOver(c, cancelled, l).leaf = l
                 /\ CallOver(c, cancelled, l).pc \in {"tools", "turn"}
<1>1. active # Nil /\ active.pc = "tools"
  BY DEF At
<1>2. active \in ActivesOf(n, count.runs)
  <2>1. active \in ActivesOf(Len(msgs), count.runs) /\ Len(msgs) \in Nat /\ count.runs \in Nat
    BY <1>1, ActiveFacts
  <2>2. count.runs <= count.runs
    BY <2>1
  <2>3. ActivesOf(Len(msgs), count.runs) \subseteq ActivesOf(n, count.runs)
    BY <2>1, <2>2, Wider
  <2> QED BY <2>1, <2>3
<1>3. Ended.id = active.id
  BY <1>1, ActiveFacts, EndedOk
<1>4. CASE active.left = {c} /\ cancelled
  BY <1>3, <1>4 DEF CallOver
<1>5. CASE ~(active.left = {c} /\ cancelled)
  <2>1. CallOver(c, cancelled, l) =
          [active EXCEPT !.left = @ \ {c}, !.leaf = l, !.pc = IF active.left = {c} THEN "turn" ELSE @]
    BY <1>5 DEF CallOver
  <2>2. PICK pc \in {"tools", "turn"} : pc = IF active.left = {c} THEN "turn" ELSE active.pc
    BY <1>1
  <2>3. CallOver(c, cancelled, l) = [active EXCEPT !.left = @ \ {c}, !.leaf = l, !.pc = pc]
    BY <2>1, <2>2
  <2> QED BY <1>2, <2>3, ZenonT(60) DEF ActivesOf, Pcs
<1> QED BY <1>4, <1>5

LEMMA ResultLostStep ==
    ASSUME Inv, NEW c \in Calls, NEW cancelled \in BOOLEAN, ResultLost(c, cancelled)
    PROVE  Inv'
<1>1. At("tools") /\ active # Nil /\ active.pc = "tools" /\ active' = CallOver(c, cancelled, active.leaf)
  BY DEF ResultLost, At
<1>2. /\ active'.id = active.id
      /\ \/ active' = Ended
         \/ /\ active' \in ActivesOf(Len(msgs), count.runs) /\ active'.leaf = active.leaf
            /\ active'.pc \in {"tools", "turn"}
  BY <1>1, ActiveFacts, CallOverOk
<1>3. CASE active' = Ended
  BY <1>1, <1>3, EndStep DEF ResultLost
<1>4. CASE active' # Ended
  <2>1. RunOk(msgs, count.runs, active')
    BY <1>1, <1>2, <1>4, ActiveFacts DEF RunOk, Early
  <2>2. mark' \in 0..Len(msgs)
    BY DEF ResultLost, Inv, OthersOk
  <2> QED BY <1>1, <1>2, <2>1, <2>2, QuietRun DEF ResultLost
<1> QED BY <1>3, <1>4

-----------------------------------------------------------------------------
(* Submissions.                                                            *)

\* A submission that is taken out of the queue leaves the others in it.
LEMMA Removed ==
    ASSUME NEW S, NEW q \in Seq(S), NEW i \in 1..Len(q)
    PROVE  /\ RemoveAt(q, i) \in Seq(S) /\ Len(RemoveAt(q, i)) = Len(q) - 1
           /\ \A j \in 1..(Len(q) - 1) : RemoveAt(q, i)[j] = q[IF j < i THEN j ELSE j + 1]
<1>1. Len(q) \in Nat /\ q = [j \in 1..Len(q) |-> q[j]] /\ i \in Nat
  BY LenProperties
<1>2. PICK a : a = SubSeq(q, 1, i - 1)
  OBVIOUS
<1>3. PICK b : b = SubSeq(q, i + 1, Len(q))
  OBVIOUS
<1>4. /\ a \in Seq(S) /\ Len(a) = i - 1
      /\ \A j \in 1..Len(a) : a[j] = q[1 + j - 1]
  <2>1. \A j \in 1..(i - 1) : q[j] \in S
    BY <1>1, ElementOfSeq
  <2> QED BY <1>1, <1>2, <2>1, SubSeqProperties
<1>5. /\ b \in Seq(S) /\ Len(b) = Len(q) - i
      /\ \A j \in 1..Len(b) : b[j] = q[(i + 1) + j - 1]
  <2>1. \A j \in (i + 1)..Len(q) : q[j] \in S
    BY <1>1, ElementOfSeq
  <2> QED BY <1>1, <1>3, <2>1, SubSeqProperties
<1>6. RemoveAt(q, i) = a \o b
  BY <1>2, <1>3 DEF RemoveAt
<1>7. PICK r : r = a \o b
  OBVIOUS
<1>8. /\ r \in Seq(S) /\ Len(r) = Len(a) + Len(b)
      /\ \A j \in 1..(Len(a) + Len(b)) : r[j] = IF j <= Len(a) THEN a[j] ELSE b[j - Len(a)]
  BY <1>4, <1>5, <1>7, ConcatProperties
<1>9. ASSUME NEW j \in 1..(Len(q) - 1) PROVE r[j] = q[IF j < i THEN j ELSE j + 1]
  <2>1. j \in 1..(Len(a) + Len(b)) /\ j \in Nat
    BY <1>1, <1>4, <1>5
  <2>2. CASE j < i
    <3>1. j <= Len(a) /\ j \in 1..Len(a) /\ 1 + j - 1 = j
      BY <1>1, <1>4, <2>1, <2>2
    <3> QED BY <1>4, <1>8, <2>1, <2>2, <3>1
  <2>3. CASE ~(j < i)
    <3>1. ~(j <= Len(a)) /\ j - Len(a) \in 1..Len(b) /\ (i + 1) + (j - Len(a)) - 1 = j + 1
      BY <1>1, <1>4, <1>5, <2>1, <2>3, SMTT(30), ZenonT(60), Z3T(60)
    <3> QED BY <1>5, <1>8, <2>1, <2>3, <3>1
  <2> QED BY <2>2, <2>3
<1>10. Len(r) = Len(q) - 1
  BY <1>1, <1>4, <1>5, <1>8
<1> QED BY <1>6, <1>7, <1>8, <1>9, <1>10

LEMMA CancelStep ==
    ASSUME Inv, NEW i \in DOMAIN queue, CancelQueued(i)
    PROVE  Inv'
<1>1. /\ queue \in Seq(QueuedOf(Len(msgs), count.runs)) /\ Len(queue) \in Nat
      /\ i \in 1..Len(queue)
  BY LenProperties DEF Inv, QueueOk
<1>2. PICK q : q = RemoveAt(queue, i)
  OBVIOUS
<1>3. /\ q \in Seq(QueuedOf(Len(msgs), count.runs)) /\ Len(q) = Len(queue) - 1
      /\ \A j \in 1..(Len(queue) - 1) : q[j] = queue[IF j < i THEN j ELSE j + 1]
  BY <1>1, <1>2, Removed
<1>4. queue' = q /\ UNCHANGED <<msgs, leaf, last, mark, active, checked, mail, was, count>>
  BY <1>2 DEF CancelQueued
<1>5. ASSUME NEW j \in 1..Len(q)
      PROVE  (IF j < i THEN j ELSE j + 1) \in 1..Len(queue) /\ q[j] = queue[IF j < i THEN j ELSE j + 1]
  BY <1>1, <1>3
<1>6. QueueOk'
  <2>1. ASSUME NEW j \in 1..Len(q), NEW k \in 1..Len(q), q[j].id = q[k].id PROVE j = k
    <3>1. (IF j < i THEN j ELSE j + 1) = (IF k < i THEN k ELSE k + 1)
      BY <1>5, <2>1, SMTT(30), ZenonT(60), Z3T(60) DEF Inv, QueueOk
    <3> QED BY <1>1, <1>3, <3>1
  <2>2. \A j \in 1..Len(q) : NothingOf(msgs, q[j].id)
    BY <1>5 DEF Inv, QueueOk
  <2>3. \A j, k \in 1..Len(q) : q[j].id = q[k].id => j = k
    BY <2>1
  <2> QED BY <1>3, <1>4, <2>2, <2>3 DEF QueueOk
<1>7. ActiveOk'
  <2>1. active # Nil => \A j \in 1..Len(q) : q[j].id # active.id
    BY <1>5 DEF Inv, ActiveOk
  <2> QED BY <1>4, <2>1 DEF Inv, ActiveOk
<1>8. OthersOk'
  BY <1>4 DEF Inv, OthersOk
<1> QED BY <1>4, <1>6, <1>7, <1>8, Quiet

LEMMA SubmitStep ==
    ASSUME Inv, NEW sub \in SubsOf(Len(msgs)), Submit(sub), UNCHANGED <<msgs, leaf, last, mark, mail, was>>,
           checked' = checked \/ checked' = Nil
    PROVE  Inv'
<1>1. /\ Len(msgs) \in Nat /\ count \in [runs : Nat, others : Nat] /\ count.runs \in Nat
      /\ \A m \in 1..Len(msgs) : msgs[m].run \in 0..count.runs
  BY StoredFacts DEF Inv, OthersOk
<1>2. /\ count' \in [runs : Nat, others : Nat] /\ count'.runs = count.runs + 1
  BY <1>1 DEF Submit
<1> DEFINE k == count.runs
           id == count.runs + 1
<1>3. id \in Nat /\ id \in 1..id /\ k <= id /\ \A i \in 1..k : i # id
  BY <1>1
<1>4. NothingOf(msgs, id)
  BY <1>1, <1>3 DEF NothingOf
<1>5. QueuedOf(Len(msgs), k) \subseteq QueuedOf(Len(msgs), id)
      /\ ActivesOf(Len(msgs), k) \subseteq ActivesOf(Len(msgs), id)
  BY <1>1, <1>3, Wider
<1>6. /\ queue \in Seq(QueuedOf(Len(msgs), id)) /\ Len(queue) \in Nat
      /\ \A i \in 1..Len(queue) : queue[i] \in QueuedOf(Len(msgs), k) /\ queue[i].id # id
  <2>1. queue \in Seq(QueuedOf(Len(msgs), k))
    BY DEF Inv, QueueOk
  <2>2. queue \in Seq(QueuedOf(Len(msgs), id)) /\ Len(queue) \in Nat
    BY <1>5, <2>1, SeqMonotonic, LenProperties
  <2>3. ASSUME NEW i \in 1..Len(queue) PROVE queue[i] \in QueuedOf(Len(msgs), k) /\ queue[i].id # id
    <3>1. queue[i] \in QueuedOf(Len(msgs), k)
      BY <2>1, ElementOfSeq
    <3> QED BY <1>3, <3>1 DEF QueuedOf
  <2> QED BY <2>2, <2>3
<1>7. OthersOk'
  BY <1>1, <1>2 DEF Inv, OthersOk
<1>8. CASE active = Nil
  <2>1. active' = Active(id, sub) /\ queue' = queue
    BY <1>8 DEF Submit
  <2>2. QueueOk'
    BY <1>2, <1>6, <2>1 DEF Inv, QueueOk
  <2>3. Active(id, sub) \in ActivesOf(Len(msgs), id)
    <3>1. <<>> \in Seq(1..Len(msgs)) /\ {} \in SUBSET Calls /\ 0 \in 0..Len(msgs)
      BY <1>1, EmptySeq
    <3> QED BY <1>3, <3>1 DEF Active, ActivesOf, Pcs
  <2>4. RunOk(msgs, id, Active(id, sub)) /\ Active(id, sub).id = id
    BY <1>4, <2>3 DEF Active, RunOk, Early, NothingOf
  <2>5. ActiveOk'
    BY <1>2, <1>6, <2>1, <2>4 DEF ActiveOk
  <2> QED BY <1>7, <2>2, <2>5, Quiet
<1>9. CASE active # Nil
  <2>1. PICK x : x = [id |-> id, sub |-> sub]
    OBVIOUS
  <2>2. x \in QueuedOf(Len(msgs), id) /\ x.id = id
    BY <1>3, <2>1 DEF QueuedOf
  <2>3. active' = active /\ queue' = Append(queue, x)
    BY <1>9, <2>1 DEF Submit
  <2>4. /\ queue' \in Seq(QueuedOf(Len(msgs), id)) /\ Len(queue') = Len(queue) + 1
        /\ queue'[Len(queue) + 1] = x /\ \A i \in 1..Len(queue) : queue'[i] = queue[i]
    BY <1>6, <2>2, <2>3, AppendProperties
  <2>5. \A i \in 1..Len(queue') : i = Len(queue) + 1 \/ i \in 1..Len(queue)
    BY <1>6, <2>4
  <2>6. QueueOk'
    <3>1. ASSUME NEW i \in 1..Len(queue'), NEW j \in 1..Len(queue'), queue'[i].id = queue'[j].id PROVE i = j
      BY <1>6, <2>2, <2>4, <2>5, <3>1 DEF Inv, QueueOk
    <3>2. ASSUME NEW i \in 1..Len(queue') PROVE NothingOf(msgs, queue'[i].id)
      BY <1>4, <2>2, <2>4, <2>5 DEF Inv, QueueOk
    <3>3. \A i, j \in 1..Len(queue') : queue'[i].id = queue'[j].id => i = j
      BY <3>1
    <3> QED BY <1>2, <2>4, <3>2, <3>3 DEF QueueOk
  <2>7. ActiveOk'
    <3>1. active.id # id /\ \A i \in 1..Len(queue) : queue[i].id # active.id
      BY <1>3, <1>9, ActiveFacts
    <3>2. RunOk(msgs, id, active)
      BY <1>5, <1>9, ActiveFacts DEF RunOk
    <3>3. \A i \in 1..Len(queue') : queue'[i].id # active.id
      BY <2>2, <2>4, <2>5, <3>1
    <3> QED BY <1>2, <2>3, <3>2, <3>3 DEF ActiveOk
  <2> QED BY <1>7, <2>6, <2>7, Quiet
<1> QED BY <1>8, <1>9

LEMMA FinishStep == Inv /\ Finish => Inv'
<1> SUFFICES ASSUME Inv, Finish PROVE Inv'
  OBVIOUS
<1>1. /\ Len(msgs) \in Nat /\ count.runs \in Nat /\ queue \in Seq(QueuedOf(Len(msgs), count.runs))
      /\ Len(queue) \in Nat
      /\ UNCHANGED <<msgs, leaf, last, mark, checked, mail, was, count>>
  BY StoredFacts, LenProperties DEF Inv, QueueOk, OthersOk, Finish
<1>2. OthersOk'
  BY <1>1 DEF Inv, OthersOk
<1>3. CASE queue = <<>>
  <2>1. active' = Nil /\ queue' = queue
    BY <1>3 DEF Finish
  <2>2. QueueOk'
    BY <1>1, <2>1, QueueQuiet DEF Inv
  <2>3. ActiveOk'
    BY <2>1 DEF ActiveOk
  <2> QED BY <1>1, <1>2, <2>2, <2>3, Quiet
<1>4. CASE queue # <<>>
  <2>1. /\ Head(queue) = queue[1] /\ 1 \in 1..Len(queue) /\ Tail(queue) \in Seq(QueuedOf(Len(msgs), count.runs))
        /\ Len(Tail(queue)) = Len(queue) - 1
        /\ \A i \in 1..(Len(queue) - 1) : Tail(queue)[i] = queue[i + 1]
    BY <1>1, <1>4, HeadTailProperties
  <2>2. queue[1] \in QueuedOf(Len(msgs), count.runs)
    BY <1>1, <2>1, ElementOfSeq
  <2>3. queue' = Tail(queue) /\ active' = Active(queue[1].id, queue[1].sub)
    BY <1>4, <2>1 DEF Finish
  <2>4. QueueOk'
    <3>1. \A i \in 1..Len(queue') : i + 1 \in 1..Len(queue) /\ queue'[i] = queue[i + 1]
      BY <1>1, <2>1, <2>3
    <3>2. ASSUME NEW i \in 1..Len(queue'), NEW j \in 1..Len(queue'), queue'[i].id = queue'[j].id PROVE i = j
      <4>1. i + 1 = j + 1
        BY <3>1, <3>2 DEF Inv, QueueOk
      <4> QED BY <4>1
    <3>3. \A i, j \in 1..Len(queue') : queue'[i].id = queue'[j].id => i = j
      BY <3>2
    <3>4. \A i \in 1..Len(queue') : NothingOf(msgs, queue'[i].id)
      BY <3>1 DEF Inv, QueueOk
    <3> QED BY <1>1, <2>1, <2>3, <3>3, <3>4 DEF QueueOk
  <2>5. active' \in ActivesOf(Len(msgs), count.runs) /\ active'.id = queue[1].id /\ active'.sub = queue[1].sub
        /\ active'.pc = "point" /\ active'.leaf = 0
    <3>1. <<>> \in Seq(1..Len(msgs)) /\ {} \in SUBSET Calls /\ 0 \in 0..Len(msgs)
      BY <1>1, EmptySeq
    <3> QED BY <2>2, <2>3, <3>1 DEF Active, ActivesOf, QueuedOf, Pcs
  <2>6. NothingOf(msgs, queue[1].id)
    BY <2>1 DEF Inv, QueueOk
  <2>7. RunOk(msgs, count.runs, active')
    BY <2>2, <2>5, <2>6 DEF RunOk, Early, NothingOf, QueuedOf
  <2>8. ASSUME NEW i \in 1..Len(queue') PROVE queue'[i].id # active'.id
    <3>1. i + 1 \in 1..Len(queue) /\ queue'[i] = queue[i + 1] /\ i + 1 # 1
      BY <1>1, <2>1, <2>3
    <3> QED BY <2>1, <2>5, <3>1 DEF Inv, QueueOk
  <2>9. ActiveOk'
    BY <1>1, <2>7, <2>8 DEF ActiveOk
  <2> QED BY <1>1, <1>2, <2>4, <2>9, Quiet
<1> QED BY <1>3, <1>4

LEMMA PostStep ==
    ASSUME Inv, NEW p \in {0} \cup Known, Post(p)
    PROVE  Inv'
<1>1. p \in 0..Len(msgs) /\ Len(msgs) \in Nat
  BY StoredFacts DEF Inv
<1>2. Sub(0, TRUE, p # 0, p) \in SubsOf(Len(msgs))
  BY <1>1 DEF Sub, SubsOf
<1> QED BY <1>2, SubmitStep DEF Post

\* Branch checks first and acts later: meanwhile only messages are added.
LEMMA CheckBranchStep ==
    ASSUME Inv, NEW from \in Known, NEW edit \in BOOLEAN, CheckBranch(from, edit)
    PROVE  Inv'
<1>1. /\ Len(msgs) \in Nat /\ from \in 1..Len(msgs) /\ from \in 0..Len(msgs)
      /\ msgs[from].parent \in 0..Len(msgs)
  BY StoredFacts DEF Inv
<1>2. PICK u \in 0..Len(msgs) : u = msgs[from].parent
  BY <1>1
<1>3. checked' \in [append : BOOLEAN, sub : SubsOf(Len(msgs))]
  <2>1. 0 \in 0..Len(msgs)
    BY <1>1
  <2>2. /\ Sub(0, TRUE, TRUE, u) \in SubsOf(Len(msgs)) /\ Sub(u, FALSE, FALSE, 0) \in SubsOf(Len(msgs))
        /\ Sub(from, FALSE, FALSE, 0) \in SubsOf(Len(msgs))
    BY <1>1, <2>1 DEF Sub, SubsOf
  <2>3. PICK app \in BOOLEAN, sub \in SubsOf(Len(msgs)) : checked' = [append |-> app, sub |-> sub]
    BY <1>2, <2>2 DEF CheckBranch
  <2> QED BY <2>3
<1>4. UNCHANGED <<msgs, leaf, last, mark, active, queue, mail, was, count>>
  BY DEF CheckBranch
<1>5. QueueOk'
  BY <1>4, QueueQuiet DEF Inv
<1>6. ActiveOk'
  BY <1>4 DEF Inv, ActiveOk
<1>7. OthersOk'
  BY <1>3, <1>4 DEF Inv, OthersOk
<1> QED BY <1>4, <1>5, <1>6, <1>7, Quiet

LEMMA CrashStep == Inv /\ Crash => Inv'
<1> SUFFICES ASSUME Inv, Crash PROVE Inv'
  OBVIOUS
<1>1. /\ UNCHANGED <<msgs, leaf, last, mark, was>> /\ active' = Nil /\ queue' = <<>> /\ checked' = Nil
      /\ mail' = [w \in Writers |-> Nil] /\ count' = [count EXCEPT !.others = @ + 1]
  BY DEF Crash
<1>2. QueueOk'
  BY <1>1 DEF QueueOk
<1>3. ActiveOk'
  BY <1>1 DEF ActiveOk
<1>4. count' \in [runs : Nat, others : Nat] /\ count'.runs = count.runs
  BY <1>1 DEF Inv, OthersOk
<1>5. OthersOk'
  BY <1>1, <1>4 DEF Inv, OthersOk
<1> QED BY <1>1, <1>2, <1>3, <1>5, Quiet

LEMMA MailReadStep ==
    ASSUME Inv, NEW w \in Writers, MailRead(w)
    PROVE  Inv'
<1>1. /\ UNCHANGED <<msgs, leaf, last, mark, active, queue, checked, was>>
      /\ mail' = [mail EXCEPT ![w] = leaf] /\ count' = [count EXCEPT !.others = @ + 1]
      /\ leaf \in 0..Len(msgs)
  BY DEF MailRead, Inv, Stored
<1>2. count' \in [runs : Nat, others : Nat] /\ count'.runs = count.runs
  BY <1>1 DEF Inv, OthersOk
<1>3. QueueOk'
  BY <1>1, <1>2, QueueQuiet DEF Inv
<1>4. ActiveOk'
  BY <1>1, <1>2 DEF Inv, ActiveOk
<1>5. mail' \in [Writers -> (0..Len(msgs)) \cup {Nil}]
  BY <1>1 DEF Inv, OthersOk
<1>6. OthersOk'
  BY <1>1, <1>2, <1>5 DEF Inv, OthersOk
<1> QED BY <1>1, <1>3, <1>4, <1>6, Quiet

-----------------------------------------------------------------------------
(* The steps that point the chat elsewhere.                                *)

LEMMA LeafMoved ==
    ASSUME Inv, NEW x \in 1..Len(msgs), SetLeafTx(x), UNCHANGED msgs, QueueOk', ActiveOk', OthersOk'
    PROVE  Inv'
<1>1. Stored'
  BY StoredLeaf DEF Inv
<1>2. Chain(msgs)'
  BY DEF Inv, Chain
<1> QED BY <1>1, <1>2 DEF Inv

LEMMA PointStep == Inv /\ Point => Inv'
<1> SUFFICES ASSUME Inv, Point PROVE Inv'
  OBVIOUS
<1>1. /\ active # Nil /\ active.pc = "point" /\ active' = [active EXCEPT !.pc = "read"]
      /\ UNCHANGED <<msgs, mark, queue, checked, mail, count>>
  BY DEF Point, At
<1>2. active.sub \in SubsOf(Len(msgs)) /\ NothingOf(msgs, active.id)
  BY <1>1, ActiveFacts DEF RunOk, Early
<1>3. active' \in ActivesOf(Len(msgs), count.runs) /\ active'.id = active.id
      /\ active'.sub = active.sub /\ active'.pc = "read"
  BY <1>1, ActiveFacts DEF ActivesOf, Pcs
<1>4. RunOk(msgs, count.runs, active')
  BY <1>2, <1>3 DEF RunOk, NothingOf
<1>5. ActiveOk'
  BY <1>1, <1>3, <1>4, ActiveFacts DEF ActiveOk
<1>6. QueueOk' /\ OthersOk'
  BY <1>1, QueueQuiet DEF Inv, OthersOk
<1>7. CASE active.sub.point = 0
  BY <1>1, <1>5, <1>6, <1>7, Quiet DEF Point
<1>8. CASE active.sub.point # 0
  <2>1. active.sub.point \in 1..Len(msgs)
    BY <1>1, <1>2, <1>8, ActiveFacts DEF SubsOf
  <2> QED BY <1>1, <1>5, <1>6, <1>8, <2>1, LeafMoved DEF Point
<1> QED BY <1>7, <1>8

LEMMA RepointStep == Inv /\ Repoint => Inv'
<1> SUFFICES ASSUME Inv, Repoint PROVE Inv'
  OBVIOUS
<1>1. /\ active # Nil /\ active.pc = "repoint" /\ active' = Ended /\ SetLeafTx(active.leaf)
      /\ UNCHANGED <<msgs, mark, queue, checked, mail, count>>
  BY DEF Repoint, At
<1>2. active.leaf \in 1..Len(msgs)
  <2>1. active.leaf # 0
    BY <1>1, ActiveFacts DEF RunOk
  <2> QED BY <1>1, <2>1, ActiveFacts
<1>3. RunOk(msgs, count.runs, active') /\ active'.id = active.id
  BY <1>1, ActiveFacts, EndedOk
<1>4. ActiveOk'
  BY <1>1, <1>3, ActiveFacts DEF ActiveOk
<1>5. QueueOk' /\ OthersOk'
  BY <1>1, QueueQuiet DEF Inv, OthersOk
<1> QED BY <1>1, <1>2, <1>4, <1>5, LeafMoved

LEMMA SelectStep ==
    ASSUME Inv, NEW m \in Known, NEW deep \in BOOLEAN, Select(m, deep)
    PROVE  Inv'
<1>1. m \in 1..Len(msgs) /\ Tree(msgs) /\ Points(msgs, last) /\ Len(msgs) <= MaxMsgs
  BY StoredFacts DEF Inv, Stored
<1>2. PICK x : x = IF deep THEN Deepest(m) ELSE m
  OBVIOUS
<1>3. x \in 1..Len(msgs)
  BY <1>1, <1>2, DeepestBelow
<1>4. SetLeafTx(x) /\ UNCHANGED <<msgs, mark, active, queue, checked, mail>>
      /\ count' = [count EXCEPT !.others = @ + 1]
  BY <1>2 DEF Select
<1>5. count' \in [runs : Nat, others : Nat] /\ count'.runs = count.runs
  BY <1>4 DEF Inv, OthersOk
<1>6. QueueOk'
  BY <1>4, <1>5, QueueQuiet DEF Inv
<1>7. ActiveOk'
  BY <1>4, <1>5 DEF Inv, ActiveOk
<1>8. OthersOk'
  BY <1>4, <1>5 DEF Inv, OthersOk
<1> QED BY <1>3, <1>4, <1>6, <1>7, <1>8, LeafMoved

-----------------------------------------------------------------------------
(* The steps that append.                                                  *)

\* A message nobody's run appends.
LEMMA OtherAppends ==
    ASSUME Inv, NEW m \in Msgs, m.parent \in 0..Len(msgs), m.run = 0, AppendTx(m),
           UNCHANGED <<active, queue, mark, count>>, checked' = checked \/ checked' = Nil,
           mail' = mail \/ \E w \in Writers : mail' = [mail EXCEPT ![w] = Nil]
    PROVE  Inv'
<1>1. Stored' /\ Extends(msgs', msgs, m) /\ count.runs \in Nat
  BY StoredAppend DEF Inv, OthersOk
<1>2. ASSUME NEW i \in 1..Len(queue) PROVE queue[i].id # m.run
  <2>1. queue[i] \in QueuedOf(Len(msgs), count.runs)
    BY ElementOfSeq DEF Inv, QueueOk
  <2> QED BY <1>1, <2>1 DEF QueuedOf
<1>3. QueueOk' /\ OthersOk'
  BY <1>1, <1>2, QueueStays, OthersStay DEF Inv
<1>4. ASSUME active # Nil PROVE RunOk(msgs', count.runs, active)
  <2>1. RunOk(msgs, count.runs, active) /\ m.run # active.id
    BY <1>1, <1>4, ActiveFacts
  <2> QED BY <1>1, <2>1, RunStays DEF Inv
<1>5. ActiveOk'
  BY <1>4 DEF Inv, ActiveOk
<1>6. Chain(msgs')
  BY <1>1, ChainGrows DEF Inv
<1> QED BY <1>1, <1>3, <1>5, <1>6 DEF Inv

LEMMA BranchStep == Inv /\ Branch => Inv'
<1> SUFFICES ASSUME Inv, Branch PROVE Inv'
  OBVIOUS
<1>1. /\ checked \in [append : BOOLEAN, sub : SubsOf(Len(msgs))] /\ checked' = Nil
      /\ UNCHANGED <<mark, mail>>
  BY DEF Inv, OthersOk, Branch
<1>2. checked.sub \in SubsOf(Len(msgs)) /\ checked.sub.parent \in 0..Len(msgs)
  BY <1>1 DEF SubsOf
<1>3. CASE checked.append
  <2>1. PICK m : m = Msg(checked.sub.parent, "assistant", {}, Nil, 0)
    OBVIOUS
  <2>2. m \in Msgs /\ m.parent \in 0..Len(msgs) /\ m.run = 0
    BY <1>2, <2>1 DEF Msg, Msgs
  <2>3. AppendTx(m) /\ UNCHANGED <<active, queue, count>>
    BY <1>3, <2>1 DEF Branch
  <2> QED BY <1>1, <2>2, <2>3, OtherAppends
<1>4. CASE ~checked.append
  BY <1>1, <1>2, <1>4, SubmitStep DEF Branch
<1> QED BY <1>3, <1>4

LEMMA MailAppendStep ==
    ASSUME Inv, NEW w \in Writers, MailAppend(w)
    PROVE  Inv'
<1>1. mail[w] \in 0..Len(msgs)
  BY DEF Inv, OthersOk, MailAppend
<1>2. PICK m : m = Msg(mail[w], "user", {}, Nil, 0)
  OBVIOUS
<1>3. m \in Msgs /\ m.parent \in 0..Len(msgs) /\ m.run = 0
  BY <1>1, <1>2 DEF Msg, Msgs
<1>4. /\ AppendTx(m) /\ UNCHANGED <<active, queue, mark, count, checked>>
      /\ mail' = [mail EXCEPT ![w] = Nil]
  BY <1>2 DEF MailAppend
<1> QED BY <1>3, <1>4, OtherAppends

\* A message of the run that has the chat, or of nobody, below all that the run appended.
LEMMA OwnAppends ==
    ASSUME Inv, active # Nil, NEW m \in Msgs, m.parent \in 0..Len(msgs), m.run \in {0, active.id}, AppendTx(m),
           UNCHANGED <<mark, queue, checked, mail, count>>, active'.id = active.id,
           \A n \in 1..Len(msgs) : msgs[n].run = active.id => n \in On(msgs, m.parent),
           \/ active' = Ended
           \/ /\ active' \in ActivesOf(Len(msgs'), count.runs)
              /\ active'.leaf = Len(msgs') /\ active'.pc \notin Early
    PROVE  Inv'
<1>1. Stored' /\ Extends(msgs', msgs, m) /\ Len(msgs') \in Nat
  <2>1. Stored' /\ Extends(msgs', msgs, m)
    BY StoredAppend DEF Inv
  <2> QED BY <2>1, ActiveFacts DEF Extends
<1>2. ASSUME NEW i \in 1..Len(queue) PROVE queue[i].id # m.run
  <2>1. queue[i] \in QueuedOf(Len(msgs), count.runs)
    BY ElementOfSeq DEF Inv, QueueOk
  <2>2. queue[i].id # 0
    BY <2>1, ActiveFacts DEF QueuedOf
  <2> QED BY <2>2, ActiveFacts
<1>3. QueueOk' /\ OthersOk'
  <2>1. m.run \in 0..count.runs
    BY ActiveFacts
  <2> QED BY <1>1, <1>2, <2>1, QueueStays, OthersStay DEF Inv
<1>4. RunOk(msgs', count.runs, active')
  <2>1. CASE active' = Ended
    BY <1>1, <2>1, ActiveFacts, EndedOk
  <2>2. CASE active' # Ended
    BY <1>1, <2>2, ActiveFacts, RunAppends DEF Inv
  <2> QED BY <2>1, <2>2
<1>5. ActiveOk'
  BY <1>4, ActiveFacts DEF ActiveOk
<1>6. Chain(msgs')
  BY <1>1, ChainGrows DEF Inv
<1> QED BY <1>1, <1>3, <1>5, <1>6 DEF Inv

\* What the run's record may hold once a message more is stored.
LEMMA ActiveGrows ==
    ASSUME Inv, active # Nil, NEW m, AppendTx(m)
    PROVE  /\ active \in ActivesOf(Len(msgs'), count.runs)
           /\ Len(msgs') = Len(msgs) + 1 /\ Len(msgs') \in Nat /\ Len(msgs') \in 0..Len(msgs')
<1>1. Len(msgs) \in Nat /\ count.runs \in Nat /\ active \in ActivesOf(Len(msgs), count.runs)
  BY ActiveFacts
<1>2. Len(msgs') = Len(msgs) + 1
  BY LenProperties, AppendProperties DEF AppendTx, Inv, Stored, Tree
<1>3. Len(msgs') \in Nat /\ Len(msgs) <= Len(msgs') /\ count.runs <= count.runs
  BY <1>1, <1>2
<1>4. ActivesOf(Len(msgs), count.runs) \subseteq ActivesOf(Len(msgs'), count.runs)
  BY <1>1, <1>3, Wider
<1> QED BY <1>1, <1>2, <1>3, <1>4

LEMMA AppendTriggerStep == Inv /\ AppendTrigger => Inv'
<1> SUFFICES ASSUME Inv, AppendTrigger PROVE Inv'
  OBVIOUS
<1>1. /\ active # Nil /\ active.pc = "append"
      /\ active' = [active EXCEPT !.pc = "first", !.leaf = Len(msgs'), !.sub = Nil]
      /\ UNCHANGED <<mark, queue, checked, mail, count>>
  BY DEF AppendTrigger, At
<1>2. active.sub \in SubsOf(Len(msgs)) /\ NothingOf(msgs, active.id)
  BY <1>1, ActiveFacts DEF RunOk, Early
<1>3. PICK m : m = Msg(active.sub.parent, "user", {}, Nil, active.id)
  OBVIOUS
<1>4. active.sub.parent \in 0..Len(msgs) /\ active.id \in Nat
  BY <1>1, <1>2, ActiveFacts DEF SubsOf
<1>5. m \in Msgs /\ m.parent \in 0..Len(msgs) /\ m.run = active.id /\ AppendTx(m)
  BY <1>3, <1>4 DEF Msg, Msgs, AppendTrigger
<1>6. /\ active' \in ActivesOf(Len(msgs'), count.runs) /\ active'.id = active.id
      /\ active'.leaf = Len(msgs') /\ active'.pc = "first"
  BY <1>1, <1>5, ActiveGrows DEF ActivesOf, Pcs
<1>7. active'.pc \notin Early
  BY <1>6 DEF Early
<1> QED BY <1>1, <1>2, <1>5, <1>6, <1>7, OwnAppends DEF NothingOf

LEMMA ReplyStep == Inv /\ Reply => Inv'
<1> SUFFICES ASSUME Inv, Reply PROVE Inv'
  OBVIOUS
<1>1. /\ active # Nil /\ active.pc = "reply"
      /\ active' = [active EXCEPT !.pc = "repoint", !.leaf = Len(msgs')]
      /\ UNCHANGED <<mark, queue, checked, mail, count>>
  BY DEF Reply, At
<1>2. PICK m : m = Msg(active.leaf, "assistant", {}, Nil, 0)
  OBVIOUS
<1>3. m \in Msgs /\ m.parent = active.leaf /\ m.parent \in 0..Len(msgs) /\ m.run = 0 /\ AppendTx(m)
  BY <1>1, <1>2, ActiveFacts DEF Msg, Msgs, Reply
<1>4. /\ active' \in ActivesOf(Len(msgs'), count.runs) /\ active'.id = active.id
      /\ active'.leaf = Len(msgs') /\ active'.pc = "repoint"
  BY <1>1, <1>3, ActiveGrows DEF ActivesOf, Pcs
<1>5. active'.pc \notin Early
  BY <1>4 DEF Early
<1>6. \A n \in 1..Len(msgs) : msgs[n].run = active.id => n \in On(msgs, m.parent)
  BY <1>1, <1>3, ActiveFacts DEF RunOk
<1> QED BY <1>1, <1>3, <1>4, <1>5, <1>6, OwnAppends

LEMMA AnswerStep ==
    ASSUME Inv, NEW calls \in SUBSET Calls, Answer(calls)
    PROVE  Inv'
<1>1. /\ active # Nil /\ active.pc = "ready" /\ UNCHANGED <<mark, queue, checked, mail, count>>
  BY DEF Answer, At
<1>2. PICK m : m = Msg(active.leaf, "assistant", calls, Nil, active.id)
  OBVIOUS
<1>3. m \in Msgs /\ m.parent = active.leaf /\ m.parent \in 0..Len(msgs) /\ m.run = active.id /\ AppendTx(m)
  BY <1>1, <1>2, ActiveFacts DEF Msg, Msgs, Answer
<1>4. \A n \in 1..Len(msgs) : msgs[n].run = active.id => n \in On(msgs, m.parent)
  BY <1>1, <1>3, ActiveFacts DEF RunOk
<1>5. CASE calls = {}
  <2>1. active' = Ended /\ active'.id = active.id
    BY <1>1, <1>5, ActiveFacts, EndedOk DEF Answer
  <2> QED BY <1>1, <1>3, <1>4, <2>1, OwnAppends
<1>6. CASE calls # {}
  <2>1. active' = [active EXCEPT !.pc = "tools", !.leaf = Len(msgs'), !.left = calls, !.path = <<>>, !.upto = 0]
    BY <1>6 DEF Answer
  <2>2. <<>> \in Seq(1..Len(msgs')) /\ 0 \in 0..Len(msgs')
    BY <1>1, <1>3, ActiveGrows, EmptySeq
  <2>3. /\ active' \in ActivesOf(Len(msgs'), count.runs) /\ active'.id = active.id
        /\ active'.leaf = Len(msgs') /\ active'.pc = "tools"
    BY <1>1, <1>3, <2>1, <2>2, ActiveGrows DEF ActivesOf, Pcs
  <2>4. active'.pc \notin Early
    BY <2>3 DEF Early
  <2> QED BY <1>1, <1>3, <1>4, <2>3, <2>4, OwnAppends
<1> QED BY <1>5, <1>6

LEMMA ToolResultStep ==
    ASSUME Inv, NEW c \in Calls, NEW cancelled \in BOOLEAN, ToolResult(c, cancelled)
    PROVE  Inv'
<1>1. /\ At("tools") /\ active # Nil /\ active.pc = "tools" /\ active' = CallOver(c, cancelled, Len(msgs'))
      /\ UNCHANGED <<mark, queue, checked, mail, count>>
  BY DEF ToolResult, At
<1>2. PICK m : m = Msg(active.leaf, "tool", {}, c, active.id)
  OBVIOUS
<1>3. m \in Msgs /\ m.parent = active.leaf /\ m.parent \in 0..Len(msgs) /\ m.run = active.id /\ AppendTx(m)
  BY <1>1, <1>2, ActiveFacts DEF Msg, Msgs, ToolResult
<1>4. \A n \in 1..Len(msgs) : msgs[n].run = active.id => n \in On(msgs, m.parent)
  BY <1>1, <1>3, ActiveFacts DEF RunOk
<1>5. Len(msgs') \in Nat /\ Len(msgs) <= Len(msgs') /\ Len(msgs') \in 0..Len(msgs')
  BY <1>1, <1>3, ActiveGrows, ActiveFacts
<1>6. PICK n \in Nat : n = Len(msgs')
  BY <1>5
<1>7. /\ active'.id = active.id
      /\ \/ active' = Ended
         \/ /\ active' \in ActivesOf(n, count.runs) /\ active'.leaf = n /\ active'.pc \in {"tools", "turn"}
  BY <1>1, <1>5, <1>6, CallOverOk
<1>8. active'.pc \in {"tools", "turn"} => active'.pc \notin Early
  BY DEF Early
<1> QED BY <1>1, <1>3, <1>4, <1>6, <1>7, <1>8, OwnAppends

-----------------------------------------------------------------------------
(* All of it.                                                              *)

LEMMA NextInv == Inv /\ [Next]_vars => Inv'
<1> SUFFICES ASSUME Inv, [Next]_vars PROVE Inv'
  OBVIOUS
<1>1. CASE \E p \in {0} \cup Known : Post(p)
  BY <1>1, PostStep
<1>2. CASE \E from \in Known, edit \in BOOLEAN : CheckBranch(from, edit)
  BY <1>2, CheckBranchStep
<1>3. CASE Branch
  BY <1>3, BranchStep
<1>4. CASE Point \/ ReadLeaf \/ AppendTrigger
  BY <1>4, PointStep, ReadLeafStep, AppendTriggerStep
<1>5. CASE MaterializeFails \/ NoAnswer
  BY <1>5, EndStep DEF MaterializeFails, NoAnswer, At
<1>6. CASE Command \/ Reply \/ Repoint
  BY <1>6, CommandStep, ReplyStep, RepointStep
<1>7. CASE ReadChat \/ Load \/ Compact \/ Finish
  BY <1>7, ReadChatStep, LoadStep, CompactStep, FinishStep
<1>8. CASE \E i \in DOMAIN queue : CancelQueued(i)
  BY <1>8, CancelStep
<1>9. CASE \E calls \in SUBSET Calls : Answer(calls)
  BY <1>9, AnswerStep
<1>10. CASE \E c \in Calls, cancelled \in BOOLEAN : ToolResult(c, cancelled) \/ ResultLost(c, cancelled)
  BY <1>10, ToolResultStep, ResultLostStep
<1>11. CASE \E m \in Known, deep \in BOOLEAN : Select(m, deep)
  BY <1>11, SelectStep
<1>12. CASE \E w \in Writers : MailRead(w) \/ MailAppend(w)
  BY <1>12, MailReadStep, MailAppendStep
<1>13. CASE Crash
  BY <1>13, CrashStep
<1>14. CASE UNCHANGED vars
  <2>1. UNCHANGED <<msgs, leaf, last, mark, active, queue, checked, mail, was, count>>
    BY <1>14 DEF vars
  <2>2. QueueOk' /\ ActiveOk' /\ OthersOk'
    BY <2>1, QueueQuiet DEF Inv, ActiveOk, OthersOk
  <2> QED BY <2>1, <2>2, Quiet
<1> QED
  BY <1>1, <1>2, <1>3, <1>4, <1>5, <1>6, <1>7, <1>8, <1>9, <1>10, <1>11, <1>12, <1>13, <1>14 DEF Next

LEMMA InvAlways == Spec => []Inv
BY InitInv, NextInv, PTL DEF Spec

\* The messages form a tree whose parents are older, the chat points at a
\* message of it, and a remembered child is a child (sqlite_chats.go).
THEOREM TranscriptTypeOK == Spec => []TypeOK
<1>1. Inv => TypeOK
  <2> SUFFICES ASSUME Inv PROVE TypeOK
    OBVIOUS
  <2>1. \A m \in Known : /\ msgs[m].parent \in 0..(m - 1)
                         /\ msgs[m].role \in {"user", "assistant", "tool"}
                         /\ msgs[m].calls \subseteq Calls /\ msgs[m].answers \in Calls \cup {Nil}
    BY StoredFacts DEF Inv, Msgs
  <2>2. leaf \in {0} \cup Known /\ mark \in {0} \cup Known
    BY StoredFacts DEF Inv, Stored, OthersOk
  <2>3. \A m \in Ids : last[m] # 0 => last[m] \in Known /\ msgs[last[m]].parent = m
    BY StoredFacts DEF Inv, Stored, Points
  <2>4. active # Nil => active.leaf \in {0} \cup Known /\ active.left \subseteq Calls
    BY StoredFacts, ActiveFacts DEF Inv
  <2> QED BY <2>1, <2>2, <2>3, <2>4 DEF TypeOK
<1> QED BY <1>1, InvAlways, PTL

\* What one run appends is a chain, each message on the path to the next,
\* although people branch and switch branches and others append meanwhile:
\* run.go appends below its own leaf, never below the chat's.
THEOREM RunIsChainHolds == Spec => []RunIsChain
<1>1. Inv => RunIsChain
  BY StoredFacts DEF Inv, Chain, RunIsChain
<1> QED BY <1>1, InvAlways, PTL

\* Selecting a message leads to a leaf with the place where the conversation
\* last was below that message, whatever happened on other branches since:
\* each move of the leaf updates last_active_child_id along the whole path.
THEOREM BranchRememberedHolds == Spec => []BranchRemembered
<1>1. Inv => BranchRemembered
  BY StoredFacts, DeepestFollows DEF Inv, Stored, BranchRemembered
<1> QED BY <1>1, InvAlways, PTL

-----------------------------------------------------------------------------
(* Sets in a row.                                                          *)

\* p has the numbers of T upwards, T having k of them.
Rising(p, T, k) ==
    p \in [1..k -> T] /\ \A m, n \in 1..k : m < n => p[m] < p[n]

\* Every finite set of numbers can be counted upwards.
LEMMA RisingExists ==
    ASSUME NEW T, T \subseteq Nat, IsFiniteSet(T)
    PROVE  \E p : Rising(p, T, Cardinality(T))
<1> DEFINE Bad(S) == S \subseteq Nat /\ IsFiniteSet(S) /\ ~ \E p : Rising(p, S, Cardinality(S))
           K == {k \in Nat : \E S \in SUBSET Nat : Bad(S) /\ Cardinality(S) = k}
<1>1. SUFFICES ASSUME Bad(T) PROVE FALSE
  OBVIOUS
<1>2. K # {} /\ K \subseteq Nat
  BY <1>1, FS_CardinalityType
<1>3. PICK k \in K : \A j \in K : k <= j
  BY <1>2, Least
<1>4. PICK S \in SUBSET Nat : Bad(S) /\ Cardinality(S) = k
  OBVIOUS
<1>5. S # {}
  <2> SUFFICES ASSUME S = {} PROVE FALSE
    OBVIOUS
  <2>1. k = 0
    BY <1>4, FS_EmptySet
  <2>2. Rising([n \in 1..0 |-> 0], S, 0)
    BY DEF Rising
  <2> QED BY <1>4, <2>1, <2>2
<1>6. PICK a \in S : \A b \in S : a <= b
  BY <1>5, Least
<1>7. PICK R : R = S \ {a}
  OBVIOUS
<1>8. IsFiniteSet(R) /\ Cardinality(R) = k - 1 /\ R \subseteq Nat /\ k \in Nat /\ k - 1 \in Nat
  <2>1. IsFiniteSet(R) /\ Cardinality(R) = k - 1
    BY <1>4, <1>6, <1>7, FS_RemoveElement
  <2>2. Cardinality(R) \in Nat
    BY <2>1, FS_CardinalityType
  <2> QED BY <1>7, <2>1, <2>2
<1>9. PICK q : Rising(q, R, k - 1)
  <2>1. k - 1 \notin K
    BY <1>3, <1>8
  <2> QED BY <1>8, <2>1
<1>10. PICK p : p = [n \in 1..k |-> IF n = 1 THEN a ELSE q[n - 1]]
  OBVIOUS
<1>11. \A n \in 1..k : n = 1 \/ (n - 1 \in 1..(k - 1) /\ q[n - 1] \in R)
  BY <1>8, <1>9 DEF Rising
<1>12. p \in [1..k -> S]
  BY <1>6, <1>7, <1>10, <1>11
<1>13. ASSUME NEW m \in 1..k, NEW n \in 1..k, m < n
       PROVE  p[m] < p[n]
  <2>1. n - 1 \in 1..(k - 1) /\ q[n - 1] \in R /\ p[n] = q[n - 1]
    BY <1>10, <1>11, <1>13
  <2>2. CASE m = 1
    <3>1. q[n - 1] \in S /\ q[n - 1] # a /\ p[m] = a
      BY <1>7, <1>10, <2>1, <2>2
    <3>2. q[n - 1] \in Nat /\ a \in Nat /\ a <= q[n - 1]
      BY <1>4, <1>6, <3>1
    <3> QED BY <2>1, <3>1, <3>2
  <2>3. CASE m # 1
    <3>1. m - 1 \in 1..(k - 1) /\ p[m] = q[m - 1] /\ m - 1 < n - 1
      BY <1>10, <1>11, <1>13, <2>3
    <3> QED BY <1>9, <2>1, <3>1 DEF Rising
  <2> QED BY <2>2, <2>3
<1>14. Rising(p, S, k)
  BY <1>12, <1>13 DEF Rising
<1> QED BY <1>4, <1>14

\* f lists the set S, which has n elements, each of them once.
Lists(f, S, n) ==
    /\ f \in [1..n -> S] /\ \A i, j \in 1..n : f[i] = f[j] => i = j
    /\ \A x \in S : \E i \in 1..n : f[i] = x

\* A list without repetition that is as long as the set has elements has all of them.
LEMMA OnceIsAll ==
    ASSUME NEW S, IsFiniteSet(S), NEW f \in [1..Cardinality(S) -> S],
           \A i, j \in 1..Cardinality(S) : f[i] = f[j] => i = j
    PROVE  Lists(f, S, Cardinality(S))
<1>1. PICK n : n = Cardinality(S)
  OBVIOUS
<1>2. n \in Nat /\ IsFiniteSet(1..n) /\ Cardinality(1..n) = n
  <2>1. n \in Nat
    BY <1>1, FS_CardinalityType
  <2>2. IsFiniteSet(1..n) /\ Cardinality(1..n) = IF 1 > n THEN 0 ELSE n - 1 + 1
    BY <2>1, FS_Interval
  <2> QED BY <2>1, <2>2
<1>3. ASSUME NEW x \in S, \A i \in 1..n : f[i] # x
      PROVE  FALSE
  <2>1. IsFiniteSet(S \ {x}) /\ Cardinality(S \ {x}) = n - 1
    BY <1>1, FS_RemoveElement
  <2>2. f \in [1..n -> S \ {x}]
    BY <1>1, <1>3
  <2>3. n - 1 < n
    BY <1>2
  <2>4. PICK D : D = 1..n
    OBVIOUS
  <2>5. PICK R : R = S \ {x}
    OBVIOUS
  <2>6. /\ IsFiniteSet(D) /\ IsFiniteSet(R) /\ Cardinality(R) < Cardinality(D)
        /\ f \in [D -> R]
    BY <1>2, <2>1, <2>2, <2>3, <2>4, <2>5
  <2>7. \E i, j \in D : i # j /\ f[i] = f[j]
    BY ONLY <2>6, FS_PigeonHole
  <2> QED BY <1>1, <2>4, <2>7
<1> QED BY <1>1, <1>3 DEF Lists

LEMMA AscendingLists ==
    ASSUME NEW T, T \subseteq Nat, IsFiniteSet(T)
    PROVE  Lists(Ascending(T), T, Cardinality(T))
<1>1. PICK n : n = Cardinality(T)
  OBVIOUS
<1>2. n \in Nat
  BY <1>1, FS_CardinalityType
<1>3. \E p : Rising(p, T, n)
  BY <1>1, RisingExists
<1>4. \E p \in [1..n -> T] : \A i, j \in DOMAIN p : i < j => p[i] < p[j]
  BY <1>3 DEF Rising
<1>5. PICK p : p = Ascending(T)
  OBVIOUS
<1>6. p \in [1..n -> T] /\ \A i, j \in DOMAIN p : i < j => p[i] < p[j]
  BY <1>1, <1>4, <1>5 DEF Ascending
<1>7. ASSUME NEW i \in 1..n, NEW j \in 1..n, p[i] = p[j]
      PROVE  i = j
  <2>1. p[i] \in Nat /\ p[j] \in Nat
    BY <1>6
  <2>2. ~(i < j) /\ ~(j < i)
    BY <1>6, <1>7, <2>1
  <2> QED BY <1>2, <2>2
<1> QED BY <1>1, <1>5, <1>6, <1>7, OnceIsAll

LEMMA SetToSeqLists ==
    ASSUME NEW S, IsFiniteSet(S)
    PROVE  Lists(SetToSeq(S), S, Cardinality(S))
<1>1. PICK n : n = Cardinality(S)
  OBVIOUS
<1>2. \E f \in [1..n -> S] : \A i, j \in DOMAIN f : f[i] = f[j] => i = j
  <2>1. ExistsBijection(1..n, S)
    BY <1>1, FS_CardinalityType
  <2> QED BY <2>1 DEF ExistsBijection, Bijection, Injection, IsInjective
<1>3. PICK f : f = SetToSeq(S)
  OBVIOUS
<1>4. f \in [1..n -> S] /\ \A i, j \in DOMAIN f : f[i] = f[j] => i = j
  BY <1>1, <1>2, <1>3, SMTT(30), ZenonT(60), Z3T(60) DEF SetToSeq, IsInjective
<1> QED BY <1>1, <1>3, <1>4, OnceIsAll

LEMMA SameSize ==
    ASSUME NEW S, IsFiniteSet(S), NEW T, NEW f \in [S -> T],
           \A i, j \in S : f[i] = f[j] => i = j, \A x \in T : \E i \in S : f[i] = x
    PROVE  IsFiniteSet(T) /\ Cardinality(T) = Cardinality(S)
<1>1. ExistsBijection(S, T)
  BY DEF ExistsBijection, Bijection, Injection, Surjection, IsInjective
<1> QED BY <1>1, FS_Bijection

-----------------------------------------------------------------------------
(* The entries of one message.                                             *)

Opening == [role : {"user", "assistant"}, calls : SUBSET Calls]
Closing == [role : {"tool"}, answers : Calls, real : BOOLEAN]
Shown == Opening \cup Closing

Found(c) == Result(c, TRUE)
Missing(c) == Result(c, FALSE)

LEMMA ShownFacts ==
    /\ \A o \in Opening : o.role # "tool" /\ o.calls \subseteq Calls
    /\ \A o \in Closing : o.role = "tool" /\ o.answers \in Calls
    /\ \A c \in Calls : /\ Found(c) \in Closing /\ Found(c).answers = c
                         /\ Missing(c) \in Closing /\ Missing(c).answers = c
    /\ \A m \in Msgs : m.role # "tool" => Entry(m) \in Opening /\ Entry(m).calls = m.calls
    /\ Opening \cap Closing = {}
<1>1. \A o \in Opening : o.role # "tool" /\ o.calls \subseteq Calls
  BY DEF Opening
<1>2. \A o \in Closing : o.role = "tool" /\ o.answers \in Calls
  BY DEF Closing
<1>3. \A c \in Calls : /\ Found(c) \in Closing /\ Found(c).answers = c
                       /\ Missing(c) \in Closing /\ Missing(c).answers = c
  BY DEF Closing, Result, Found, Missing
<1>4. \A m \in Msgs : m.role # "tool" => Entry(m) \in Opening /\ Entry(m).calls = m.calls
  BY DEF Opening, Entry, Msgs
<1> QED BY <1>1, <1>2, <1>3, <1>4

\* The answers a of the messages in T, in order, and errors for the rest of c.
FoundList(T, a) == [n \in DOMAIN Ascending(T) |-> Found(a[Ascending(T)[n]])]
MissingList(c, T, a) == SetToSeq({Missing(x) : x \in c \ {a[j] : j \in T}})

\* r answers the calls c, each once, and has the answers a of the messages in T.
Answers(c, r) ==
    /\ r \in Seq(Closing) /\ Len(r) = Cardinality(c)
    /\ \A i \in 1..Len(r) : r[i].answers \in c
    /\ \A x \in c : \E i \in 1..Len(r) : r[i].answers = x
Has(r, T, a) == \A j \in T : \E i \in 1..Len(r) : r[i] = Found(a[j])
OncePer(T, a) == \A i, j \in T : a[i] = a[j] => i = j

LEMMA FunIsSeq ==
    ASSUME NEW S, NEW n \in Nat, NEW f \in [1..n -> S]
    PROVE  f \in Seq(S) /\ Len(f) = n
<1>1. f \in Seq(S)
  BY SeqDef
<1> QED BY <1>1, LenProperties

\* The results kept, in order, and an error for each call that has none: one
\* entry for each call.
LEMMA Answered ==
    ASSUME NEW c \in SUBSET Calls, NEW T, T \subseteq Nat, IsFiniteSet(T),
           NEW a \in [T -> c], OncePer(T, a), NEW g, g = FoundList(T, a),
           NEW h, h = MissingList(c, T, a), NEW q, q = g \o h
    PROVE  g \in Seq(Closing) /\ h \in Seq(Closing) /\ Answers(c, q) /\ Has(q, T, a)
<1>1. PICK k : k = Cardinality(T)
  OBVIOUS
<1>2. PICK p : p = Ascending(T)
  OBVIOUS
<1>3. k \in Nat /\ Lists(p, T, k)
  BY <1>1, <1>2, AscendingLists, FS_CardinalityType
<1>4. PICK A : A = {a[j] : j \in T}
  OBVIOUS
<1>5. IsFiniteSet(c) /\ A \subseteq c
  <2>1. IsFiniteSet(c)
    BY FS_Subset, TranscriptAssumption
  <2> QED BY <1>4, <2>1
<1>6. IsFiniteSet(A) /\ Cardinality(A) = k
  <2>1. a \in [T -> A] /\ \A x \in A : \E i \in T : a[i] = x
    BY <1>4
  <2> QED BY <1>1, <2>1, SameSize DEF OncePer
<1>7. PICK B : B = c \ A
  OBVIOUS
<1>8. IsFiniteSet(B) /\ Cardinality(B) = Cardinality(c) - k /\ Cardinality(c) \in Nat
      /\ Cardinality(B) \in Nat
  <2>1. c \cap A = A
    BY <1>5
  <2>2. IsFiniteSet(c \ A) /\ Cardinality(c \ A) = Cardinality(c) - Cardinality(c \cap A)
    BY <1>5, FS_Difference
  <2>3. Cardinality(c) \in Nat /\ Cardinality(c \ A) \in Nat
    BY <1>5, <2>2, FS_CardinalityType
  <2> QED BY <1>6, <1>7, <2>1, <2>2, <2>3
<1>9. PICK R : R = {Missing(x) : x \in B}
  OBVIOUS
<1>10. IsFiniteSet(R) /\ Cardinality(R) = Cardinality(B)
  <2>1. PICK f : f = [x \in B |-> Missing(x)]
    OBVIOUS
  <2>2. f \in [B -> R] /\ \A y \in R : \E x \in B : f[x] = y
    BY <1>9, <2>1
  <2>3. \A x, y \in B : f[x] = f[y] => x = y
    <3>1. \A x \in B : f[x].answers = x
      BY <1>7, <2>1, ShownFacts
    <3> QED BY <3>1
  <2> QED BY <1>8, <2>2, <2>3, SameSize
<1>11. PICK m : m = Cardinality(c) - k
  OBVIOUS
<1>12. m \in Nat /\ Lists(h, R, m)
  <2>1. h = SetToSeq(R)
    BY <1>4, <1>7, <1>9 DEF MissingList
  <2>2. Lists(SetToSeq(R), R, Cardinality(R))
    BY <1>10, SetToSeqLists
  <2> QED BY <1>8, <1>10, <1>11, <2>1, <2>2
<1>13. g \in Seq(Closing) /\ Len(g) = k /\ \A n \in 1..k : g[n] = Found(a[p[n]]) /\ p[n] \in T
  <2>1. DOMAIN p = 1..k /\ \A n \in 1..k : p[n] \in T
    BY <1>3 DEF Lists
  <2>2. g = [n \in 1..k |-> Found(a[p[n]])]
    BY <1>2, <2>1 DEF FoundList
  <2>3. \A n \in 1..k : Found(a[p[n]]) \in Closing
    BY <2>1, ShownFacts
  <2>4. g \in [1..k -> Closing]
    BY <2>2, <2>3
  <2>5. g \in Seq(Closing)
    BY <1>3, <2>4, FunIsSeq
  <2> QED BY <1>3, <2>1, <2>2, <2>5, LenProperties
<1>14. h \in Seq(Closing) /\ Len(h) = m /\ \A n \in 1..m : h[n] \in R
  <2>1. h \in [1..m -> R]
    BY <1>12 DEF Lists
  <2>2. R \subseteq Closing
    BY <1>7, <1>9, ShownFacts
  <2>3. h \in [1..m -> Closing]
    BY <2>1, <2>2
  <2>4. h \in Seq(Closing) /\ Len(h) = m
    BY <1>12, <2>3, FunIsSeq
  <2>5. \A n \in 1..m : h[n] \in R
    BY <2>1
  <2> QED BY <2>4, <2>5
<1>16. /\ q \in Seq(Closing) /\ Len(q) = k + m /\ k + m = Cardinality(c)
       /\ \A i \in 1..k : i \in 1..Len(q) /\ q[i] = g[i]
       /\ \A i \in 1..m : k + i \in 1..Len(q) /\ q[k + i] = h[i]
       /\ \A i \in 1..Len(q) : i \in 1..k \/ (i - k \in 1..m /\ i = k + (i - k))
  <2>1. q \in Seq(Closing) /\ Len(q) = k + m /\ \A i \in 1..k + m : q[i] = IF i <= k THEN g[i] ELSE h[i - k]
    <3>1. /\ q \in Seq(Closing) /\ Len(q) = Len(g) + Len(h)
          /\ \A i \in 1..Len(g) + Len(h) : q[i] = IF i <= Len(g) THEN g[i] ELSE h[i - Len(g)]
      BY <1>13, <1>14, ConcatProperties
    <3> QED BY <1>13, <1>14, <3>1
  <2>2. ASSUME NEW i \in 1..m PROVE k + i \in 1..k + m /\ ~(k + i <= k) /\ (k + i) - k = i
    BY <1>3, <1>12
  <2>3. ASSUME NEW i \in 1..k PROVE i \in 1..k + m /\ i <= k
    BY <1>3, <1>12
  <2>4. ASSUME NEW i \in 1..k + m PROVE i \in 1..k \/ (i - k \in 1..m /\ i = k + (i - k))
    BY <1>3, <1>12
  <2>5. k + m = Cardinality(c)
    BY <1>3, <1>8, <1>11
  <2> QED BY <2>1, <2>2, <2>3, <2>4, <2>5
<1>17. ASSUME NEW j \in T PROVE \E i \in 1..Len(q) : q[i] = Found(a[j])
  <2>1. PICK n \in 1..k : p[n] = j
    BY <1>3 DEF Lists
  <2> QED BY <1>13, <1>16, <2>1
<1>18. ASSUME NEW x \in c PROVE \E i \in 1..Len(q) : q[i].answers = x
  <2>1. CASE x \in A
    <3>1. PICK j \in T : a[j] = x
      BY <1>4, <2>1
    <3>2. Found(x).answers = x
      BY ShownFacts
    <3>3. PICK i \in 1..Len(q) : q[i] = Found(x)
      BY <1>17, <3>1
    <3> QED BY <3>2, <3>3
  <2>2. CASE x \notin A
    <3>1. Missing(x) \in R
      BY <1>7, <1>9, <2>2
    <3>2. PICK n \in 1..m : h[n] = Missing(x)
      BY <1>12, <3>1 DEF Lists
    <3>3. Missing(x).answers = x
      BY ShownFacts
    <3>4. q[k + n] = Missing(x) /\ k + n \in 1..Len(q)
      BY <1>16, <3>2
    <3> QED BY <3>3, <3>4
  <2> QED BY <2>1, <2>2
<1>19. ASSUME NEW i \in 1..Len(q) PROVE q[i].answers \in c
  <2>1. CASE i \in 1..k
    <3>1. q[i] = Found(a[p[i]]) /\ a[p[i]] \in c
      BY <1>13, <1>16, <2>1
    <3> QED BY <3>1, ShownFacts
  <2>2. CASE i - k \in 1..m /\ i = k + (i - k)
    <3>0. PICK j \in 1..m : i = k + j
      BY <2>2
    <3>1. q[i] \in R
      BY <1>14, <1>16, <3>0
    <3>2. PICK x \in B : q[i] = Missing(x)
      BY <1>9, <3>1
    <3> QED BY <1>7, <3>2, ShownFacts
  <2> QED BY <1>16, <2>1, <2>2
<1> QED BY <1>13, <1>14, <1>16, <1>17, <1>18, <1>19 DEF Answers, Has

\* A block of entries: nothing, or one that calls with an answer for each call.
Block(b) ==
    /\ b \in Seq(Shown)
    /\ b # <<>> =>
         /\ b[1] \in Opening /\ Len(b) = 1 + Cardinality(b[1].calls)
         /\ \A i \in 2..Len(b) : b[i] \in Closing /\ b[i].answers \in b[1].calls
         /\ \A x \in b[1].calls : \E i \in 2..Len(b) : b[i].answers = x

LEMMA OpenedBlock ==
    ASSUME NEW e \in Opening, NEW r \in Seq(Closing),
           Len(r) = Cardinality(e.calls), \A i \in 1..Len(r) : r[i].answers \in e.calls,
           \A x \in e.calls : \E i \in 1..Len(r) : r[i].answers = x
    PROVE  /\ Block(<<e>> \o r) /\ Len(<<e>> \o r) = 1 + Len(r) /\ (<<e>> \o r)[1] = e
           /\ \A i \in 1..Len(r) : (<<e>> \o r)[1 + i] = r[i]
<1>1. PICK b : b = <<e>> \o r
  OBVIOUS
<1>2. PICK n : n = Len(r)
  OBVIOUS
<1>3. n \in Nat /\ <<e>> \in Seq(Shown) /\ r \in Seq(Shown) /\ Len(<<e>>) = 1 /\ <<e>>[1] = e
  <2>1. Closing \subseteq Shown /\ Opening \subseteq Shown
    BY DEF Shown
  <2>2. r \in Seq(Shown)
    BY <2>1, SeqMonotonic
  <2> QED BY <1>2, <2>1, <2>2, LenProperties
<1>4. /\ b \in Seq(Shown) /\ Len(b) = 1 + n
      /\ \A i \in 1..1 + n : b[i] = IF i <= 1 THEN <<e>>[i] ELSE r[i - 1]
  <2>1. /\ b \in Seq(Shown) /\ Len(b) = Len(<<e>>) + Len(r)
        /\ \A i \in 1..Len(<<e>>) + Len(r) : b[i] = IF i <= Len(<<e>>) THEN <<e>>[i] ELSE r[i - Len(<<e>>)]
    BY <1>1, <1>3, ConcatProperties
  <2> QED BY <1>2, <1>3, <2>1
<1>5. b[1] = e /\ b # <<>>
  BY <1>3, <1>4
<1>6. ASSUME NEW i \in 1..n PROVE 1 + i \in 2..1 + n /\ b[1 + i] = r[i]
  BY <1>3, <1>4
<1>7. ASSUME NEW i \in 2..1 + n PROVE b[i] \in Closing /\ b[i].answers \in e.calls
  <2>1. i - 1 \in 1..n /\ i = 1 + (i - 1)
    BY <1>3
  <2>2. b[i] = r[i - 1]
    BY <1>6, <2>1
  <2> QED BY <1>2, <2>1, <2>2, ElementOfSeq
<1>8. ASSUME NEW x \in e.calls PROVE \E i \in 2..1 + n : b[i].answers = x
  <2>1. PICK i \in 1..n : r[i].answers = x
    BY <1>2
  <2> QED BY <1>6, <2>1
<1>9. Block(b)
  BY <1>2, <1>4, <1>5, <1>7, <1>8 DEF Block
<1> QED BY <1>1, <1>2, <1>4, <1>5, <1>6, <1>9

\* A block behind paired entries: all are paired.
LEMMA PairedConcat ==
    ASSUME NEW a \in Seq(Shown), Paired(a), NEW b, Block(b)
    PROVE  /\ a \o b \in Seq(Shown) /\ Paired(a \o b) /\ Len(a \o b) = Len(a) + Len(b)
           /\ \A i \in 1..Len(a) : (a \o b)[i] = a[i]
           /\ \A i \in 1..Len(b) : (a \o b)[Len(a) + i] = b[i]
<1>1. PICK s : s = a \o b
  OBVIOUS
<1>2. PICK n : n = Len(a)
  OBVIOUS
<1>3. PICK m : m = Len(b)
  OBVIOUS
<1>4. n \in Nat /\ m \in Nat /\ b \in Seq(Shown) /\ DOMAIN a = 1..n
  BY <1>2, <1>3, LenProperties DEF Block
<1>5. /\ s \in Seq(Shown) /\ Len(s) = n + m /\ DOMAIN s = 1..n + m
      /\ \A i \in 1..n : s[i] = a[i] /\ i \in 1..n + m
      /\ \A i \in 1..m : s[n + i] = b[i] /\ n + i \in 1..n + m
  <2>1. s \in Seq(Shown) /\ Len(s) = n + m /\ \A i \in 1..n + m : s[i] = IF i <= n THEN a[i] ELSE b[i - n]
    <3>1. /\ s \in Seq(Shown) /\ Len(s) = Len(a) + Len(b)
          /\ \A i \in 1..Len(a) + Len(b) : s[i] = IF i <= Len(a) THEN a[i] ELSE b[i - Len(a)]
      BY <1>1, <1>4, ConcatProperties
    <3> QED BY <1>2, <1>3, <3>1
  <2>2. ASSUME NEW i \in 1..m PROVE n + i \in 1..n + m /\ ~(n + i <= n) /\ (n + i) - n = i
    BY <1>4
  <2>3. ASSUME NEW i \in 1..n PROVE i \in 1..n + m /\ i <= n
    BY <1>4
  <2>4. DOMAIN s = 1..n + m
    BY <2>1, LenProperties
  <2> QED BY <2>1, <2>2, <2>3, <2>4
<1>6. \A o \in Shown : /\ o.role # "tool" => o \in Opening /\ Cardinality(o.calls) \in Nat
                       /\ o \in Closing => o.role = "tool"
                       /\ o \in Opening => o.role # "tool"
  <2>1. \A o \in Opening : Cardinality(o.calls) \in Nat
    BY ShownFacts, FS_Subset, FS_CardinalityType, TranscriptAssumption
  <2> QED BY <2>1, ShownFacts DEF Shown
<1>7. ASSUME NEW i \in 1..n, ~Tool(s, i)
      PROVE  LET block == (i + 1)..(i + Cardinality(s[i].calls)) IN
             /\ block \subseteq 1..n + m
             /\ \A j \in block : Tool(s, j)
             /\ {s[j].answers : j \in block} = s[i].calls
  <2>1. ~Tool(a, i) /\ s[i] = a[i]
    BY <1>5, <1>7 DEF Tool
  <2>2. PICK block : block = (i + 1)..(i + Cardinality(s[i].calls))
    OBVIOUS
  <2>3. /\ block \subseteq 1..n
        /\ \A j \in block : Tool(a, j)
        /\ {a[j].answers : j \in block} = a[i].calls
    BY <1>4, <2>1, <2>2 DEF Paired
  <2>4. \A j \in block : s[j] = a[j] /\ j \in 1..n + m
    BY <1>5, <2>3
  <2>5. \A j \in block : Tool(s, j)
    BY <2>3, <2>4 DEF Tool
  <2>6. {s[j].answers : j \in block} = s[i].calls
    BY <2>1, <2>3, <2>4
  <2> QED BY <2>2, <2>4, <2>5, <2>6
<1>8. ASSUME NEW j \in 1..n, Tool(s, j)
      PROVE  \E i \in 1..(j - 1) : ~Tool(s, i) /\ j <= i + Cardinality(s[i].calls)
  <2>1. Tool(a, j)
    BY <1>5, <1>8 DEF Tool
  <2>2. PICK i \in 1..(j - 1) : ~Tool(a, i) /\ j <= i + Cardinality(a[i].calls)
    BY <1>4, <2>1 DEF Paired
  <2>3. s[i] = a[i]
    BY <1>4, <1>5
  <2> QED BY <2>2, <2>3 DEF Tool
<1>9. CASE b = <<>>
  <2>1. m = 0 /\ n + m = n
    BY <1>3, <1>4, <1>9, EmptySeq
  <2>2. Paired(s)
    BY <1>5, <1>7, <1>8, <2>1 DEF Paired
  <2> QED BY <1>1, <1>2, <1>3, <1>5, <2>2
<1>10. CASE b # <<>>
  <2>1. PICK w : w = Cardinality(b[1].calls)
    OBVIOUS
  <2>2. /\ b[1] \in Opening /\ m = 1 + w /\ w \in Nat
        /\ \A i \in 2..m : b[i] \in Closing /\ b[i].answers \in b[1].calls
        /\ \A x \in b[1].calls : \E i \in 2..m : b[i].answers = x
    <3>1. /\ b[1] \in Opening /\ m = 1 + w
          /\ \A i \in 2..m : b[i] \in Closing /\ b[i].answers \in b[1].calls
          /\ \A x \in b[1].calls : \E i \in 2..m : b[i].answers = x
      BY <1>3, <1>10, <2>1 DEF Block
    <3>2. b[1].role # "tool" /\ b[1] \in Shown
      BY <3>1, ShownFacts DEF Shown
    <3> QED BY <1>6, <2>1, <3>1, <3>2
  <2>3. s[n + 1] = b[1] /\ n + 1 \in 1..n + m /\ ~Tool(s, n + 1)
    <3>1. 1 \in 1..m
      BY <2>2
    <3>2. s[n + 1] = b[1] /\ n + 1 \in 1..n + m
      BY <1>5, <3>1
    <3> QED BY <2>2, <3>2, ShownFacts DEF Tool
  <2>4. ASSUME NEW j \in (n + 2)..(n + m)
        PROVE  Tool(s, j) /\ s[j].answers \in b[1].calls /\ j \in 1..n + m
    <3>1. PICK i \in 2..m : j = n + i
      <4>1. j - n \in 2..m /\ j = n + (j - n)
        BY <1>4
      <4> QED BY <4>1
    <3>2. s[j] = b[i] /\ j \in 1..n + m
      BY <1>4, <1>5, <3>1
    <3> QED BY <2>2, <3>2, ShownFacts DEF Tool
  <2>5. ASSUME NEW x \in b[1].calls PROVE \E j \in (n + 2)..(n + m) : s[j].answers = x
    <3>1. PICK i \in 2..m : b[i].answers = x
      BY <2>2
    <3>2. i \in 1..m /\ n + i \in (n + 2)..(n + m)
      BY <1>4
    <3>3. s[n + i] = b[i]
      BY <1>5, <3>2
    <3> QED BY <3>1, <3>2, <3>3
  <2>6. \A i \in 1..n + m : i \in 1..n \/ i = n + 1 \/ i \in (n + 2)..(n + m)
    BY <1>4
  <2>7. ASSUME NEW i \in 1..n + m, ~Tool(s, i)
        PROVE  LET block == (i + 1)..(i + Cardinality(s[i].calls)) IN
               /\ block \subseteq 1..n + m
               /\ \A j \in block : Tool(s, j)
               /\ {s[j].answers : j \in block} = s[i].calls
    <3>1. CASE i \in 1..n
      BY <1>7, <2>7, <3>1
    <3>2. CASE i = n + 1
      <4>1. PICK block : block = (i + 1)..(i + Cardinality(s[i].calls))
        OBVIOUS
      <4>2. block = (n + 2)..(n + m)
        <5>1. Cardinality(s[i].calls) = w
          BY <2>1, <2>3, <3>2
        <5>2. (n + 1) + 1 = n + 2 /\ (n + 1) + w = n + m
          BY <1>4, <2>2
        <5> QED BY <3>2, <4>1, <5>1, <5>2
      <4>3. {s[j].answers : j \in block} = s[i].calls
        BY <2>3, <2>4, <2>5, <3>2, <4>2, SMTT(30), ZenonT(60), Z3T(60)
      <4> QED BY <2>4, <4>1, <4>2, <4>3
    <3>3. CASE i \in (n + 2)..(n + m)
      BY <2>4, <2>7, <3>3
    <3> QED BY <2>6, <3>1, <3>2, <3>3
  <2>8. ASSUME NEW j \in 1..n + m, Tool(s, j)
        PROVE  \E i \in 1..(j - 1) : ~Tool(s, i) /\ j <= i + Cardinality(s[i].calls)
    <3>1. CASE j \in 1..n
      BY <1>8, <2>8, <3>1
    <3>2. CASE j \in (n + 2)..(n + m)
      <4>1. Cardinality(s[n + 1].calls) = w
        BY <2>1, <2>3
      <4>2. n + 1 \in 1..(j - 1) /\ j <= (n + 1) + w
        BY <1>4, <2>2, <3>2
      <4> QED BY <2>3, <4>1, <4>2
    <3> QED BY <2>3, <2>6, <2>8, <3>1, <3>2
  <2>9. Paired(s)
    BY <1>5, <2>7, <2>8 DEF Paired
  <2> QED BY <1>1, <1>2, <1>3, <1>5, <2>9
<1> QED BY <1>9, <1>10

\* FlattenSeq in steps, each of which joins one more sequence.
LEMMA FlattenSteps ==
    ASSUME NEW S, NEW q \in Seq(Seq(S))
    PROVE  \E g : /\ g[0] = <<>> /\ \A k \in 1..Len(q) : g[k] = g[k - 1] \o q[k]
                  /\ FlattenSeq(q) = g[Len(q)]
<1> DEFINE Joined(f, k) == f = [i \in 1..k |-> IF i = 1 THEN q[i] ELSE f[i - 1] \o q[i]]
           T == {k \in Nat : k \in 1..Len(q) /\ ~ \E f : Joined(f, k)}
<1>1. PICK n : n = Len(q)
  OBVIOUS
<1>2. n \in Nat /\ \A k \in 1..n : q[k] \in Seq(S)
  BY <1>1, LenProperties, ElementOfSeq
<1>3. T = {}
  <2>1. SUFFICES ASSUME T # {} PROVE FALSE
    OBVIOUS
  <2>2. PICK k \in T : \A j \in T : k <= j
    <3>1. T \subseteq Nat
      OBVIOUS
    <3> QED BY <2>1, <3>1, Least
  <2>3. k \in 1..n /\ k \in Nat
    BY <1>1, <1>2
  <2>4. \E f : Joined(f, k)
    <3>1. CASE k = 1
      <4>1. Joined([i \in 1..1 |-> q[i]], 1)
        OBVIOUS
      <4> QED BY <3>1, <4>1
    <3>2. CASE k # 1
      <4>1. k - 1 \in 1..n /\ ~(k <= k - 1) /\ 1..k = (1..(k - 1)) \cup {k} /\ k \notin 1..(k - 1)
        BY <1>2, <2>3, <3>2
      <4>2. PICK f : Joined(f, k - 1)
        <5>1. k - 1 \notin T
          BY <2>2, <4>1
        <5>2. k - 1 \in Nat /\ k - 1 \in 1..Len(q)
          BY <1>1, <2>3, <4>1
        <5> HIDE DEF Joined
        <5> QED BY <5>1, <5>2
      <4>3. PICK g : g = [i \in 1..k |-> IF i = k THEN f[k - 1] \o q[k] ELSE f[i]]
        OBVIOUS
      <4>4. \A i \in 1..(k - 1) : g[i] = f[i] /\ (i # 1 => i - 1 \in 1..(k - 1) /\ g[i - 1] = f[i - 1])
        BY <2>3, <4>1, <4>3
      <4>5. \A i \in 1..(k - 1) : f[i] = IF i = 1 THEN q[i] ELSE f[i - 1] \o q[i]
        BY <4>2
      <4>6. g[k] = g[k - 1] \o q[k]
        <5>1. g[k - 1] = f[k - 1] /\ g[k] = f[k - 1] \o q[k]
          <6>1. k \in 1..k /\ k - 1 \in 1..k /\ k - 1 # k
            BY <2>3, <3>2
          <6> QED BY <4>3, <6>1
        <5> QED BY <5>1
      <4>7. \A i \in 1..k : g[i] = IF i = 1 THEN q[i] ELSE g[i - 1] \o q[i]
        BY <3>2, <4>1, <4>4, <4>5, <4>6
      <4>8. Joined(g, k)
        BY <4>3, <4>7
      <4> QED BY <4>8
    <3> QED BY <3>1, <3>2
  <2> QED BY <2>2, <2>4
<1>4. CASE n = 0
  <2>1. q = <<>>
    BY <1>1, <1>4, EmptySeq
  <2>2. FlattenSeq(q) = <<>>
    BY <1>1, <1>4, <2>1 DEF FlattenSeq
  <2>3. PICK g : g = [i \in {0} |-> <<>>]
    OBVIOUS
  <2> QED BY <1>1, <1>4, <2>2, <2>3
<1>5. CASE n # 0
  <2>1. n \in 1..n
    BY <1>2, <1>5
  <2>2. \E f : f = [i \in 1..n |-> IF i = 1 THEN q[i] ELSE f[i - 1] \o q[i]]
    <3>1. n \notin T
      BY <1>3
    <3>2. \E f : Joined(f, n)
      <4>1. n \in Nat /\ n \in 1..Len(q)
        BY <1>1, <1>2, <2>1
      <4> HIDE DEF Joined
      <4> QED BY <3>1, <4>1
    <3> QED BY <3>2
  <2>3. PICK f : f = [i \in 1..n |-> IF i = 1 THEN q[i] ELSE f[i - 1] \o q[i]]
                 /\ FlattenSeq(q) = f[n]
    BY <1>1, <1>5, <2>2 DEF FlattenSeq
  <2>4. PICK g : g = [i \in 0..n |-> IF i = 0 THEN <<>> ELSE f[i]]
    OBVIOUS
  <2>5. g[0] = <<>> /\ \A i \in 1..n : g[i] = f[i] /\ (i # 1 => i - 1 \in 1..n /\ g[i - 1] = f[i - 1])
    BY <1>2, <2>4
  <2>6. \A i \in 1..n : f[i] = IF i = 1 THEN q[i] ELSE f[i - 1] \o q[i]
    BY <2>3
  <2>7. ASSUME NEW i \in 1..n PROVE g[i] = g[i - 1] \o q[i]
    <3>1. CASE i = 1
      <4>0. PICK b \in Seq(S) : b = q[1]
        BY <1>2, <2>7, <3>1
      <4>1. <<>> \o q[1] = q[1]
        BY <4>0, ConcatEmptySeq
      <4>2. g[1] = q[1] /\ g[0] = <<>>
        BY <2>5, <2>6, <2>7, <3>1
      <4>3. i - 1 = 0
        BY <3>1
      <4> QED BY <3>1, <4>1, <4>2, <4>3
    <3>2. CASE i # 1
      BY <2>5, <2>6, <2>7, <3>2
    <3> QED BY <3>1, <3>2
  <2>8. FlattenSeq(q) = g[n]
    BY <2>1, <2>3, <2>5
  <2>9. /\ g[0] = <<>> /\ \A k \in 1..n : g[k] = g[k - 1] \o q[k]
        /\ FlattenSeq(q) = g[n]
    BY <2>5, <2>7, <2>8
  <2> QED BY <1>1, <2>9
<1> QED BY <1>4, <1>5

\* Blocks in a row are paired, and every entry of a block is there.
LEMMA BlocksPaired ==
    ASSUME NEW q \in Seq(Seq(Shown)), \A k \in 1..Len(q) : Block(q[k])
    PROVE  /\ FlattenSeq(q) \in Seq(Shown) /\ Paired(FlattenSeq(q))
           /\ \A k \in 1..Len(q) : \A i \in 1..Len(q[k]) :
                \E j \in 1..Len(FlattenSeq(q)) : FlattenSeq(q)[j] = q[k][i]
<1>1. PICK n : n = Len(q)
  OBVIOUS
<1>2. n \in Nat
  BY <1>1, LenProperties
<1>3. PICK g : /\ g[0] = <<>> /\ \A k \in 1..n : g[k] = g[k - 1] \o q[k]
               /\ FlattenSeq(q) = g[n]
  BY <1>1, FlattenSteps
<1> DEFINE Fine(k) == /\ g[k] \in Seq(Shown) /\ Paired(g[k])
                      /\ \A l \in 1..k : \A i \in 1..Len(q[l]) :
                           \E j \in 1..Len(g[k]) : g[k][j] = q[l][i]
           T == {k \in 0..n : ~Fine(k)}
<1>4. SUFFICES ASSUME T # {} PROVE FALSE
  BY <1>1, <1>2, <1>3
<1>5. PICK k \in T : \A j \in T : k <= j
  <2>1. T \subseteq Nat
    OBVIOUS
  <2> QED BY <1>4, <2>1, Least
<1>6. k # 0
  <2>1. <<>> \in Seq(Shown) /\ Paired(<<>>) /\ 1..0 = {}
    BY EmptySeq DEF Paired
  <2> QED BY <1>3, <1>5, <2>1
<1>7. k \in 1..n /\ k - 1 \in 0..n /\ ~(k <= k - 1) /\ 1..k = (1..(k - 1)) \cup {k}
  BY <1>2, <1>5, <1>6
<1>8. Fine(k - 1)
  BY <1>5, <1>7
<1>9. PICK a : a = g[k - 1]
  OBVIOUS
<1>10. PICK b : b = q[k]
  OBVIOUS
<1>11. a \in Seq(Shown) /\ Paired(a) /\ Block(b) /\ g[k] = a \o b
  BY <1>1, <1>3, <1>7, <1>8, <1>9, <1>10
<1>12. PICK s : s = a \o b
  OBVIOUS
<1>13. /\ s \in Seq(Shown) /\ Paired(s) /\ Len(s) = Len(a) + Len(b)
       /\ \A i \in 1..Len(a) : s[i] = a[i] /\ i \in 1..Len(s)
       /\ \A i \in 1..Len(b) : s[Len(a) + i] = b[i] /\ Len(a) + i \in 1..Len(s)
  <2>1. Len(a) \in Nat /\ Len(b) \in Nat
    BY <1>11, LenProperties DEF Block
  <2>2. /\ s \in Seq(Shown) /\ Paired(s) /\ Len(s) = Len(a) + Len(b)
        /\ \A i \in 1..Len(a) : s[i] = a[i]
        /\ \A i \in 1..Len(b) : s[Len(a) + i] = b[i]
    BY ONLY <1>11, <1>12, PairedConcat, SMTT(30), ZenonT(60), Z3T(60)
  <2> QED BY <2>1, <2>2
<1>14. ASSUME NEW l \in 1..k, NEW i \in 1..Len(q[l])
       PROVE  \E j \in 1..Len(s) : s[j] = q[l][i]
  <2>1. CASE l = k
    BY <1>10, <1>13, <1>14, <2>1
  <2>2. CASE l \in 1..(k - 1)
    <3>1. PICK j \in 1..Len(a) : a[j] = q[l][i]
      BY <1>8, <1>9, <1>14, <2>2
    <3> QED BY <1>13, <3>1
  <2> QED BY <1>7, <2>1, <2>2
<1>15. Fine(k)
  BY <1>11, <1>12, <1>13, <1>14, SMTT(30), ZenonT(60), Z3T(60)
<1> QED BY <1>5, <1>15

-----------------------------------------------------------------------------
(* What repairToolPairs makes of a conversation.                           *)

Kept(s, i) == {j \in After(s, i) : /\ s[j].answers \in s[i].calls
                                   /\ \A k \in (i + 1)..(j - 1) : s[k].answers # s[j].answers}
BlockOf(s, i) ==
    IF Tool(s, i) THEN <<>>
    ELSE <<Entry(s[i])>>
         \o [n \in DOMAIN Ascending(Kept(s, i)) |-> Found(s[Ascending(Kept(s, i))[n]].answers)]
         \o SetToSeq({Missing(c) : c \in s[i].calls \ {s[j].answers : j \in Kept(s, i)}})

LEMMA RepairIs == ASSUME NEW s PROVE Repair(s) = FlattenSeq([i \in DOMAIN s |-> BlockOf(s, i)])
BY DEF Repair, BlockOf, Kept, Found, Missing

LEMMA BlockOfOk ==
    ASSUME NEW s \in Seq(Msgs), NEW i \in 1..Len(s)
    PROVE  /\ Block(BlockOf(s, i))
           /\ ~Tool(s, i) => \A j \in Kept(s, i) :
                \E n \in 1..Len(BlockOf(s, i)) : BlockOf(s, i)[n] = Found(s[j].answers)
<1>1. CASE Tool(s, i)
  <2>1. BlockOf(s, i) = <<>> /\ <<>> \in Seq(Shown)
    BY <1>1, EmptySeq DEF BlockOf
  <2> QED BY <1>1, <2>1 DEF Block
<1>2. CASE ~Tool(s, i)
  <2>1. Len(s) \in Nat /\ s[i] \in Msgs
    BY LenProperties, ElementOfSeq
  <2>2. PICK e : e = Entry(s[i])
    OBVIOUS
  <2>3. PICK c : c = s[i].calls
    OBVIOUS
  <2>4. e \in Opening /\ e.calls = c /\ c \in SUBSET Calls
    <3>1. s[i].role # "tool" /\ s[i].calls \in SUBSET Calls
      BY <1>2, <2>1 DEF Tool, Msgs
    <3> QED BY <2>1, <2>2, <2>3, <3>1, ShownFacts
  <2>5. PICK T : T = Kept(s, i)
    OBVIOUS
  <2>6. /\ T \subseteq (i + 1)..Len(s) /\ T \subseteq Nat /\ IsFiniteSet(T)
    <3>1. T \subseteq (i + 1)..Len(s) /\ T \subseteq 1..Len(s) /\ T \subseteq Nat
      BY <2>1, <2>5 DEF Kept, After
    <3>2. IsFiniteSet(1..Len(s))
      BY <2>1, FS_Interval
    <3>3. IsFiniteSet(T)
      BY <3>1, <3>2, FS_Subset
    <3> QED BY <3>1, <3>3
  <2>7. PICK a : a = [j \in T |-> s[j].answers]
    OBVIOUS
  <2>8. a \in [T -> c]
    BY <2>3, <2>5, <2>7 DEF Kept
  <2>9. ASSUME NEW j \in T, NEW k \in T, a[j] = a[k]
        PROVE  j = k
    <3>1. s[j].answers = s[k].answers
      BY <2>7, <2>9
    <3>2. ~(j \in (i + 1)..(k - 1)) /\ ~(k \in (i + 1)..(j - 1))
      BY <2>5, <3>1 DEF Kept
    <3>3. j \in (i + 1)..Len(s) /\ k \in (i + 1)..Len(s)
      BY <2>6
    <3> QED BY <2>1, <3>2, <3>3
  <2>10. PICK g : g = FoundList(T, a)
    OBVIOUS
  <2>11. PICK h : h = MissingList(c, T, a)
    OBVIOUS
  <2>12. PICK r : r = g \o h
    OBVIOUS
  <2>13. g \in Seq(Closing) /\ h \in Seq(Closing) /\ Answers(c, r) /\ Has(r, T, a)
    <3>1. c \in SUBSET Calls
      BY <2>4
    <3>2. OncePer(T, a)
      BY <2>9 DEF OncePer
    <3>3. T \subseteq Nat /\ IsFiniteSet(T)
      BY <2>6
    <3> QED BY ONLY <2>8, <2>10, <2>11, <2>12, <3>1, <3>2, <3>3, Answered
  <2>15. BlockOf(s, i) = <<e>> \o r
    <3>1. g = [n \in DOMAIN Ascending(T) |-> Found(s[Ascending(T)[n]].answers)]
      <4>1. \A n \in DOMAIN Ascending(T) : Ascending(T)[n] \in T
        <5>1. PICK p : p = Ascending(T)
          OBVIOUS
        <5>2. Lists(p, T, Cardinality(T))
          BY <2>6, <5>1, AscendingLists
        <5> QED BY <5>1, <5>2 DEF Lists
      <4> QED BY <2>7, <2>10, <4>1 DEF FoundList
    <3>2. {a[j] : j \in T} = {s[j].answers : j \in T}
      BY <2>7
    <3>3. BlockOf(s, i) = (<<e>> \o g) \o h
      BY <1>2, <2>2, <2>3, <2>5, <2>11, <3>1, <3>2 DEF BlockOf, MissingList
    <3>4. <<e>> \in Seq(Shown) /\ g \in Seq(Shown) /\ h \in Seq(Shown)
      <4>1. Opening \subseteq Shown /\ Closing \subseteq Shown
        BY DEF Shown
      <4> QED BY <2>4, <2>13, <4>1, SeqMonotonic
    <3> QED BY <2>12, <3>3, <3>4, ConcatAssociative
  <2>16. /\ Block(<<e>> \o r) /\ Len(<<e>> \o r) = 1 + Len(r)
         /\ \A n \in 1..Len(r) : (<<e>> \o r)[1 + n] = r[n]
    BY <2>4, <2>13, OpenedBlock DEF Answers
  <2>17. Len(r) \in Nat
    BY <2>13, LenProperties DEF Answers
  <2>18. ASSUME NEW j \in T
         PROVE  \E n \in 1..Len(<<e>> \o r) : (<<e>> \o r)[n] = Found(s[j].answers)
    <3>1. PICK n \in 1..Len(r) : r[n] = Found(a[j])
      BY <2>13 DEF Has
    <3>2. a[j] = s[j].answers
      BY <2>7
    <3>3. 1 + n \in 1..Len(<<e>> \o r)
      BY <2>16, <2>17
    <3> QED BY <2>16, <3>1, <3>2, <3>3
  <2> QED BY <2>5, <2>15, <2>16, <2>18
<1> QED BY <1>1, <1>2

LEMMA RepairPaired ==
    ASSUME NEW s \in Seq(Msgs)
    PROVE  /\ Repair(s) \in Seq(Shown) /\ Paired(Repair(s))
           /\ \A i \in 1..Len(s) : ~Tool(s, i) => \A j \in Kept(s, i) :
                \E k \in 1..Len(Repair(s)) : Repair(s)[k] = Found(s[j].answers)
<1>1. PICK n : n = Len(s)
  OBVIOUS
<1>2. n \in Nat /\ DOMAIN s = 1..n
  BY <1>1, LenProperties
<1>3. PICK q : q = [i \in 1..n |-> BlockOf(s, i)]
  OBVIOUS
<1>4. \A i \in 1..n : q[i] = BlockOf(s, i) /\ Block(q[i])
  BY <1>1, <1>3, BlockOfOk
<1>5. q \in Seq(Seq(Shown)) /\ Len(q) = n
  <2>1. q \in [1..n -> Seq(Shown)]
    BY <1>3, <1>4 DEF Block
  <2> QED BY <1>2, <2>1, FunIsSeq
<1>6. Repair(s) = FlattenSeq(q)
  BY <1>2, <1>3, RepairIs
<1>7. /\ FlattenSeq(q) \in Seq(Shown) /\ Paired(FlattenSeq(q))
      /\ \A k \in 1..n : \A i \in 1..Len(q[k]) :
           \E j \in 1..Len(FlattenSeq(q)) : FlattenSeq(q)[j] = q[k][i]
  BY <1>4, <1>5, BlocksPaired
<1>8. ASSUME NEW i \in 1..n, ~Tool(s, i), NEW j \in Kept(s, i)
      PROVE  \E k \in 1..Len(Repair(s)) : Repair(s)[k] = Found(s[j].answers)
  <2>1. PICK m \in 1..Len(q[i]) : q[i][m] = Found(s[j].answers)
    BY <1>1, <1>4, <1>8, BlockOfOk
  <2> QED BY <1>6, <1>7, <1>8, <2>1
<1> QED BY <1>1, <1>6, <1>7, <1>8

\* What applyChatSummary leaves is the end of the path, from behind the message
\* the summary ends with.
LEMMA SummarisedIs ==
    ASSUME NEW S, NEW p \in Seq(S), NEW u
    PROVE  \E d \in 0..Len(p) :
              /\ d # 0 => p[d] = u
              /\ Summarised(p, u) \in Seq(S) /\ Len(Summarised(p, u)) = Len(p) - d
              /\ \A i \in 1..Len(p) - d : Summarised(p, u)[i] = p[d + i]
<1>1. PICK n : n = Len(p)
  OBVIOUS
<1>2. n \in Nat /\ DOMAIN p = 1..n /\ \A i \in 1..n : p[i] \in S
  BY <1>1, LenProperties, ElementOfSeq
<1>3. PICK at : at = {i \in 1..(n - 1) : p[i] = u}
  OBVIOUS
<1>4. PICK d : d = IF at = {} THEN 0 ELSE CHOOSE i \in at : TRUE
  OBVIOUS
<1>5. d \in 0..n /\ (d # 0 => p[d] = u)
  BY <1>2, <1>3, <1>4
<1>6. Summarised(p, u) = SubSeq(p, 1 + d, n)
  <2>1. Summarised(p, u) = SubSeq(p, IF at = {} THEN 1 ELSE 1 + (CHOOSE i \in at : TRUE), n)
    BY <1>1, <1>3 DEF Summarised
  <2>2. (IF at = {} THEN 1 ELSE 1 + (CHOOSE i \in at : TRUE)) = 1 + d
    BY <1>4
  <2> QED BY <2>1, <2>2
<1>7. PICK s : s = SubSeq(p, 1 + d, n)
  OBVIOUS
<1>8. s = [i \in 1..(n - d) |-> p[d + i]]
  <2>1. s = [i \in 1..(n - (1 + d) + 1) |-> p[i + (1 + d) - 1]]
    BY <1>2, <1>5, <1>7
  <2>2. n - (1 + d) + 1 = n - d
    BY <1>2, <1>5
  <2>3. \A i \in 1..(n - d) : i + (1 + d) - 1 = d + i
    BY <1>2, <1>5
  <2> QED BY <2>1, <2>2, <2>3
<1>9. n - d \in Nat /\ \A i \in 1..(n - d) : d + i \in 1..n
  BY <1>2, <1>5
<1>10. s \in Seq(S) /\ Len(s) = n - d
  <2>1. s \in [1..(n - d) -> S]
    BY <1>2, <1>8, <1>9
  <2> QED BY <1>9, <2>1, FunIsSeq
<1> QED BY <1>1, <1>5, <1>6, <1>7, <1>8, <1>10

\* What the model is shown of any path, with any summary, is paired.
LEMMA PromptPaired ==
    ASSUME msgs \in Seq(Msgs), NEW p \in Seq(1..Len(msgs)), NEW u
    PROVE  Prompt(p, u) \in Seq(Shown) /\ Paired(Prompt(p, u))
<1>1. PICK z : z = Summarised(p, u)
  OBVIOUS
<1>2. PICK n : n = Len(z)
  OBVIOUS
<1>3. z \in Seq(1..Len(msgs)) /\ n \in Nat /\ DOMAIN z = 1..n
  BY <1>1, <1>2, SummarisedIs, LenProperties
<1>4. PICK s : s = [i \in 1..n |-> msgs[z[i]]]
  OBVIOUS
<1>5. \A i \in 1..n : msgs[z[i]] \in Msgs
  BY <1>2, <1>3, ElementOfSeq
<1>6. s \in Seq(Msgs)
  <2>1. s \in [1..n -> Msgs]
    BY <1>4, <1>5
  <2> QED BY <1>3, <2>1, FunIsSeq
<1>7. Prompt(p, u) = Repair(s)
  BY <1>1, <1>3, <1>4 DEF Prompt
<1> QED BY <1>6, <1>7, RepairPaired

\* Whatever was lost, cut off by a summary or put in between, every branch can
\* be sent to the model: repairToolPairs gives each call one answer, directly
\* after the message with the calls, and shows no result without its call.
THEOREM PromptIsPairedHolds == Spec => []PromptIsPaired
<1>1. Inv => PromptIsPaired
  <2> SUFFICES ASSUME Inv, NEW x \in Known PROVE Paired(Prompt(PathTo(msgs, x), mark))
    BY DEF PromptIsPaired
  <2>1. Tree(msgs) /\ msgs \in Seq(Msgs) /\ Len(msgs) \in Nat /\ x \in 0..Len(msgs)
    BY StoredFacts DEF Inv, Stored, Tree
  <2>2. PathTo(msgs, x) \in Seq(1..x)
    BY <2>1, PathClimbs DEF Climbs
  <2>3. 1..x \subseteq 1..Len(msgs)
    BY <2>1
  <2>4. PathTo(msgs, x) \in Seq(1..Len(msgs))
    BY <2>2, <2>3, SeqMonotonic
  <2> QED BY <2>1, <2>4, PromptPaired
<1> QED BY <1>1, InvAlways, PTL

-----------------------------------------------------------------------------
(* Results follow their calls.                                             *)

\* A result is below a result or a message with calls; a run whose calls are
\* open points at such a message; what a turn has loaded is a path.
Awaits(ms, x) == x # 0 /\ (ms[x].role = "tool" \/ ms[x].calls # {})
ToolFollows(ms, m) ==
    /\ ms[m].answers # Nil => ms[m].role = "tool"
    /\ ms[m].role = "tool" => ms[m].calls = {} /\ Awaits(ms, ms[m].parent)
ToolsFollow(ms) == \A m \in 1..Len(ms) : ToolFollows(ms, m)
RunFollows(ms, a) ==
    /\ a.pc = "tools" => Awaits(ms, a.leaf)
    /\ a.pc = "ready" => \E n \in 0..Len(ms) : a.path = PathTo(ms, n)
Follows == ToolsFollow(msgs) /\ (active # Nil => RunFollows(msgs, active))

LEMMA PathGrows ==
    ASSUME NEW ms, Tree(ms), NEW s, Tree(s), Len(s) = Len(ms) + 1,
           \A k \in 1..Len(ms) : s[k] = ms[k], NEW n \in 0..Len(ms)
    PROVE  PathTo(s, n) = PathTo(ms, n)
<1>1. Len(ms) \in Nat
  BY LenProperties DEF Tree
<1> DEFINE T == {k \in 1..Len(ms) : PathTo(s, k) # PathTo(ms, k)}
<1>2. PathTo(s, 0) = <<>> /\ PathTo(ms, 0) = <<>>
  BY PathDef
<1>3. T = {}
  <2>1. SUFFICES ASSUME T # {} PROVE FALSE
    OBVIOUS
  <2>2. PICK k \in T : k \in 1..Len(ms) /\ ms[k].parent \in 0..(k - 1) /\ ms[k].parent \notin T
    BY <2>1, FromRoots
  <2>3. PICK p : p = ms[k].parent
    OBVIOUS
  <2>4. k \in 1..Len(s) /\ s[k].parent = p
    BY <1>1, <2>2, <2>3
  <2>5. PathTo(ms, k) = Append(PathTo(ms, p), k)
    BY <2>2, <2>3, PathDef
  <2>6. PathTo(s, k) = Append(PathTo(s, p), k)
    BY <2>4, PathDef
  <2>7. PathTo(s, p) = PathTo(ms, p)
    <3>1. p = 0 \/ p \in 1..Len(ms)
      BY <1>1, <2>2, <2>3
    <3>2. CASE p = 0
      BY <1>2, <3>2
    <3>3. CASE p \in 1..Len(ms)
      BY <2>2, <2>3, <3>3
    <3> QED BY <3>1, <3>2, <3>3
  <2> QED BY <2>2, <2>5, <2>6, <2>7
<1>4. CASE n = 0
  BY <1>2, <1>4
<1>5. CASE n # 0
  BY <1>1, <1>3, <1>5
<1> QED BY <1>4, <1>5

\* What is known of a transcript with one more message.
LEMMA FollowsAppend ==
    ASSUME Inv, Inv', ToolsFollow(msgs), NEW m \in Msgs, AppendTx(m),
           m.answers # Nil => m.role = "tool",
           m.role = "tool" => m.calls = {} /\ m.parent \in 1..Len(msgs) /\ Awaits(msgs, m.parent)
    PROVE  /\ ToolsFollow(msgs') /\ Len(msgs') = Len(msgs) + 1 /\ msgs'[Len(msgs')] = m
           /\ \A n \in 0..Len(msgs) : Awaits(msgs, n) => Awaits(msgs', n)
           /\ \A n \in 0..Len(msgs) : PathTo(msgs', n) = PathTo(msgs, n)
<1>1. PICK s : s = msgs'
  OBVIOUS
<1>2. Tree(msgs) /\ Len(msgs) \in Nat /\ msgs \in Seq(Msgs)
  BY StoredFacts DEF Inv, Stored, Tree
<1>3. Tree(s)
  BY <1>1 DEF Inv, Stored
<1>4. /\ s \in Seq(Msgs) /\ Len(s) = Len(msgs) + 1 /\ s[Len(msgs) + 1] = m
      /\ \A n \in 1..Len(msgs) : s[n] = msgs[n]
  <2>1. s = Append(msgs, m)
    BY <1>1 DEF AppendTx
  <2> QED BY <1>2, <2>1, AppendProperties
<1>5. ASSUME NEW n \in 0..Len(msgs), Awaits(msgs, n) PROVE Awaits(s, n)
  <2>1. n \in 1..Len(msgs)
    BY <1>2, <1>5 DEF Awaits
  <2> QED BY <1>4, <1>5, <2>1 DEF Awaits
<1>6. ASSUME NEW n \in 1..Len(s) PROVE ToolFollows(s, n)
  <2>1. CASE n = Len(msgs) + 1
    <3>1. s[n] = m
      BY <1>4, <2>1
    <3>2. m.role = "tool" => Awaits(s, m.parent)
      BY <1>2, <1>5
    <3> QED BY <3>1, <3>2 DEF ToolFollows
  <2>2. CASE n # Len(msgs) + 1
    <3>1. n \in 1..Len(msgs) /\ s[n] = msgs[n] /\ ToolFollows(msgs, n)
      BY <1>2, <1>4, <2>2 DEF ToolsFollow
    <3>2. msgs[n].parent \in 0..Len(msgs)
      BY <1>2, <3>1, StoredFacts DEF Inv
    <3> QED BY <1>5, <3>1, <3>2 DEF ToolFollows
  <2> QED BY <2>1, <2>2
<1>7. \A n \in 0..Len(msgs) : PathTo(s, n) = PathTo(msgs, n)
  BY <1>2, <1>3, <1>4, PathGrows
<1> QED BY <1>1, <1>4, <1>5, <1>6, <1>7 DEF ToolsFollow

\* A message that is no result, appended by a run that then has no calls open
\* and nothing loaded, or by somebody else.
LEMMA OtherFollows ==
    ASSUME Inv, Inv', Follows, NEW m \in Msgs, AppendTx(m), m.role # "tool", m.answers = Nil,
           active' = active \/ active'.pc \notin {"tools", "ready"}
    PROVE  Follows'
<1>1. /\ ToolsFollow(msgs') /\ Len(msgs') = Len(msgs) + 1
      /\ \A n \in 0..Len(msgs) : Awaits(msgs, n) => Awaits(msgs', n)
      /\ \A n \in 0..Len(msgs) : PathTo(msgs', n) = PathTo(msgs, n)
  BY FollowsAppend DEF Follows
<1>2. CASE active'.pc \notin {"tools", "ready"}
  BY <1>1, <1>2 DEF Follows, RunFollows
<1>3. CASE active' = active
  <2>1. SUFFICES ASSUME active # Nil PROVE RunFollows(msgs', active)
    BY <1>1, <1>3 DEF Follows
  <2>2. active.leaf \in 0..Len(msgs) /\ Len(msgs) \in Nat /\ RunFollows(msgs, active)
    BY <2>1, ActiveFacts DEF Follows
  <2>3. active.pc = "tools" => Awaits(msgs', active.leaf)
    BY <1>1, <2>2 DEF RunFollows
  <2>4. ASSUME active.pc = "ready" PROVE \E n \in 0..Len(msgs') : active.path = PathTo(msgs', n)
    <3>1. PICK n \in 0..Len(msgs) : active.path = PathTo(msgs, n)
      BY <2>2, <2>4 DEF RunFollows
    <3>2. n \in 0..Len(msgs')
      BY <1>1, <2>2
    <3> QED BY <1>1, <3>1, <3>2
  <2> QED BY <2>3, <2>4 DEF RunFollows
<1> QED BY <1>2, <1>3

LEMMA QuietFollows ==
    ASSUME Follows, msgs' = msgs,
           \/ active' = active \/ active' = Nil
           \/ active'.pc \notin {"tools", "ready"}
           \/ RunFollows(msgs, active')
    PROVE  Follows'
BY DEF Follows, RunFollows

LEMMA EndedFollows == active # Nil /\ Inv => Ended.pc = "done"
  BY ActiveFacts, EndedOk

\* The run's answer: its calls are open, and its leaf is the message with them.
LEMMA AnswerFollows ==
    ASSUME Inv, Inv', Follows, NEW calls \in SUBSET Calls, Answer(calls)
    PROVE  Follows'
<1>1. active # Nil /\ active.pc = "ready" /\ active.leaf \in 0..Len(msgs) /\ Len(msgs) \in Nat
  BY ActiveFacts DEF Answer, At
<1>2. PICK m : m = Msg(active.leaf, "assistant", calls, Nil, active.id)
  OBVIOUS
<1>3. m \in Msgs /\ m.role # "tool" /\ m.answers = Nil /\ m.calls = calls /\ AppendTx(m)
  BY <1>1, <1>2, ActiveFacts DEF Msg, Msgs, Answer
<1>4. CASE calls = {}
  <2>1. active'.pc \notin {"tools", "ready"}
    BY <1>1, <1>4, EndedFollows DEF Answer
  <2> QED BY <1>3, <2>1, OtherFollows
<1>5. CASE calls # {}
  <2>1. active' = [active EXCEPT !.pc = "tools", !.leaf = Len(msgs'), !.left = calls, !.path = <<>>, !.upto = 0]
    BY <1>5 DEF Answer
  <2>2. active'.pc = "tools" /\ active'.leaf = Len(msgs')
    BY <1>1, <2>1, ActiveFacts DEF ActivesOf
  <2>3. ToolsFollow(msgs') /\ Len(msgs') = Len(msgs) + 1 /\ msgs'[Len(msgs')] = m
    BY <1>3, FollowsAppend DEF Follows
  <2>4. Awaits(msgs', active'.leaf)
    BY <1>1, <1>3, <1>5, <2>2, <2>3 DEF Awaits
  <2>5. RunFollows(msgs', active')
    BY <2>2, <2>4 DEF RunFollows
  <2> QED BY <2>3, <2>5 DEF Follows
<1> QED BY <1>4, <1>5

\* What is left of a run when one of its calls is over.
LEMMA CallOverIs ==
    ASSUME Inv, active # Nil, active.pc = "tools", NEW c, NEW cancelled \in BOOLEAN, NEW l
    PROVE  LET a == CallOver(c, cancelled, l)
           IN  a.pc \in {"tools", "turn", "done"} /\ (a.pc = "tools" => a.leaf = l)
<1>1. CASE active.left = {c} /\ cancelled
  BY <1>1, EndedFollows DEF CallOver
<1>2. CASE ~(active.left = {c} /\ cancelled)
  <2>1. PICK pc : pc = IF active.left = {c} THEN "turn" ELSE "tools"
    OBVIOUS
  <2>2. CallOver(c, cancelled, l) = [active EXCEPT !.left = @ \ {c}, !.leaf = l, !.pc = pc]
    BY <1>2, <2>1 DEF CallOver
  <2>3. active \in ActivesOf(Len(msgs), count.runs)
    BY ActiveFacts
  <2>4. CallOver(c, cancelled, l).pc = pc /\ CallOver(c, cancelled, l).leaf = l
    BY <2>2, <2>3 DEF ActivesOf
  <2> QED BY <2>1, <2>4
<1> QED BY <1>1, <1>2

LEMMA ToolResultFollows ==
    ASSUME Inv, Inv', Follows, NEW c \in Calls, NEW cancelled \in BOOLEAN, ToolResult(c, cancelled)
    PROVE  Follows'
<1>1. /\ active # Nil /\ active.pc = "tools" /\ active.leaf \in 0..Len(msgs) /\ Len(msgs) \in Nat
      /\ Awaits(msgs, active.leaf)
  BY ActiveFacts DEF ToolResult, At, Follows, RunFollows
<1>2. PICK m : m = Msg(active.leaf, "tool", {}, c, active.id)
  OBVIOUS
<1>3. /\ m \in Msgs /\ m.role = "tool" /\ m.calls = {} /\ m.parent = active.leaf /\ AppendTx(m)
      /\ active.leaf \in 1..Len(msgs)
  BY <1>1, <1>2, ActiveFacts DEF Msg, Msgs, ToolResult, Awaits
<1>4. ToolsFollow(msgs') /\ Len(msgs') = Len(msgs) + 1 /\ msgs'[Len(msgs')] = m
  BY <1>1, <1>3, FollowsAppend DEF Follows
<1>5. PICK l : l = Len(msgs')
  OBVIOUS
<1>6. active' = CallOver(c, cancelled, l)
  BY <1>5 DEF ToolResult
<1>7. active'.pc \in {"tools", "turn", "done"} /\ (active'.pc = "tools" => active'.leaf = l)
  BY <1>1, <1>6, CallOverIs
<1>8. Awaits(msgs', l)
  BY <1>1, <1>3, <1>4, <1>5 DEF Awaits
<1>9. RunFollows(msgs', active')
  BY <1>7, <1>8 DEF RunFollows
<1> QED BY <1>4, <1>9 DEF Follows

LEMMA ResultLostFollows ==
    ASSUME Inv, Follows, NEW c \in Calls, NEW cancelled \in BOOLEAN, ResultLost(c, cancelled)
    PROVE  Follows'
<1>1. active # Nil /\ active.pc = "tools" /\ Awaits(msgs, active.leaf)
  BY DEF ResultLost, At, Follows, RunFollows
<1>2. PICK l : l = active.leaf
  OBVIOUS
<1>3. active' = CallOver(c, cancelled, l) /\ msgs' = msgs
  BY <1>2 DEF ResultLost
<1>4. active'.pc \in {"tools", "turn", "done"} /\ (active'.pc = "tools" => active'.leaf = l)
  BY <1>1, <1>3, CallOverIs
<1>5. RunFollows(msgs, active')
  BY <1>1, <1>2, <1>4 DEF RunFollows
<1> QED BY <1>3, <1>5, QuietFollows

\* A submission, or a run that is promoted, is at its beginning.
LEMMA SubmitFollows ==
    ASSUME Inv, Follows, NEW sub, Submit(sub), msgs' = msgs
    PROVE  Follows'
<1>1. active' = active \/ active'.pc = "point"
  BY DEF Submit, Active
<1> QED BY <1>1, QuietFollows

\* The steps of the run that load nothing and have no calls open, and the
\* reading of the path.
LEMMA RunStepFollows ==
    ASSUME Inv, Inv', Follows,
           \/ Point \/ ReadLeaf \/ AppendTrigger \/ MaterializeFails \/ Command \/ Reply \/ Repoint
           \/ ReadChat \/ Load \/ Compact \/ NoAnswer \/ Finish
    PROVE  Follows'
<1>1. /\ active # Nil => active \in ActivesOf(Len(msgs), count.runs)
      /\ active # Nil => Ended.pc = "done"
  BY ActiveFacts, EndedFollows
<1>2. CASE Point
  BY <1>1, <1>2, QuietFollows DEF Point, At, ActivesOf
<1>3. CASE ReadLeaf
  <2>1. active # Nil /\ active \in ActivesOf(Len(msgs), count.runs) /\ msgs' = msgs
    BY <1>1, <1>3 DEF ReadLeaf, At
  <2>2. PICK sub : sub = [active.sub EXCEPT !.parent = IF active.sub.explicit THEN @ ELSE leaf]
    OBVIOUS
  <2>3. \/ active' = [active EXCEPT !.pc = "append", !.sub = sub]
        \/ active' = [active EXCEPT !.pc = "first", !.leaf = leaf, !.sub = Nil]
    BY <1>3, <2>2 DEF ReadLeaf
  <2>4. active'.pc \in {"append", "first"}
    BY <2>1, <2>3 DEF ActivesOf
  <2> QED BY <2>1, <2>4, QuietFollows
<1>4. CASE AppendTrigger
  <2>1. active # Nil /\ active \in ActivesOf(Len(msgs), count.runs) /\ active.pc = "append"
    BY <1>1, <1>4 DEF AppendTrigger, At
  <2>2. PICK m : m = Msg(active.sub.parent, "user", {}, Nil, active.id)
    OBVIOUS
  <2>3. active.sub \in SubsOf(Len(msgs)) /\ active.id \in Nat
    BY <2>1, ActiveFacts DEF RunOk, Early
  <2>4. m \in Msgs /\ m.role # "tool" /\ m.answers = Nil /\ AppendTx(m)
    BY <1>4, <2>2, <2>3, StoredFacts DEF AppendTrigger, Msg, Msgs, SubsOf, Inv
  <2>5. active'.pc = "first"
    BY <1>4, <2>1 DEF AppendTrigger, ActivesOf
  <2> QED BY <2>4, <2>5, OtherFollows
<1>5. CASE MaterializeFails \/ NoAnswer
  <2>1. active # Nil /\ active' = Ended /\ msgs' = msgs
    BY <1>5 DEF MaterializeFails, NoAnswer, At
  <2> QED BY <1>1, <2>1, QuietFollows
<1>6. CASE Command
  BY <1>1, <1>6, QuietFollows DEF Command, At, ActivesOf
<1>7. CASE Reply
  <2>1. active # Nil /\ active \in ActivesOf(Len(msgs), count.runs)
    BY <1>1, <1>7 DEF Reply, At
  <2>2. PICK m : m = Msg(active.leaf, "assistant", {}, Nil, 0)
    OBVIOUS
  <2>3. m \in Msgs /\ m.role # "tool" /\ m.answers = Nil /\ AppendTx(m)
    BY <1>7, <2>1, <2>2, StoredFacts DEF Reply, Msg, Msgs, ActivesOf, Inv
  <2>4. active'.pc = "repoint"
    BY <1>7, <2>1 DEF Reply, ActivesOf
  <2> QED BY <2>3, <2>4, OtherFollows
<1>8. CASE Repoint
  <2>1. active # Nil /\ active' = Ended /\ msgs' = msgs
    BY <1>8 DEF Repoint, At
  <2> QED BY <1>1, <2>1, QuietFollows
<1>9. CASE ReadChat \/ Compact
  <2>1. active # Nil /\ active \in ActivesOf(Len(msgs), count.runs) /\ msgs' = msgs
    BY <1>1, <1>9 DEF ReadChat, Compact, At
  <2>2. active'.pc = "load"
    BY <1>9, <2>1 DEF ReadChat, Compact, ActivesOf
  <2> QED BY <2>1, <2>2, QuietFollows
<1>10. CASE Load
  <2>1. active # Nil /\ active \in ActivesOf(Len(msgs), count.runs) /\ msgs' = msgs
    BY <1>1, <1>10 DEF Load, At
  <2>2. active'.pc = "ready" /\ active'.path = PathTo(msgs, leaf)
    BY <1>10, <2>1 DEF Load, ActivesOf
  <2>3. leaf \in 0..Len(msgs)
    BY DEF Inv, Stored
  <2>4. RunFollows(msgs, active')
    BY <2>2, <2>3 DEF RunFollows
  <2> QED BY <2>1, <2>4, QuietFollows
<1>11. CASE Finish
  <2>1. msgs' = msgs /\ (active' = Nil \/ active'.pc = "point")
    BY <1>11 DEF Finish, Active
  <2> QED BY <2>1, QuietFollows
<1> QED BY <1>2, <1>3, <1>4, <1>5, <1>6, <1>7, <1>8, <1>9, <1>10, <1>11

\* The steps of others.
LEMMA OthersFollow ==
    ASSUME Inv, Inv', Follows,
           \/ \E p \in {0} \cup Known : Post(p)
           \/ \E from \in Known, edit \in BOOLEAN : CheckBranch(from, edit)
           \/ Branch
           \/ \E i \in DOMAIN queue : CancelQueued(i)
           \/ \E m \in Known, deep \in BOOLEAN : Select(m, deep)
           \/ \E w \in Writers : MailRead(w) \/ MailAppend(w)
           \/ Crash
    PROVE  Follows'
<1>1. CASE \E p \in {0} \cup Known : Post(p)
  BY <1>1, SubmitFollows DEF Post
<1>2. CASE \E from \in Known, edit \in BOOLEAN : CheckBranch(from, edit)
  BY <1>2, QuietFollows DEF CheckBranch
<1>3. CASE Branch
  <2>1. CASE ~checked.append
    BY <1>3, <2>1, SubmitFollows DEF Branch
  <2>2. CASE checked.append
    <3>1. checked.sub \in SubsOf(Len(msgs))
      BY <1>3 DEF Branch, Inv, OthersOk
    <3>2. PICK m : m = Msg(checked.sub.parent, "assistant", {}, Nil, 0)
      OBVIOUS
    <3>3. m \in Msgs /\ m.role # "tool" /\ m.answers = Nil
      BY <3>1, <3>2, StoredFacts DEF Msg, Msgs, SubsOf, Inv
    <3>4. AppendTx(m) /\ active' = active
      BY <1>3, <2>2, <3>2 DEF Branch
    <3> QED BY <3>3, <3>4, OtherFollows
  <2> QED BY <2>1, <2>2
<1>4. CASE \E i \in DOMAIN queue : CancelQueued(i)
  BY <1>4, QuietFollows DEF CancelQueued
<1>5. CASE \E m \in Known, deep \in BOOLEAN : Select(m, deep)
  BY <1>5, QuietFollows DEF Select
<1>6. CASE \E w \in Writers : MailRead(w)
  BY <1>6, QuietFollows DEF MailRead
<1>7. CASE \E w \in Writers : MailAppend(w)
  <2>1. PICK w \in Writers : MailAppend(w)
    BY <1>7
  <2>2. mail[w] \in 0..Len(msgs)
    BY <2>1 DEF Inv, OthersOk, MailAppend
  <2>3. PICK m : m = Msg(mail[w], "user", {}, Nil, 0)
    OBVIOUS
  <2>4. m \in Msgs /\ m.role # "tool" /\ m.answers = Nil
    BY <2>2, <2>3, StoredFacts DEF Msg, Msgs, Inv
  <2>5. AppendTx(m) /\ active' = active
    BY <2>1, <2>3 DEF MailAppend
  <2> QED BY <2>4, <2>5, OtherFollows
<1>8. CASE Crash
  BY <1>8, QuietFollows DEF Crash
<1> QED BY <1>1, <1>2, <1>3, <1>4, <1>5, <1>6, <1>7, <1>8

LEMMA FollowsAlways == Spec => []Follows
<1>1. Init => Follows
  <2> SUFFICES ASSUME Init PROVE Follows
    OBVIOUS
  <2>1. msgs = <<>> /\ active = Nil /\ Len(msgs) = 0
    BY DEF Init
  <2> QED BY <2>1 DEF Follows, ToolsFollow
<1>2. Inv /\ Inv' /\ Follows /\ [Next]_vars => Follows'
  <2> SUFFICES ASSUME Inv, Inv', Follows, [Next]_vars PROVE Follows'
    OBVIOUS
  <2>1. CASE UNCHANGED vars
    BY <2>1, QuietFollows DEF vars
  <2>2. CASE \E calls \in SUBSET Calls : Answer(calls)
    BY <2>2, AnswerFollows
  <2>3. CASE \E c \in Calls, cancelled \in BOOLEAN : ToolResult(c, cancelled) \/ ResultLost(c, cancelled)
    BY <2>3, ToolResultFollows, ResultLostFollows
  <2> QED BY <2>1, <2>2, <2>3, RunStepFollows, OthersFollow DEF Next
<1> QED BY <1>1, <1>2, InvAlways, PTL DEF Spec

\* Messages of which each is the child of the one before it.
Line(ms, z) ==
    /\ z \in Seq(1..Len(ms))
    /\ \A i \in 1..Len(z) : \A j \in 1..Len(z) : i < j => z[i] < z[j]
    /\ \A i \in 1..(Len(z) - 1) : ms[z[i + 1]].parent = z[i]
Among(p, x) == \E i \in 1..Len(p) : p[i] = x
NoneCalls(ms, x) == \A y \in 1..Len(ms) : ms[y].calls # {} => y <= x

LEMMA PathIsLine ==
    ASSUME NEW ms, Tree(ms), NEW x \in 0..Len(ms)
    PROVE  Line(ms, PathTo(ms, x))
<1>1. PICK p : p = PathTo(ms, x)
  OBVIOUS
<1>2. PICK n : n = Len(p)
  OBVIOUS
<1>3. Len(ms) \in Nat /\ \A m \in 1..Len(ms) : ms[m].parent \in 0..(m - 1)
  BY LenProperties DEF Tree
<1>4. p \in Seq(1..x) /\ n \in Nat /\ \A i \in 1..(n - 1) : ms[p[i + 1]].parent = p[i]
  <2>1. Climbs(ms, x)
    BY PathClimbs
  <2>2. p \in Seq(1..x) /\ \A i \in 1..(Len(p) - 1) : ms[p[i + 1]].parent = p[i]
    BY <1>1, <2>1 DEF Climbs
  <2> QED BY <1>2, <2>2, LenProperties
<1>5. p \in Seq(1..Len(ms))
  <2>1. 1..x \subseteq 1..Len(ms)
    BY <1>3
  <2> QED BY <1>4, <2>1, SeqMonotonic
<1>6. \A i \in 1..n : p[i] \in 1..Len(ms)
  BY <1>2, <1>5, ElementOfSeq
<1>7. ASSUME NEW i \in 1..(n - 1) PROVE p[i] < p[i + 1]
  <2>1. i \in 1..n /\ i + 1 \in 1..n
    BY <1>4
  <2>2. ms[p[i + 1]].parent = p[i] /\ ms[p[i + 1]].parent \in 0..(p[i + 1] - 1)
    BY <1>3, <1>4, <1>6, <2>1
  <2>3. p[i] \in 1..Len(ms) /\ p[i + 1] \in 1..Len(ms)
    BY <1>6, <2>1
  <2> QED BY <1>3, <2>2, <2>3
<1>8. ASSUME NEW i \in 1..n PROVE \A j \in (i + 1)..n : p[i] < p[j]
  <2> DEFINE T == {j \in (i + 1)..n : ~(p[i] < p[j])}
  <2>1. SUFFICES ASSUME T # {} PROVE FALSE
    OBVIOUS
  <2>2. PICK j \in T : \A k \in T : j <= k
    <3>1. T \subseteq Nat
      BY <1>4
    <3> QED BY <2>1, <3>1, Least
  <2>3. j \in (i + 1)..n /\ j - 1 \in 1..(n - 1) /\ (j - 1) + 1 = j /\ ~(j <= j - 1)
    BY <1>4
  <2>4. p[j - 1] < p[j]
    BY <1>7, <2>3
  <2>5. j - 1 = i \/ j - 1 \in (i + 1)..n
    BY <1>4, <2>3
  <2>6. j - 1 \notin T
    BY <2>2, <2>3
  <2>7. p[i] \in Nat /\ p[j - 1] \in Nat /\ p[j] \in Nat
    <3>1. i \in 1..n /\ j - 1 \in 1..n /\ j \in 1..n
      BY <1>4, <2>3
    <3> QED BY <1>3, <1>6, <3>1
  <2>8. j - 1 # i
    BY <2>2, <2>4
  <2>9. p[i] < p[j - 1]
    BY <2>5, <2>6, <2>8
  <2>10. ~(p[i] < p[j])
    BY <2>2
  <2> QED BY <2>4, <2>7, <2>9, <2>10
<1>9. ASSUME NEW i \in 1..n, NEW j \in 1..n, i < j PROVE p[i] < p[j]
  <2>1. j \in (i + 1)..n
    BY <1>4, <1>9
  <2> QED BY <1>8, <2>1
<1> QED BY <1>1, <1>2, <1>4, <1>5, <1>9 DEF Line

\* What the summary leaves of a line is a line, with all messages that are
\* newer than the summary.
LEMMA SummarisedIsLine ==
    ASSUME NEW ms, Len(ms) \in Nat, NEW p, Line(ms, p), NEW u \in Nat
    PROVE  /\ Line(ms, Summarised(p, u))
           /\ \A i \in 1..Len(p) : u < p[i] => Among(Summarised(p, u), p[i])
<1>1. PICK z : z = Summarised(p, u)
  OBVIOUS
<1>2. PICK n : n = Len(p)
  OBVIOUS
<1>3. p \in Seq(1..Len(ms)) /\ n \in Nat /\ \A i \in 1..n : p[i] \in 1..Len(ms)
  BY <1>2, LenProperties, ElementOfSeq DEF Line
<1>4. PICK d \in 0..n :
        /\ d # 0 => p[d] = u
        /\ z \in Seq(1..Len(ms)) /\ Len(z) = n - d
        /\ \A i \in 1..n - d : z[i] = p[d + i]
  <2>1. PICK S : S = 1..Len(ms)
    OBVIOUS
  <2>2. p \in Seq(S)
    BY <1>3, <2>1
  <2>3. \E d \in 0..Len(p) :
          /\ d # 0 => p[d] = u
          /\ z \in Seq(S) /\ Len(z) = Len(p) - d
          /\ \A i \in 1..Len(p) - d : z[i] = p[d + i]
    BY <1>1, <2>2, SummarisedIs
  <2> QED BY <1>2, <2>1, <2>3
<1>5. \A i \in 1..n : \A j \in 1..n : i < j => p[i] < p[j]
  BY <1>2 DEF Line
<1>6. ASSUME NEW i \in 1..n - d, NEW j \in 1..n - d, i < j PROVE z[i] < z[j]
  <2>1. d + i \in 1..n /\ d + j \in 1..n /\ d + i < d + j
    BY <1>3, <1>6
  <2>2. p[d + i] < p[d + j]
    BY <1>5, <2>1
  <2> QED BY <1>4, <2>2
<1>7. ASSUME NEW i \in 1..((n - d) - 1) PROVE ms[z[i + 1]].parent = z[i]
  <2>1. i \in 1..n - d /\ i + 1 \in 1..n - d /\ d + i \in 1..(n - 1) /\ d + (i + 1) = (d + i) + 1
    BY <1>3
  <2>2. ms[p[(d + i) + 1]].parent = p[d + i]
    BY <1>2, <2>1 DEF Line
  <2>3. z[i] = p[d + i] /\ z[i + 1] = p[d + (i + 1)]
    BY <1>4, <2>1
  <2> QED BY <2>1, <2>2, <2>3
<1>8. ASSUME NEW i \in 1..n, u < p[i] PROVE \E k \in 1..n - d : z[k] = p[i]
  <2>1. d < i
    <3>1. SUFFICES ASSUME i <= d PROVE FALSE
      BY <1>3
    <3>2. d # 0 /\ d \in 1..n
      BY <1>3, <3>1
    <3>3. p[d] = u /\ p[i] \in 1..Len(ms)
      BY <1>3, <1>4, <3>2
    <3>4. i = d \/ i < d
      BY <1>3, <3>1
    <3>5. p[i] <= u
      <4>1. CASE i = d
        BY <3>3, <4>1
      <4>2. CASE i < d
        <5>1. p[i] < p[d]
          BY <1>5, <3>2, <4>2
        <5> QED BY <3>3, <5>1
      <4> QED BY <3>4, <4>1, <4>2
    <3> QED BY <1>8, <3>3, <3>5
  <2>2. PICK k : k = i - d
    OBVIOUS
  <2>3. k \in 1..n - d /\ d + k = i
    BY <1>3, <2>1, <2>2
  <2> QED BY <1>4, <2>3
<1>9. Line(ms, z)
  BY <1>4, <1>6, <1>7 DEF Line
<1> QED BY <1>1, <1>2, <1>4, <1>8, <1>9 DEF Among

\* Between the newest message with calls and a result below it are results.
LEMMA AllTools ==
    ASSUME NEW ms \in Seq(Msgs), ToolsFollow(ms), NEW z, Line(ms, z),
           NEW i \in 1..Len(z), NEW j \in 1..Len(z), i < j,
           ms[z[j]].answers \in ms[z[i]].calls, NoneCalls(ms, z[i])
    PROVE  ms[z[i]].role # "tool" /\ \A k \in (i + 1)..j : ms[z[k]].role = "tool"
<1>1. PICK n : n = Len(z)
  OBVIOUS
<1>2. n \in Nat /\ i \in 1..n /\ j \in 1..n /\ Len(ms) \in Nat
  BY <1>1, LenProperties DEF Line
<1>3. \A k \in 1..n : z[k] \in 1..Len(ms) /\ z[k] \in Nat /\ ToolFollows(ms, z[k]) /\ ms[z[k]] \in Msgs
  <2>1. \A k \in 1..n : z[k] \in 1..Len(ms)
    BY <1>1, ElementOfSeq DEF Line
  <2>2. \A m \in 1..Len(ms) : m \in Nat /\ ToolFollows(ms, m) /\ ms[m] \in Msgs
    BY ElementOfSeq DEF ToolsFollow
  <2> QED BY <2>1, <2>2
<1>4. ms[z[i]].role # "tool"
  BY <1>2, <1>3 DEF ToolFollows
<1>5. ms[z[j]].role = "tool"
  <2>1. ms[z[i]].calls \in SUBSET Calls
    BY <1>2, <1>3 DEF Msgs
  <2>2. ms[z[j]].answers # Nil
    BY <2>1, TranscriptAssumption
  <2> QED BY <1>2, <1>3, <2>2 DEF ToolFollows
<1> DEFINE T == {m \in 0..(j - i - 1) : ms[z[j - m]].role # "tool"}
<1>6. T = {}
  <2>1. SUFFICES ASSUME T # {} PROVE FALSE
    OBVIOUS
  <2>2. PICK m \in T : \A o \in T : m <= o
    <3>1. T \subseteq Nat
      BY <1>2
    <3> QED BY <2>1, <3>1, Least
  <2>3. m \in 0..(j - i - 1) /\ ms[z[j - m]].role # "tool"
    BY <2>2
  <2>4. m # 0
    <3>1. j - 0 = j
      BY <1>2
    <3> QED BY <1>5, <2>3, <3>1
  <2>5. m - 1 \in 0..(j - i - 1) /\ ~(m <= m - 1)
    BY <1>2, <2>3, <2>4
  <2>6. PICK k : k = j - m
    OBVIOUS
  <2>7. k \in (i + 1)..(n - 1) /\ k \in 1..(n - 1) /\ k \in 1..n /\ k + 1 \in 1..n /\ i < k
        /\ j - (m - 1) = k + 1
    BY <1>2, <2>3, <2>4, <2>6
  <2>8. ms[z[k + 1]].role = "tool"
    <3>1. m - 1 \notin T
      BY <2>2, <2>5
    <3>2. ms[z[j - (m - 1)]].role = "tool"
      BY <2>5, <3>1
    <3> QED BY <2>7, <3>2
  <2>9. Awaits(ms, z[k]) /\ ms[z[k]].role # "tool"
    <3>1. ms[z[k + 1]].parent = z[k]
      BY <1>1, <2>7 DEF Line
    <3>2. ToolFollows(ms, z[k + 1])
      BY <1>3, <2>7
    <3> QED BY <2>3, <2>6, <2>8, <3>1, <3>2 DEF ToolFollows
  <2>10. z[k] <= z[i]
    <3>1. z[k] \in 1..Len(ms)
      BY <1>3, <2>7
    <3> QED BY <2>9, <3>1 DEF Awaits, NoneCalls
  <2>11. z[i] < z[k]
    BY <1>1, <1>2, <2>7 DEF Line
  <2>12. z[i] \in Nat /\ z[k] \in Nat
    BY <1>2, <1>3, <2>7
  <2> QED BY <2>10, <2>11, <2>12
<1>7. ASSUME NEW k \in (i + 1)..j PROVE ms[z[k]].role = "tool"
  <2>1. j - k \in 0..(j - i - 1) /\ j - (j - k) = k
    BY <1>2
  <2>2. ms[z[j - (j - k)]].role = "tool"
    BY <1>6, <2>1
  <2> QED BY <2>1, <2>2
<1> QED BY <1>4, <1>7

\* repairToolPairs shows what was recorded directly after the message with the
\* call, among other results.
LEMMA RepairShows ==
    ASSUME NEW s \in Seq(Msgs), NEW i \in 1..Len(s), NEW j \in 1..Len(s), i < j, ~Tool(s, i),
           \A k \in (i + 1)..j : Tool(s, k), s[j].answers \in s[i].calls
    PROVE  \E n \in 1..Len(Repair(s)) : Repair(s)[n] = Found(s[j].answers)
<1>1. Len(s) \in Nat
  BY LenProperties
<1> DEFINE T == {k \in (i + 1)..j : s[k].answers = s[j].answers}
<1>2. PICK k \in T : \A o \in T : k <= o
  <2>1. j \in T /\ T \subseteq Nat
    BY <1>1
  <2> QED BY <2>1, Least
<1>3. k \in (i + 1)..j /\ s[k].answers = s[j].answers
  BY <1>2
<1>4. k \in After(s, i)
  <2>1. k \in (i + 1)..Len(s)
    BY <1>1, <1>3
  <2>2. \A o \in (i + 1)..k : o \in (i + 1)..j
    BY <1>1, <1>3
  <2> QED BY <2>1, <2>2 DEF After
<1>5. ASSUME NEW o \in (i + 1)..(k - 1) PROVE s[o].answers # s[k].answers
  <2>1. o \in (i + 1)..j /\ ~(k <= o)
    BY <1>1, <1>3
  <2>2. o \notin T
    BY <1>2, <2>1
  <2> QED BY <1>3, <2>1, <2>2
<1>6. k \in Kept(s, i)
  BY <1>3, <1>4, <1>5 DEF Kept
<1>7. \E n \in 1..Len(Repair(s)) : Repair(s)[n] = Found(s[k].answers)
  BY <1>6, RepairPaired
<1> QED BY <1>3, <1>7

\* What the model is shown of a line has the results of its newest calls.
LEMMA PromptShows ==
    ASSUME msgs \in Seq(Msgs), ToolsFollow(msgs), NEW p, Line(msgs, p), NEW u \in Nat,
           NEW x, NEW r, x < r, u < x, Among(p, x), Among(p, r),
           msgs[r].answers \in msgs[x].calls, NoneCalls(msgs, x)
    PROVE  \E n \in 1..Len(Prompt(p, u)) : Prompt(p, u)[n] = Found(msgs[r].answers)
<1>1. PICK z : z = Summarised(p, u)
  OBVIOUS
<1>2. PICK n : n = Len(z)
  OBVIOUS
<1>3. Len(msgs) \in Nat
  BY LenProperties
<1>4. Line(msgs, z) /\ \A i \in 1..Len(p) : u < p[i] => Among(z, p[i])
  BY <1>1, <1>3, SummarisedIsLine
<1>5. z \in Seq(1..Len(msgs)) /\ n \in Nat /\ DOMAIN z = 1..n /\ \A i \in 1..n : z[i] \in 1..Len(msgs)
  BY <1>2, <1>4, LenProperties, ElementOfSeq DEF Line
<1>6. x \in Nat /\ r \in Nat
  <2>1. \A i \in 1..Len(p) : p[i] \in 1..Len(msgs)
    BY ElementOfSeq DEF Line
  <2> QED BY <1>3, <2>1 DEF Among
<1>7. PICK i \in 1..n : z[i] = x
  BY <1>2, <1>4 DEF Among
<1>8. PICK j \in 1..n : z[j] = r
  <2>1. u < r
    BY <1>6
  <2> QED BY <1>2, <1>4, <2>1 DEF Among
<1>9. i < j
  <2>1. SUFFICES ASSUME j <= i PROVE FALSE
    BY <1>5
  <2>2. j = i \/ j < i
    BY <1>5, <2>1
  <2>3. j < i => z[j] < z[i]
    BY <1>2, <1>4 DEF Line
  <2> QED BY <1>6, <1>7, <1>8, <2>2, <2>3
<1>10. PICK s : s = [k \in 1..n |-> msgs[z[k]]]
  OBVIOUS
<1>11. \A k \in 1..n : s[k] = msgs[z[k]] /\ s[k] \in Msgs
  BY <1>5, <1>10, ElementOfSeq
<1>12. s \in Seq(Msgs) /\ Len(s) = n
  <2>1. s \in [1..n -> Msgs]
    BY <1>10, <1>11
  <2> QED BY <1>5, <2>1, FunIsSeq
<1>13. msgs[z[i]].role # "tool" /\ \A k \in (i + 1)..j : msgs[z[k]].role = "tool"
  <2>1. msgs[z[j]].answers \in msgs[z[i]].calls /\ NoneCalls(msgs, z[i])
    BY <1>7, <1>8
  <2>2. msgs \in Seq(Msgs) /\ ToolsFollow(msgs) /\ Line(msgs, z) /\ i \in 1..Len(z) /\ j \in 1..Len(z)
    BY <1>2, <1>4
  <2> QED BY ONLY <1>9, <2>1, <2>2, AllTools
<1>14. ~Tool(s, i) /\ (\A k \in (i + 1)..j : Tool(s, k)) /\ s[j].answers \in s[i].calls
  <2>1. \A k \in (i + 1)..j : k \in 1..n
    BY <1>5
  <2> QED BY <1>7, <1>8, <1>11, <1>13, <2>1 DEF Tool
<1>15. \E k \in 1..Len(Repair(s)) : Repair(s)[k] = Found(s[j].answers)
  BY <1>9, <1>12, <1>14, RepairShows
<1>16. Prompt(p, u) = Repair(s)
  BY <1>1, <1>5, <1>10 DEF Prompt
<1> QED BY <1>8, <1>11, <1>15, <1>16

\* repairToolPairs replaces no result that was recorded: the results of the
\* run's last calls are what the model is shown, unless the summary has them or
\* the chat was pointed elsewhere.
THEOREM ResultsAreShownHolds == Spec => []ResultsAreShown
<1>1. Inv /\ Follows => ResultsAreShown
  <2> SUFFICES ASSUME Inv, Follows, At("ready"), NEW x \in Known, NEW r \in Known,
                      \E i \in DOMAIN active.path : active.path[i] = x,
                      \E i \in DOMAIN active.path : active.path[i] = r,
                      x < r, active.upto < x, msgs[r].answers \in msgs[x].calls,
                      \A y \in Known : msgs[y].calls # {} => y <= x
               PROVE  LET p == Prompt(active.path, active.upto)
                      IN  \E i \in DOMAIN p : Tool(p, i) /\ p[i].answers = msgs[r].answers /\ p[i].real
    BY DEF ResultsAreShown
  <2>1. Tree(msgs) /\ msgs \in Seq(Msgs) /\ Len(msgs) \in Nat /\ Known = 1..Len(msgs)
    BY StoredFacts, LenProperties DEF Inv, Stored, Tree
  <2>2. PICK p : p = active.path
    OBVIOUS
  <2>3. PICK u : u = active.upto
    OBVIOUS
  <2>4. u \in Nat /\ ToolsFollow(msgs) /\ \E n \in 0..Len(msgs) : p = PathTo(msgs, n)
    <3>1. active # Nil /\ active.pc = "ready"
      BY DEF At
    <3>2. active.upto \in 0..Len(msgs)
      BY <3>1, ActiveFacts
    <3> QED BY <2>2, <2>3, <3>1, <3>2 DEF Follows, RunFollows
  <2>5. Line(msgs, p)
    BY <2>1, <2>4, PathIsLine
  <2>6. DOMAIN p = 1..Len(p)
    BY <2>5, LenProperties DEF Line
  <2>7. PICK q : q = Prompt(p, u)
    OBVIOUS
  <2>8. PICK n \in 1..Len(q) : q[n] = Found(msgs[r].answers)
    <3>1. Among(p, x) /\ Among(p, r) /\ u < x /\ NoneCalls(msgs, x)
      BY <2>1, <2>2, <2>3, <2>6 DEF Among, NoneCalls
    <3>2. msgs \in Seq(Msgs) /\ ToolsFollow(msgs) /\ Line(msgs, p) /\ u \in Nat
      BY <2>1, <2>4, <2>5
    <3>3. x < r /\ msgs[r].answers \in msgs[x].calls
      OBVIOUS
    <3>4. \E n \in 1..Len(Prompt(p, u)) : Prompt(p, u)[n] = Found(msgs[r].answers)
      BY ONLY <3>1, <3>2, <3>3, PromptShows
    <3> QED BY <2>7, <3>4
  <2>9. q \in Seq(Shown)
    <3>1. p \in Seq(1..Len(msgs))
      BY <2>5 DEF Line
    <3> QED BY <2>1, <2>7, <3>1, PromptPaired
  <2>10. n \in DOMAIN q
    BY <2>8, <2>9, LenProperties
  <2>11. q[n].role = "tool" /\ q[n].answers = msgs[r].answers /\ q[n].real = TRUE
    BY <2>8 DEF Found, Result
  <2> QED BY <2>2, <2>3, <2>7, <2>10, <2>11 DEF Tool
<1> QED BY <1>1, InvAlways, FollowsAlways, PTL
=============================================================================
