---------------------------- MODULE StreamProofs ----------------------------
(***************************************************************************)
(* Proofs about the stream of a chat: what a subscription to it gets, and  *)
(* what a console tab that follows it through its socket shows.            *)
(***************************************************************************)
EXTENDS ConsoleFeed, SequenceTheorems, FiniteSetTheorems, WellFoundedInduction, TLAPS

-----------------------------------------------------------------------------
(* Least and greatest elements, and folds.                                 *)

LEMMA Least ==
    ASSUME NEW T, T \subseteq Nat, T # {}
    PROVE  \E x \in T : \A y \in T : x <= y
<1> DEFINE Less == {q \in Nat \X Nat : q[1] < q[2]}
<1>1. IsWellFoundedOn(Less, Nat)
  BY NatLessThanWellFounded DEF OpToRel
<1>2. PICK x \in T : \A y \in T : ~ (<<y, x>> \in Less)
  BY <1>1, WFMin
<1>3. ASSUME NEW y \in T PROVE x <= y
  <2>1. <<y, x>> \in Nat \X Nat
    OBVIOUS
  <2>2. ~ (y < x)
    BY <1>2, <2>1
  <2> QED BY <2>2
<1> QED BY <1>3

\* The greatest of some numbers up to n.
LEMMA Greatest ==
    ASSUME NEW n \in Nat, NEW T, T \subseteq 1..n, T # {}
    PROVE  Max(T) \in T /\ \A y \in T : y <= Max(T)
<1> DEFINE D == {n - y : y \in T}
<1>1. D \subseteq Nat /\ D # {}
  <2>1. \A y \in T : y \in 1..n /\ n - y \in Nat
    OBVIOUS
  <2> QED BY <2>1
<1>2. PICK d \in D : \A e \in D : d <= e
  BY <1>1, Least
<1>3. PICK x \in T : d = n - x
  OBVIOUS
<1>4. \A y \in T : x >= y
  <2> SUFFICES ASSUME NEW y \in T PROVE x >= y
    OBVIOUS
  <2>1. n - y \in D
    OBVIOUS
  <2>2. n - x <= n - y
    BY <1>2, <1>3, <2>1
  <2> QED BY <2>2
<1>5. Max(T) \in T /\ \A y \in T : Max(T) >= y
  BY <1>4 DEF Max
<1> QED BY <1>5

\* What FoldLeft is made of: step[<<a, k>>] is what becomes of a at the k-th
\* element, and f tells what becomes of base at a set of elements.
IsFold(f, A, base, step, n) ==
    /\ f \in [SUBSET (1..n) -> A]
    /\ f = [t \in SUBSET (1..n) |->
              IF t = {} THEN base ELSE step[<<f[t \ {Max(t)}], Max(t)>>]]

\* It exists, whatever is folded.
LEMMA FoldExists ==
    ASSUME NEW A, NEW base \in A, NEW n \in Nat, NEW step \in [A \X Nat -> A]
    PROVE  \E f : IsFold(f, A, base, step, n)
<1> DEFINE Folds(f, k) == IsFold(f, A, base, step, k)
           T == {k \in Nat : ~ \E f : Folds(f, k)}
<1>1. SUFFICES T = {}
  <2> SUFFICES ASSUME T = {} PROVE \E f : Folds(f, n)
    OBVIOUS
  <2> QED OBVIOUS
<1>2. SUFFICES ASSUME T # {} PROVE FALSE
  OBVIOUS
<1>3. PICK k \in T : \A j \in T : k <= j
  BY <1>2, Least
<1>4. k # 0
  <2> SUFFICES ASSUME k = 0 PROVE FALSE
    OBVIOUS
  <2> DEFINE f == [t \in SUBSET (1..0) |-> base]
  <2>1. SUBSET (1..0) = {{}}
    OBVIOUS
  <2>2. Folds(f, 0)
    BY <2>1 DEF IsFold
  <2> QED BY <1>3, <2>2
<1>5. k - 1 \in Nat /\ ~(k <= k - 1)
  BY <1>3, <1>4
<1>6. k - 1 \notin T
  BY <1>3, <1>5
<1>7. PICK f : Folds(f, k - 1)
  BY <1>5, <1>6
<1>f. /\ f \in [SUBSET (1..k - 1) -> A]
      /\ f = [t \in SUBSET (1..k - 1) |->
                IF t = {} THEN base ELSE step[<<f[t \ {Max(t)}], Max(t)>>]]
  BY <1>7 DEF IsFold
<1> DEFINE g == [t \in SUBSET (1..k) |->
                   IF t \subseteq 1..k - 1 THEN f[t] ELSE step[<<f[t \ {k}], k>>]]
<1>8. \A t \in SUBSET (1..k) : t \ {k} \in SUBSET (1..k - 1)
  BY <1>3, <1>5
<1>9. g \in [SUBSET (1..k) -> A]
  <2> SUFFICES ASSUME NEW t \in SUBSET (1..k) PROVE g[t] \in A
    OBVIOUS
  <2>1. CASE t \subseteq 1..k - 1
    BY <1>f, <2>1
  <2>2. CASE ~(t \subseteq 1..k - 1)
    <3>1. f[t \ {k}] \in A
      BY <1>f, <1>8
    <3>2. <<f[t \ {k}], k>> \in A \X Nat
      BY <1>3, <3>1
    <3> QED BY <2>2, <3>2
  <2> QED BY <2>1, <2>2
<1>10. g = [t \in SUBSET (1..k) |->
              IF t = {} THEN base ELSE step[<<g[t \ {Max(t)}], Max(t)>>]]
  <2> SUFFICES ASSUME NEW t \in SUBSET (1..k)
               PROVE  g[t] = IF t = {} THEN base ELSE step[<<g[t \ {Max(t)}], Max(t)>>]
    OBVIOUS
  <2>1. CASE t = {}
    <3>1. g[t] = f[t] /\ {} \in SUBSET (1..k - 1)
      BY <2>1
    <3> QED BY <1>f, <2>1, <3>1
  <2>2. CASE t # {} /\ t \subseteq 1..k - 1
    <3>1. Max(t) \in t
      BY <1>5, <2>2, Greatest
    <3>2. /\ t \in SUBSET (1..k - 1) /\ t \ {Max(t)} \subseteq 1..k - 1
          /\ t \ {Max(t)} \in SUBSET (1..k)
      BY <2>2
    <3>3. g[t] = f[t] /\ g[t \ {Max(t)}] = f[t \ {Max(t)}]
      BY <2>2, <3>2
    <3>4. f[t] = step[<<f[t \ {Max(t)}], Max(t)>>]
      BY <1>f, <2>2, <3>2
    <3> QED BY <2>2, <3>3, <3>4
  <2>3. CASE ~(t \subseteq 1..k - 1)
    <3>1. k \in t /\ t # {}
      BY <1>3, <1>5, <2>3
    <3>2. Max(t) \in t /\ k <= Max(t)
      BY <1>3, <3>1, Greatest
    <3>3. Max(t) = k
      <4>1. k \in Nat /\ Max(t) \in 1..k
        BY <1>3, <3>2
      <4> QED BY <3>2, <4>1
    <3>4. t \ {k} \in SUBSET (1..k) /\ t \ {k} \subseteq 1..k - 1
      BY <1>8
    <3>5. g[t \ {k}] = f[t \ {k}]
      BY <3>4
    <3> QED BY <2>3, <3>1, <3>3, <3>5
  <2> QED BY <2>1, <2>2, <2>3
<1>11. Folds(g, k)
  BY <1>9, <1>10 DEF IsFold
<1> QED
  <2> HIDE DEF g
  <2>1. \E h : Folds(h, k)
    BY <1>11
  <2>2. k \in Nat /\ ~ \E h : Folds(h, k)
    BY <1>3
  <2> QED BY <2>1, <2>2

\* The prefixes of what is folded: each adds one element, its greatest.
LEMMA PrefixStep ==
    ASSUME NEW n \in Nat, NEW k \in 1..n
    PROVE  /\ 1..k \in SUBSET (1..n) /\ 1..k # {}
           /\ Max(1..k) = k /\ (1..k) \ {k} = 1..k - 1
<1>1. 1..k \subseteq 1..n /\ k \in 1..k
  OBVIOUS
<1>2. Max(1..k) \in 1..k /\ k <= Max(1..k)
  BY <1>1, Greatest
<1>3. Max(1..k) = k
  BY <1>2
<1>4. (1..k) \ {k} = 1..k - 1
  <2>1. \A x : x \in (1..k) \ {k} <=> x \in 1..k - 1
    OBVIOUS
  <2> QED BY <2>1
<1> QED BY <1>1, <1>3, <1>4

-----------------------------------------------------------------------------
(* The folds of ChatStream, one element after the other.                   *)

\* NewerThan goes through a ring and takes the frames above a number.
LEMMA NewerThanSteps ==
    ASSUME NEW q \in Seq(Frames), NEW seq
    PROVE  \E g : /\ g[0] = <<>>
                  /\ \A k \in 1..Len(q) :
                        g[k] = IF q[k].seq > seq THEN Append(g[k - 1], q[k]) ELSE g[k - 1]
                  /\ NewerThan(q, seq) = g[Len(q)]
<1> DEFINE n == Len(q)
           Takes(p, x) == IF x.seq > seq THEN Append(p, x) ELSE p
           step == [a \in Seq(Frames) \X Nat |->
                      IF a[2] \in 1..n THEN Takes(a[1], q[a[2]]) ELSE <<>>]
           Folded(f) == f = [t \in SUBSET (1..n) |->
                               IF t = {} THEN <<>> ELSE Takes(f[t \ {Max(t)}], q[Max(t)])]
<1>1. n \in Nat /\ DOMAIN q = 1..n /\ <<>> \in Seq(Frames)
  BY LenProperties, EmptySeq
<1>2. step \in [Seq(Frames) \X Nat -> Seq(Frames)]
  <2> SUFFICES ASSUME NEW p \in Seq(Frames), NEW k \in Nat PROVE step[<<p, k>>] \in Seq(Frames)
    OBVIOUS
  <2>1. CASE k \in 1..n
    <3>1. q[k] \in Frames
      BY <2>1, ElementOfSeq
    <3>2. Append(p, q[k]) \in Seq(Frames)
      BY <3>1, AppendProperties
    <3> QED BY <2>1, <3>2
  <2>2. CASE k \notin 1..n
    BY <1>1, <2>2
  <2> QED BY <2>1, <2>2
<1>3. \E f : Folded(f)
  <2> HIDE DEF n
  <2>1. PICK f : IsFold(f, Seq(Frames), <<>>, step, n)
    BY <1>1, <1>2, FoldExists
  <2>2. ASSUME NEW t \in SUBSET (1..n), t # {}
        PROVE  step[<<f[t \ {Max(t)}], Max(t)>>] = Takes(f[t \ {Max(t)}], q[Max(t)])
    <3>1. Max(t) \in 1..n
      BY <1>1, <2>2, Greatest
    <3>2. f[t \ {Max(t)}] \in Seq(Frames)
      BY <2>1 DEF IsFold
    <3>3. <<f[t \ {Max(t)}], Max(t)>> \in Seq(Frames) \X Nat
      BY <1>1, <3>1, <3>2
    <3> HIDE DEF Takes
    <3> QED BY <3>1, <3>3
  <2> HIDE DEF Takes, step
  <2>3. \A t \in SUBSET (1..n) :
           (IF t = {} THEN <<>> ELSE step[<<f[t \ {Max(t)}], Max(t)>>]) =
           (IF t = {} THEN <<>> ELSE Takes(f[t \ {Max(t)}], q[Max(t)]))
    BY <2>2
  <2>4. Folded(f)
    BY <2>1, <2>3 DEF IsFold
  <2> HIDE DEF Folded
  <2> QED BY <2>4
<1>4. PICK f : /\ Folded(f) /\ NewerThan(q, seq) = f[1..n]
  <2>1. NewerThan(q, seq) = (CHOOSE h : Folded(h))[1..n]
    BY <1>1 DEF NewerThan, FoldLeft, MapThenFoldSet
  <2> HIDE DEF Folded
  <2>2. Folded(CHOOSE h : Folded(h))
    BY <1>3
  <2> QED BY <2>1, <2>2
<1> DEFINE g == [k \in 0..n |-> f[1..k]]
<1>5. g[0] = <<>>
  <2>1. 1..0 = {} /\ 0 \in 0..n /\ {} \in SUBSET (1..n)
    BY <1>1
  <2>2. f[{}] = <<>>
    BY <1>4, <2>1
  <2> QED BY <2>1, <2>2
<1>6. ASSUME NEW k \in 1..n PROVE g[k] = Takes(g[k - 1], q[k])
  <2>1. /\ 1..k \in SUBSET (1..n) /\ 1..k # {} /\ Max(1..k) = k /\ (1..k) \ {k} = 1..k - 1
    BY <1>1, PrefixStep
  <2>2. f[1..k] = Takes(f[1..k - 1], q[k])
    <3> HIDE DEF Takes
    <3> QED BY <1>4, <2>1
  <2>3. k \in 0..n /\ k - 1 \in 0..n
    BY <1>1
  <2> HIDE DEF Takes
  <2> QED BY <2>2, <2>3
<1>7. NewerThan(q, seq) = g[n]
  BY <1>1, <1>4
<1> HIDE DEF g
<1> QED BY <1>5, <1>6, <1>7

\* InOrder goes through the runs of the chat and takes the piece of each.
LEMMA InOrderSteps ==
    ASSUME runOrder \in Seq(Runs), NEW piece \in [Runs -> Seq(Frames)]
    PROVE  \E g : /\ g[0] = <<>>
                  /\ \A k \in 1..Len(runOrder) : g[k] = g[k - 1] \o piece[runOrder[k]]
                  /\ InOrder(piece) = g[Len(runOrder)]
<1> DEFINE n == Len(runOrder)
           Takes(p, x) == p \o piece[x]
           step == [a \in Seq(Frames) \X Nat |->
                      IF a[2] \in 1..n THEN Takes(a[1], runOrder[a[2]]) ELSE <<>>]
           Folded(f) == f = [t \in SUBSET (1..n) |->
                               IF t = {} THEN <<>> ELSE Takes(f[t \ {Max(t)}], runOrder[Max(t)])]
<1>1. n \in Nat /\ DOMAIN runOrder = 1..n /\ <<>> \in Seq(Frames)
  BY LenProperties, EmptySeq
<1>2. step \in [Seq(Frames) \X Nat -> Seq(Frames)]
  <2> SUFFICES ASSUME NEW p \in Seq(Frames), NEW k \in Nat PROVE step[<<p, k>>] \in Seq(Frames)
    OBVIOUS
  <2>1. CASE k \in 1..n
    <3>1. runOrder[k] \in Runs
      BY <2>1, ElementOfSeq
    <3>2. p \o piece[runOrder[k]] \in Seq(Frames)
      BY <3>1, ConcatProperties
    <3> QED BY <2>1, <3>2
  <2>2. CASE k \notin 1..n
    BY <1>1, <2>2
  <2> QED BY <2>1, <2>2
<1>3. \E f : Folded(f)
  <2> HIDE DEF n
  <2>1. PICK f : IsFold(f, Seq(Frames), <<>>, step, n)
    BY <1>1, <1>2, FoldExists
  <2>2. ASSUME NEW t \in SUBSET (1..n), t # {}
        PROVE  step[<<f[t \ {Max(t)}], Max(t)>>] = Takes(f[t \ {Max(t)}], runOrder[Max(t)])
    <3>1. Max(t) \in 1..n
      BY <1>1, <2>2, Greatest
    <3>2. f[t \ {Max(t)}] \in Seq(Frames)
      BY <2>1 DEF IsFold
    <3>3. <<f[t \ {Max(t)}], Max(t)>> \in Seq(Frames) \X Nat
      BY <1>1, <3>1, <3>2
    <3> HIDE DEF Takes
    <3> QED BY <3>1, <3>3
  <2> HIDE DEF Takes, step
  <2>3. \A t \in SUBSET (1..n) :
           (IF t = {} THEN <<>> ELSE step[<<f[t \ {Max(t)}], Max(t)>>]) =
           (IF t = {} THEN <<>> ELSE Takes(f[t \ {Max(t)}], runOrder[Max(t)]))
    BY <2>2
  <2>4. Folded(f)
    BY <2>1, <2>3 DEF IsFold
  <2> HIDE DEF Folded
  <2> QED BY <2>4
<1>4. PICK f : /\ Folded(f) /\ InOrder(piece) = f[1..n]
  <2>1. InOrder(piece) = (CHOOSE h : Folded(h))[1..n]
    BY <1>1 DEF InOrder, FoldLeft, MapThenFoldSet
  <2> HIDE DEF Folded
  <2>2. Folded(CHOOSE h : Folded(h))
    BY <1>3
  <2> QED BY <2>1, <2>2
<1> DEFINE g == [k \in 0..n |-> f[1..k]]
<1>5. g[0] = <<>>
  <2>1. 1..0 = {} /\ 0 \in 0..n /\ {} \in SUBSET (1..n)
    BY <1>1
  <2>2. f[{}] = <<>>
    BY <1>4, <2>1
  <2> QED BY <2>1, <2>2
<1>6. ASSUME NEW k \in 1..n PROVE g[k] = Takes(g[k - 1], runOrder[k])
  <2>1. /\ 1..k \in SUBSET (1..n) /\ 1..k # {} /\ Max(1..k) = k /\ (1..k) \ {k} = 1..k - 1
    BY <1>1, PrefixStep
  <2>2. f[1..k] = Takes(f[1..k - 1], runOrder[k])
    <3> HIDE DEF Takes
    <3> QED BY <1>4, <2>1
  <2>3. k \in 0..n /\ k - 1 \in 0..n
    BY <1>1
  <2> HIDE DEF Takes
  <2> QED BY <2>2, <2>3
<1>7. InOrder(piece) = g[n]
  BY <1>1, <1>4
<1> HIDE DEF g
<1> QED BY <1>5, <1>6, <1>7

\* What a subscription is, and stays whatever it is offered.
SubStates == [queue : Seq(Frames \cup Overflows), closed : BOOLEAN, attached : BOOLEAN,
              used : BOOLEAN]

LEMMA OverflowType ==
    ASSUME NEW u \in SubStates, NEW why \in {"slow_consumer", "evicted", "unknown_run"}
    PROVE  /\ Overflow(u, why) \in SubStates
           /\ Overflow(u, why).closed /\ Overflow(u, why).attached = u.attached
           /\ Overflow(u, why).used = u.used
           /\ Overflow(u, why).queue = <<[overflow |-> why]>>
<1>1. [overflow |-> why] \in Frames \cup Overflows
  BY DEF Overflows
<1>2. <<[overflow |-> why]>> \in Seq(Frames \cup Overflows)
  BY <1>1
<1> QED BY <1>2 DEF Overflow, SubStates

LEMMA OfferType ==
    ASSUME NEW u \in SubStates, NEW f \in Frames
    PROVE  /\ Offer(u, f) \in SubStates
           /\ Offer(u, f).attached = u.attached /\ Offer(u, f).used = u.used
<1>1. CASE u.closed
  BY <1>1 DEF Offer
<1>2. CASE ~u.closed /\ Bytes(u.queue) + f.size > Budget
  <2>1. Offer(u, f) = Overflow(u, "slow_consumer")
    BY <1>2 DEF Offer
  <2> QED BY <2>1, OverflowType
<1>3. CASE ~u.closed /\ ~(Bytes(u.queue) + f.size > Budget)
  <2>1. Offer(u, f) = [u EXCEPT !.queue = Append(u.queue, f)]
    BY <1>3 DEF Offer
  <2>2. Append(u.queue, f) \in Seq(Frames \cup Overflows)
    BY AppendProperties DEF SubStates
  <2> QED BY <2>1, <2>2 DEF SubStates
<1> QED BY <1>1, <1>2, <1>3

\* OfferAll offers one frame after the other.
LEMMA OfferAllSteps ==
    ASSUME NEW q \in Seq(Frames), NEW u \in SubStates
    PROVE  \E g : /\ g[0] = u
                  /\ \A k \in 1..Len(q) : g[k] = Offer(g[k - 1], q[k])
                  /\ OfferAll(u, q) = g[Len(q)]
<1> DEFINE n == Len(q)
           Takes(p, x) == Offer(p, x)
           step == [a \in SubStates \X Nat |->
                      IF a[2] \in 1..n THEN Takes(a[1], q[a[2]]) ELSE u]
           Folded(f) == f = [t \in SUBSET (1..n) |->
                               IF t = {} THEN u ELSE Takes(f[t \ {Max(t)}], q[Max(t)])]
<1>1. n \in Nat /\ DOMAIN q = 1..n /\ u \in SubStates
  BY LenProperties
<1>2. step \in [SubStates \X Nat -> SubStates]
  <2> SUFFICES ASSUME NEW p \in SubStates, NEW k \in Nat PROVE step[<<p, k>>] \in SubStates
    OBVIOUS
  <2>1. CASE k \in 1..n
    <3>1. q[k] \in Frames
      BY <2>1, ElementOfSeq
    <3>2. Offer(p, q[k]) \in SubStates
      BY <3>1, OfferType
    <3> QED BY <2>1, <3>2
  <2>2. CASE k \notin 1..n
    BY <1>1, <2>2
  <2> QED BY <2>1, <2>2
<1>3. \E f : Folded(f)
  <2> HIDE DEF n
  <2>1. PICK f : IsFold(f, SubStates, u, step, n)
    BY <1>1, <1>2, FoldExists
  <2>2. ASSUME NEW t \in SUBSET (1..n), t # {}
        PROVE  step[<<f[t \ {Max(t)}], Max(t)>>] = Takes(f[t \ {Max(t)}], q[Max(t)])
    <3>1. Max(t) \in 1..n
      BY <1>1, <2>2, Greatest
    <3>2. f[t \ {Max(t)}] \in SubStates
      BY <2>1 DEF IsFold
    <3>3. <<f[t \ {Max(t)}], Max(t)>> \in SubStates \X Nat
      BY <1>1, <3>1, <3>2
    <3> HIDE DEF Takes
    <3> QED BY <3>1, <3>3
  <2> HIDE DEF Takes, step
  <2>3. \A t \in SUBSET (1..n) :
           (IF t = {} THEN u ELSE step[<<f[t \ {Max(t)}], Max(t)>>]) =
           (IF t = {} THEN u ELSE Takes(f[t \ {Max(t)}], q[Max(t)]))
    BY <2>2
  <2>4. Folded(f)
    BY <2>1, <2>3 DEF IsFold
  <2> HIDE DEF Folded
  <2> QED BY <2>4
<1>4. PICK f : /\ Folded(f) /\ OfferAll(u, q) = f[1..n]
  <2>1. OfferAll(u, q) = (CHOOSE h : Folded(h))[1..n]
    BY <1>1 DEF OfferAll, FoldLeft, MapThenFoldSet
  <2> HIDE DEF Folded
  <2>2. Folded(CHOOSE h : Folded(h))
    BY <1>3
  <2> QED BY <2>1, <2>2
<1> DEFINE g == [k \in 0..n |-> f[1..k]]
<1>5. g[0] = u
  <2>1. 1..0 = {} /\ 0 \in 0..n /\ {} \in SUBSET (1..n)
    BY <1>1
  <2>2. f[{}] = u
    BY <1>4, <2>1
  <2> QED BY <2>1, <2>2
<1>6. ASSUME NEW k \in 1..n PROVE g[k] = Takes(g[k - 1], q[k])
  <2>1. /\ 1..k \in SUBSET (1..n) /\ 1..k # {} /\ Max(1..k) = k /\ (1..k) \ {k} = 1..k - 1
    BY <1>1, PrefixStep
  <2>2. f[1..k] = Takes(f[1..k - 1], q[k])
    <3> HIDE DEF Takes
    <3> QED BY <1>4, <2>1
  <2>3. k \in 0..n /\ k - 1 \in 0..n
    BY <1>1
  <2> HIDE DEF Takes
  <2> QED BY <2>2, <2>3
<1>7. OfferAll(u, q) = g[n]
  BY <1>1, <1>4
<1> HIDE DEF g
<1> QED BY <1>5, <1>6, <1>7

-----------------------------------------------------------------------------
(* Stretches of a sequence: the elements from p + 1 to e.                  *)

Cut(l, p, e) == SubSeq(l, p + 1, e)

LEMMA CutProperties ==
    ASSUME NEW S, NEW l \in Seq(S), NEW e \in 0..Len(l), NEW p \in 0..e
    PROVE  /\ Cut(l, p, e) \in Seq(S) /\ Len(Cut(l, p, e)) = e - p
           /\ \A k \in 1..e - p : Cut(l, p, e)[k] = l[p + k]
<1>1. Len(l) \in Nat
  BY LenProperties
<1>2. \A i \in p + 1..e : l[i] \in S
  BY <1>1, ElementOfSeq
<1>3. /\ SubSeq(l, p + 1, e) \in Seq(S)
      /\ Len(SubSeq(l, p + 1, e)) = IF p + 1 <= e THEN e - (p + 1) + 1 ELSE 0
      /\ \A i \in 1..e - (p + 1) + 1 : SubSeq(l, p + 1, e)[i] = l[p + 1 + i - 1]
  BY <1>1, <1>2, SubSeqProperties
<1>4. (IF p + 1 <= e THEN e - (p + 1) + 1 ELSE 0) = e - p
  BY <1>1
<1>5. e - (p + 1) + 1 = e - p /\ \A i \in 1..e - p : p + 1 + i - 1 = p + i
  BY <1>1
<1> QED BY <1>3, <1>4, <1>5 DEF Cut

\* A sequence is a stretch when it has the length and the elements of one.
LEMMA CutIs ==
    ASSUME NEW S, NEW l \in Seq(S), NEW e \in 0..Len(l), NEW p \in 0..e, NEW q \in Seq(S),
           Len(q) = e - p, \A k \in 1..e - p : q[k] = l[p + k]
    PROVE  q = Cut(l, p, e)
<1>1. /\ Cut(l, p, e) \in Seq(S) /\ Len(Cut(l, p, e)) = e - p
      /\ \A k \in 1..e - p : Cut(l, p, e)[k] = l[p + k]
  BY CutProperties
<1> QED BY <1>1, SeqEqual

\* Two adjacent stretches are one.
LEMMA CutJoin ==
    ASSUME NEW S, NEW l \in Seq(S), NEW e \in 0..Len(l), NEW m \in 0..e, NEW p \in 0..m
    PROVE  Cut(l, p, m) \o Cut(l, m, e) = Cut(l, p, e)
<1>1. Len(l) \in Nat
  BY LenProperties
<1>2. p + 1 \in 1..Len(l) + 1 /\ m \in p + 1 - 1..Len(l) /\ e \in m..Len(l)
  BY <1>1
<1> QED BY <1>2, ConcatAdjacentSubSeq DEF Cut

\* A stretch up to e with the element behind it is the stretch up to e + 1.
LEMMA CutExtend ==
    ASSUME NEW S, NEW l \in Seq(S), NEW e \in 0..Len(l), e # Len(l), NEW p \in 0..e
    PROVE  Append(Cut(l, p, e), l[e + 1]) = Cut(l, p, e + 1)
<1>1. Len(l) \in Nat
  BY LenProperties
<1>2. /\ e + 1 \in 0..Len(l) /\ p \in 0..e + 1 /\ e + 1 \in 1..Len(l) /\ e - p \in Nat
      /\ e + 1 - p = e - p + 1 /\ p + (e - p + 1) = e + 1
  BY <1>1
<1>3. l[e + 1] \in S
  BY <1>2, ElementOfSeq
<1>4. /\ Cut(l, p, e) \in Seq(S) /\ Len(Cut(l, p, e)) = e - p
      /\ \A k \in 1..e - p : Cut(l, p, e)[k] = l[p + k]
  BY CutProperties
<1> DEFINE q == Append(Cut(l, p, e), l[e + 1])
<1>5. /\ q \in Seq(S) /\ Len(q) = e - p + 1 /\ q[e - p + 1] = l[e + 1]
      /\ \A k \in 1..e - p : q[k] = Cut(l, p, e)[k]
  BY <1>3, <1>4, AppendProperties
<1> HIDE DEF q
<1>6. ASSUME NEW k \in 1..e + 1 - p PROVE q[k] = l[p + k]
  <2>1. CASE k = e - p + 1
    BY <1>2, <1>5, <2>1
  <2>2. CASE k # e - p + 1
    <3>1. k \in 1..e - p
      BY <1>2, <2>2
    <3> QED BY <1>4, <1>5, <3>1
  <2> QED BY <2>1, <2>2
<1>7. q = Cut(l, p, e + 1)
  BY <1>2, <1>5, <1>6, CutIs
<1> QED BY <1>7 DEF q

\* What is left of a stretch without its first k elements.
LEMMA CutOfCut ==
    ASSUME NEW S, NEW l \in Seq(S), NEW e \in 0..Len(l), NEW p \in 0..e, NEW k \in 0..e - p
    PROVE  SubSeq(Cut(l, p, e), k + 1, e - p) = Cut(l, p + k, e)
<1>1. Len(l) \in Nat
  BY LenProperties
<1>2. PICK c : c = Cut(l, p, e)
  OBVIOUS
<1>3. c \in Seq(S) /\ Len(c) = e - p /\ \A i \in 1..e - p : c[i] = l[p + i]
  BY <1>2, CutProperties
<1>4. e - p \in 0..Len(c) /\ k \in 0..e - p /\ p + k \in 0..e
  BY <1>1, <1>3
<1>5. /\ Cut(c, k, e - p) \in Seq(S) /\ Len(Cut(c, k, e - p)) = e - p - k
      /\ \A i \in 1..e - p - k : Cut(c, k, e - p)[i] = c[k + i]
  BY <1>3, <1>4, CutProperties, ZenonT(60)
<1>6. e - p - k = e - (p + k)
  BY <1>1
<1>7. ASSUME NEW i \in 1..e - (p + k) PROVE Cut(c, k, e - p)[i] = l[p + k + i]
  <2>1. i \in 1..e - p - k /\ k + i \in 1..e - p /\ p + (k + i) = p + k + i
    BY <1>1, <1>4
  <2> QED BY <1>3, <1>5, <2>1
<1>8. Cut(c, k, e - p) = Cut(l, p + k, e)
  <2>1. PICK q : q = Cut(c, k, e - p)
    OBVIOUS
  <2>2. PICK b : b = p + k
    OBVIOUS
  <2>3. q \in Seq(S) /\ b \in 0..e /\ Len(q) = e - b
    BY <1>4, <1>5, <1>6, <2>1, <2>2
  <2>4. \A i \in 1..e - b : q[i] = l[b + i]
    BY <1>7, <2>1, <2>2
  <2>5. q = Cut(l, b, e)
    BY ONLY <2>3, <2>4, CutIs
  <2> QED BY <2>1, <2>2, <2>5
<1> QED BY <1>2, <1>8 DEF Cut

\* A stretch is what it was when the sequence grows.
LEMMA CutGrows ==
    ASSUME NEW S, NEW l \in Seq(S), NEW f \in S, NEW e \in 0..Len(l), NEW p \in 0..e
    PROVE  Cut(Append(l, f), p, e) = Cut(l, p, e)
<1>1. Len(l) \in Nat
  BY LenProperties
<1>2. PICK h : h = Append(l, f)
  OBVIOUS
<1>3. h \in Seq(S) /\ Len(h) = Len(l) + 1 /\ \A i \in 1..Len(l) : h[i] = l[i]
  BY <1>2, AppendProperties
<1>4. /\ Cut(l, p, e) \in Seq(S) /\ Len(Cut(l, p, e)) = e - p
      /\ \A k \in 1..e - p : Cut(l, p, e)[k] = l[p + k]
  BY CutProperties
<1>5. e \in 0..Len(h)
  BY <1>1, <1>3
<1>6. ASSUME NEW k \in 1..e - p PROVE Cut(l, p, e)[k] = h[p + k]
  <2>1. p + k \in 1..Len(l)
    BY <1>1
  <2> QED BY <1>3, <1>4, <2>1
<1>7. Cut(l, p, e) = Cut(h, p, e)
  BY <1>3, <1>4, <1>5, <1>6, CutIs
<1> QED BY <1>2, <1>7

\* The eviction loop leaves an end of the ring, never nothing.
LEMMA TrimmedIsCut ==
    ASSUME NEW q \in Seq(Frames), q # <<>>
    PROVE  \E k \in 0..Len(q) - 1 : Trimmed(q) = Cut(q, k, Len(q))
<1>1. Len(q) \in Nat /\ Len(q) # 0
  BY LenProperties, EmptySeq
<1> DEFINE Fits(k) == \/ Len(q) - k = 1
                      \/ /\ Len(q) - k <= RingFrames
                         /\ Bytes(SubSeq(q, k + 1, Len(q))) <= RingBytes
           T == {k \in 0..Len(q) - 1 : Fits(k)}
<1>2. Len(q) - 1 \in T
  BY <1>1
<1>3. T \subseteq Nat /\ T # {}
  BY <1>1, <1>2
<1>4. PICK x \in T : \A y \in T : x <= y
  BY <1>3, Least
<1>5. x \in 0..Len(q) - 1 /\ Fits(x)
  BY <1>4
<1> HIDE DEF Fits
<1>6. \A j \in 0..x - 1 : ~Fits(j)
  <2> SUFFICES ASSUME NEW j \in 0..x - 1, Fits(j) PROVE FALSE
    OBVIOUS
  <2>1. j \in 0..Len(q) - 1 /\ ~(x <= j)
    BY <1>1, <1>5
  <2>2. j \in T
    BY <2>1
  <2> QED BY <1>4, <2>1, <2>2
<1> DEFINE gone == CHOOSE k \in 0..Len(q) - 1 : Fits(k) /\ \A j \in 0..k - 1 : ~Fits(j)
<1>7. gone \in 0..Len(q) - 1
  BY <1>5, <1>6
<1>8. Trimmed(q) = SubSeq(q, gone + 1, Len(q))
  BY DEF Trimmed, Fits
<1> HIDE DEF gone
<1> QED BY <1>7, <1>8 DEF Cut

-----------------------------------------------------------------------------
(* The inductive invariant of the stream.                                  *)

\* What was published: every run's frames are together, numbered from 1.
LogOk ==
    /\ \A i \in 1..Len(log) :
          /\ log[i].seq \in 1..i
          /\ \A q \in 1..log[i].seq : /\ log[i - log[i].seq + q].run = log[i].run
                                      /\ log[i - log[i].seq + q].seq = q
    /\ \A i, j \in 1..Len(log) :
          log[i].run = log[j].run /\ log[i].seq = log[j].seq => i = j

\* Only the last run of the chat is in flight, and one that did not begin has
\* published nothing.
OrderOk ==
    /\ \A r \in Runs : phase[r] = "live" => runOrder[Len(runOrder)] = r
    /\ \A r \in Runs : phase[r] = "new" =>
          ring[r] = <<>> /\ \A i \in 1..Len(log) : log[i].run # r

\* The runs of the chat are laid one behind the other in what was published,
\* the last one at the end: e[r] is where run r ends, and its ring is the end
\* of it.
Laid(e) ==
    /\ e \in [Runs -> Nat]
    /\ \A j \in 1..Len(runOrder) :
          LET r == runOrder[j] IN
          /\ e[r] \in 1..Len(log) /\ log[e[r]].run = r
          /\ Len(ring[r]) \in 1..log[e[r]].seq
          /\ ring[r] = Cut(log, e[r] - Len(ring[r]), e[r])
          /\ e[r] = IF j = Len(runOrder) THEN Len(log)
                      ELSE e[runOrder[j + 1]] - log[e[runOrder[j + 1]]].seq

\* What a subscription has queued is a stretch of what was published, behind
\* what its reader has, up to the end while it is open; or the notice alone.
QueueOk(u, a, l) ==
    /\ a <= Len(l)
    /\ ~u.attached /\ ~u.closed => u.queue = <<>>
    /\ \/ /\ a + Len(u.queue) <= Len(l)
          /\ u.queue = Cut(l, a, a + Len(u.queue))
          /\ u.attached /\ ~u.closed => a + Len(u.queue) = Len(l)
       \/ u.closed /\ Len(u.queue) = 1 /\ u.queue[1] \in Overflows

SubOk(s) == QueueOk(sub[s], at[s], log)

StreamInv == TypeOK /\ LogOk /\ OrderOk /\ (\E e : Laid(e)) /\ \A s \in Subs : SubOk(s)

LEMMA FrameOrNotice == Frames \cap Overflows = {} /\ Hello \notin Frames \cup Overflows
<1>1. \A f \in Frames : DOMAIN f = {"run", "seq", "size"}
  BY DEF Frames
<1>2. \A f \in Overflows : DOMAIN f = {"overflow"}
  BY DEF Overflows
<1>3. DOMAIN Hello = {"hello"}
  BY DEF Hello
<1> QED BY <1>1, <1>2, <1>3

LEMMA FrameFields == \A f \in Frames : f.run \in Runs /\ f.seq \in Nat
BY DEF Frames

\* The runs in the order of the chat are those in flight or in their grace.
LEMMA InOrderOf ==
    ASSUME TypeOK
    PROVE  /\ Len(runOrder) \in Nat
           /\ \A j \in 1..Len(runOrder) : runOrder[j] \in Runs /\ phase[runOrder[j]] \in {"live", "ended"}
           /\ \A i, j \in 1..Len(runOrder) : runOrder[i] = runOrder[j] => i = j
           /\ \A r \in Runs : phase[r] \in {"live", "ended"} =>
                 \E j \in 1..Len(runOrder) : runOrder[j] = r
<1>1. /\ runOrder \in Seq(Runs) /\ IsInjective(runOrder)
      /\ Range(runOrder) = {r \in Runs : phase[r] \in {"live", "ended"}}
  BY DEF TypeOK
<1>2. Len(runOrder) \in Nat /\ DOMAIN runOrder = 1..Len(runOrder)
  BY <1>1, LenProperties
<1>3. \A i, j \in 1..Len(runOrder) : runOrder[i] = runOrder[j] => i = j
  BY <1>1, <1>2 DEF IsInjective
<1> QED BY <1>1, <1>2, <1>3 DEF Range

\* The ring of a run in the order: frames of the run, numbered up to the last.
RingNumbered(e, r) ==
    \A k \in 1..Len(ring[r]) :
        /\ ring[r][k] = log[e[r] - Len(ring[r]) + k]
        /\ ring[r][k].run = r /\ ring[r][k].seq = log[e[r]].seq - Len(ring[r]) + k

LEMMA RingFacts ==
    ASSUME TypeOK, LogOk, NEW e, Laid(e), NEW j \in 1..Len(runOrder), NEW r, r = runOrder[j]
    PROVE  /\ r \in Runs /\ ring[r] \in Seq(Frames) /\ ring[r] # <<>>
           /\ e[r] \in 1..Len(log) /\ log[e[r]].run = r
           /\ Len(ring[r]) \in 1..log[e[r]].seq /\ log[e[r]].seq \in 1..e[r]
           /\ ring[r] = Cut(log, e[r] - Len(ring[r]), e[r])
           /\ RingNumbered(e, r)
           /\ NextSeq(r) = log[e[r]].seq + 1
<1> DEFINE L == Len(ring[r])
           n == log[e[r]].seq
<1>1. log \in Seq(Frames) /\ r \in Runs /\ ring[r] \in Seq(Frames)
  BY InOrderOf DEF TypeOK
<1>2. /\ e[r] \in 1..Len(log) /\ log[e[r]].run = r /\ L \in 1..n
      /\ ring[r] = Cut(log, e[r] - L, e[r])
  BY DEF Laid
<1>3. n \in 1..e[r]
  BY <1>2 DEF LogOk
<1>4. Len(log) \in Nat /\ e[r] \in 0..Len(log) /\ e[r] - L \in 0..e[r] /\ e[r] - (e[r] - L) = L
  BY <1>1, <1>2, <1>3, LenProperties
<1>5. \A k \in 1..L : ring[r][k] = log[e[r] - L + k]
  <2>1. \A k \in 1..e[r] - (e[r] - L) : Cut(log, e[r] - L, e[r])[k] = log[e[r] - L + k]
    <3>1. PICK h : h = e[r]
      OBVIOUS
    <3>2. PICK p : p = h - L
      OBVIOUS
    <3>3. h \in 0..Len(log) /\ p \in 0..h
      BY <1>4, <3>1, <3>2
    <3>4. \A k \in 1..h - p : Cut(log, p, h)[k] = log[p + k]
      BY <1>1, <3>3, CutProperties
    <3> QED BY <3>1, <3>2, <3>4
  <2> QED BY <1>2, <1>4, <2>1
<1>6. ASSUME NEW k \in 1..L PROVE ring[r][k].run = r /\ ring[r][k].seq = n - L + k
  <2>1. n - L + k \in 1..n /\ e[r] - n + (n - L + k) = e[r] - L + k
    BY <1>2, <1>3, SMTT(30), ZenonT(60), Z3T(60)
  <2>2. /\ log[e[r] - n + (n - L + k)].run = log[e[r]].run
        /\ log[e[r] - n + (n - L + k)].seq = n - L + k
    BY <1>2, <2>1 DEF LogOk
  <2> QED BY <1>2, <1>5, <2>1, <2>2
<1>7. ring[r] # <<>> /\ L \in 1..L
  BY <1>1, <1>2, <1>3, EmptySeq
<1>8. NextSeq(r) = n + 1
  <2>1. Last(ring[r]).seq = n
    <3>1. Last(ring[r]) = ring[r][L] /\ n - L + L = n
      BY <1>2, <1>3 DEF Last
    <3> QED BY <1>6, <1>7, <3>1
  <2> QED BY <1>7, <2>1 DEF NextSeq
<1>9. RingNumbered(e, r)
  BY <1>5, <1>6 DEF RingNumbered
<1> QED BY <1>1, <1>2, <1>3, <1>7, <1>8, <1>9

\* A run's next frame keeps the numbering.
LEMMA LogGrows ==
    ASSUME log \in Seq(Frames), LogOk, NEW f \in Frames, log' = Append(log, f),
           \/ f.seq = 1 /\ \A i \in 1..Len(log) : log[i].run # f.run
           \/ Len(log) # 0 /\ log[Len(log)].run = f.run /\ f.seq = log[Len(log)].seq + 1
    PROVE  LogOk'
<1> DEFINE n == Len(log)
<1>1. n \in Nat
  BY LenProperties
<1>2. log' \in Seq(Frames) /\ Len(log') = n + 1 /\ log'[n + 1] = f /\ \A i \in 1..n : log'[i] = log[i]
  BY AppendProperties
<1>3. \A i \in 1..n : log[i].seq \in 1..i
  BY DEF LogOk
<1>4. ASSUME NEW i \in 1..n, NEW q \in 1..log[i].seq
      PROVE  /\ i - log[i].seq + q \in 1..n
             /\ log[i - log[i].seq + q].run = log[i].run
             /\ log[i - log[i].seq + q].seq = q
  <2>1. log[i].seq \in 1..i
    BY <1>3
  <2>2. i - log[i].seq + q \in 1..n
    BY <1>1, <2>1
  <2> QED BY <2>2 DEF LogOk
<1>5. ASSUME NEW i \in 1..n PROVE ~(log[i].run = f.run /\ log[i].seq = f.seq)
  <2> SUFFICES ASSUME log[i].run = f.run, log[i].seq = f.seq PROVE FALSE
    OBVIOUS
  <2>1. n \in 1..n /\ log[n].run = f.run /\ f.seq = log[n].seq + 1
    BY <1>1
  <2>2. log[n].seq \in 1..n /\ log[i].seq \in 1..i
    BY <1>3, <2>1
  <2>3. log[n].seq \in 1..log[i].seq
    BY <2>1, <2>2
  <2>4. /\ i - log[i].seq + log[n].seq \in 1..n
        /\ log[i - log[i].seq + log[n].seq].run = log[i].run
        /\ log[i - log[i].seq + log[n].seq].seq = log[n].seq
    BY <1>4, <2>3
  <2>5. i - log[i].seq + log[n].seq = i - 1
    BY <2>1, <2>2
  <2>6. i - 1 \in 1..n /\ log[i - 1].run = log[n].run /\ log[i - 1].seq = log[n].seq
    BY <2>1, <2>4, <2>5
  <2>7. i - 1 = n
    BY <2>1, <2>6 DEF LogOk
  <2> QED BY <1>1, <2>7
<1>6. ASSUME NEW i \in 1..n + 1
      PROVE  /\ log'[i].seq \in 1..i
             /\ \A q \in 1..log'[i].seq : /\ log'[i - log'[i].seq + q].run = log'[i].run
                                          /\ log'[i - log'[i].seq + q].seq = q
  <2>1. CASE i \in 1..n
    <3>1. log'[i] = log[i] /\ log[i].seq \in 1..i
      BY <1>2, <1>3, <2>1
    <3>2. ASSUME NEW q \in 1..log[i].seq
          PROVE  /\ log'[i - log[i].seq + q].run = log[i].run
                 /\ log'[i - log[i].seq + q].seq = q
      BY <1>2, <1>4, <2>1
    <3> QED BY <3>1, <3>2
  <2>2. CASE i \notin 1..n
    <3>1. i = n + 1 /\ log'[i] = f
      BY <1>1, <1>2, <2>2
    <3>2. CASE f.seq = 1 /\ \A k \in 1..n : log[k].run # f.run
      <4>1. ASSUME NEW q \in 1..f.seq PROVE q = 1 /\ i - f.seq + q = i
        BY <1>1, <3>1, <3>2
      <4>2. f.seq \in 1..i
        BY <1>1, <3>1, <3>2
      <4> QED BY <3>1, <3>2, <4>1, <4>2
    <3>3. CASE n # 0 /\ log[n].run = f.run /\ f.seq = log[n].seq + 1
      <4>1. n \in 1..n /\ log[n].seq \in 1..n
        BY <1>1, <1>3, <3>3
      <4>2. f.seq \in 1..i
        BY <3>1, <3>3, <4>1
      <4>3. ASSUME NEW q \in 1..f.seq
            PROVE  log'[i - f.seq + q].run = f.run /\ log'[i - f.seq + q].seq = q
        <5>1. CASE q = f.seq
          <6>1. i - f.seq + q = i
            <7>1. i \in Nat /\ f.seq \in Nat
              BY <1>1, <3>1, <3>3, <4>1
            <7> QED BY <5>1, <7>1
          <6> QED BY <3>1, <5>1, <6>1
        <5>2. CASE q # f.seq
          <6>1. PICK m : m = log[n].seq
            OBVIOUS
          <6>2. m \in 1..n /\ f.seq = m + 1
            BY <3>3, <4>1, <6>1
          <6>3. q \in 1..m /\ i - f.seq + q = n - m + q
            BY <1>1, <3>1, <5>2, <6>2
          <6>4. /\ n - m + q \in 1..n /\ log[n - m + q].run = log[n].run /\ log[n - m + q].seq = q
            BY <1>4, <4>1, <6>1, <6>3
          <6> QED BY <1>2, <3>3, <6>3, <6>4
        <5> QED BY <5>1, <5>2
      <4> QED BY <3>1, <4>2, <4>3
    <3> QED BY <3>2, <3>3
  <2> QED BY <2>1, <2>2
<1>7. ASSUME NEW i \in 1..n + 1, NEW j \in 1..n + 1,
             log'[i].run = log'[j].run, log'[i].seq = log'[j].seq
      PROVE  i = j
  <2>1. CASE i \in 1..n /\ j \in 1..n
    BY <1>2, <1>7, <2>1 DEF LogOk
  <2>2. CASE i \notin 1..n /\ j \notin 1..n
    BY <1>1, <2>2
  <2>3. CASE i \in 1..n /\ j \notin 1..n
    <3>1. j = n + 1
      BY <1>1, <2>3
    <3> QED BY <1>2, <1>5, <1>7, <2>3, <3>1
  <2>4. CASE i \notin 1..n /\ j \in 1..n
    <3>1. i = n + 1
      BY <1>1, <2>4
    <3> QED BY <1>2, <1>5, <1>7, <2>4, <3>1
  <2> QED BY <2>1, <2>2, <2>3, <2>4
<1> HIDE DEF n
<1> QED BY <1>2, <1>6, <1>7, ZenonT(60) DEF LogOk

-----------------------------------------------------------------------------
(* Publish.                                                                *)

NextFrame(r, size) == [run |-> r, seq |-> NextSeq(r), size |-> size]

\* The frame published, and the ring it goes to, go on where log ends.
LEMMA Published ==
    ASSUME StreamInv, NEW r \in Runs, NEW size \in Sizes, Publish(r, size)
    PROVE  /\ log \in Seq(Frames) /\ Len(log) \in Nat /\ NextFrame(r, size) \in Frames
           /\ log' = Append(log, NextFrame(r, size))
           /\ NextSeq(r) \in 1..Len(log) + 1
           /\ \/ NextSeq(r) = 1 /\ \A i \in 1..Len(log) : log[i].run # r
              \/ Len(log) # 0 /\ log[Len(log)].run = r /\ NextSeq(r) = log[Len(log)].seq + 1
           /\ ring[r] \in Seq(Frames)
           /\ Len(ring[r]) \in 0..NextSeq(r) - 1
           /\ ring[r] = Cut(log, Len(log) - Len(ring[r]), Len(log))
<1>1. log \in Seq(Frames) /\ Len(log) \in Nat /\ ring[r] \in Seq(Frames) /\ TypeOK /\ LogOk
  BY LenProperties DEF StreamInv, TypeOK
<1>2. log' = Append(log, NextFrame(r, size))
  BY DEF Publish, NextFrame
<1>3. CASE phase[r] = "new"
  <2>1. ring[r] = <<>> /\ Len(ring[r]) = 0 /\ \A i \in 1..Len(log) : log[i].run # r
    BY <1>1, <1>3, EmptySeq DEF StreamInv, OrderOk
  <2>2. NextSeq(r) = 1
    BY <2>1 DEF NextSeq
  <2>3. Cut(log, Len(log) - 0, Len(log)) = <<>>
    <3>1. Len(log) \in 0..Len(log) /\ Len(log) - 0 \in 0..Len(log) /\ Len(log) - (Len(log) - 0) = 0
      BY <1>1
    <3>2. /\ Cut(log, Len(log) - 0, Len(log)) \in Seq(Frames)
          /\ Len(Cut(log, Len(log) - 0, Len(log))) = 0
      BY <1>1, <3>1, CutProperties
    <3> QED BY <3>2, EmptySeq
  <2>4. NextFrame(r, size) \in Frames
    BY <2>2 DEF NextFrame, Frames
  <2> QED BY <1>1, <1>2, <2>1, <2>2, <2>3, <2>4
<1>4. CASE phase[r] = "live"
  <2>1. PICK e : Laid(e)
    BY DEF StreamInv
  <2> DEFINE m == Len(runOrder)
  <2>2. m \in 1..m /\ r = runOrder[m]
    <3>1. PICK j \in 1..m : runOrder[j] = r
      BY <1>1, <1>4, InOrderOf
    <3>2. m \in Nat
      BY <1>1, InOrderOf
    <3>3. runOrder[m] = r
      BY <1>4 DEF StreamInv, OrderOk
    <3> QED BY <3>1, <3>2, <3>3
  <2>3. e[r] = Len(log)
    BY <2>1, <2>2 DEF Laid
  <2>4. /\ e[r] \in 1..Len(log) /\ log[e[r]].run = r
        /\ Len(ring[r]) \in 1..log[e[r]].seq /\ log[e[r]].seq \in 1..e[r]
        /\ ring[r] = Cut(log, e[r] - Len(ring[r]), e[r])
        /\ NextSeq(r) = log[e[r]].seq + 1
    BY <1>1, <2>1, <2>2, RingFacts
  <2>5. PICK n : n = Len(log)
    OBVIOUS
  <2>6. PICK q : q = log[n].seq
    OBVIOUS
  <2>7. n \in 1..n /\ n \in Nat /\ q \in 1..n /\ NextSeq(r) = q + 1 /\ Len(ring[r]) \in 1..q
    BY <1>1, <2>3, <2>4, <2>5, <2>6
  <2>8. NextSeq(r) \in Nat /\ NextSeq(r) \in 1..n + 1 /\ Len(ring[r]) \in 0..NextSeq(r) - 1 /\ n # 0
    BY <2>7
  <2>9. NextFrame(r, size) \in Frames
    BY <2>8 DEF NextFrame, Frames
  <2> QED BY <1>1, <1>2, <2>3, <2>4, <2>5, <2>6, <2>7, <2>8, <2>9
<1> QED BY <1>3, <1>4 DEF Publish

LEMMA RingGrows ==
    ASSUME StreamInv, NEW r \in Runs, NEW size \in Sizes, Publish(r, size)
    PROVE  \E c \in 1..NextSeq(r), h \in Nat :
               /\ ring'[r] \in Seq(Frames) /\ Len(ring'[r]) = c
               /\ Len(log') = h /\ h = Len(log) + 1
               /\ ring'[r] = Cut(log', h - c, h)
<1> DEFINE n == Len(log)
           L == Len(ring[r])
           f == NextFrame(r, size)
           q == Append(ring[r], f)
<1>1. /\ log \in Seq(Frames) /\ n \in Nat /\ f \in Frames /\ log' = Append(log, f)
      /\ NextSeq(r) \in 1..n + 1 /\ ring[r] \in Seq(Frames) /\ L \in 0..NextSeq(r) - 1
      /\ ring[r] = Cut(log, n - L, n)
  BY Published
<1>2. ring'[r] = Trimmed(q)
  BY DEF Publish, NextFrame, StreamInv, TypeOK
<1> HIDE DEF f
<1>3. log' \in Seq(Frames) /\ Len(log') = n + 1 /\ log'[n + 1] = f
  BY <1>1, AppendProperties
<1>4. n \in 0..Len(log) /\ n - L \in 0..n
  BY <1>1
<1>5. ring[r] = Cut(log', n - L, n)
  BY <1>1, <1>4, CutGrows
<1>6. q = Cut(log', n - L, n + 1)
  <2>1. n \in 0..Len(log') /\ n # Len(log')
    BY <1>1, <1>3
  <2>2. Append(Cut(log', n - L, n), log'[n + 1]) = Cut(log', n - L, n + 1)
    BY <1>3, <1>4, <2>1, CutExtend
  <2> QED BY <1>3, <1>5, <2>2
<1>7. q \in Seq(Frames) /\ Len(q) = L + 1
  BY <1>1, AppendProperties
<1>8. q # <<>>
  BY <1>1, <1>7, EmptySeq
<1> HIDE DEF q
<1>9. PICK k \in 0..Len(q) - 1 : ring'[r] = Cut(q, k, Len(q))
  BY <1>2, <1>7, <1>8, TrimmedIsCut
<1>10. PICK h : h = n + 1
  OBVIOUS
<1>11. PICK b : b = n - L
  OBVIOUS
<1>12. PICK c : c = L + 1 - k
  OBVIOUS
<1>13. /\ k \in 0..L /\ Len(q) \in 0..Len(q) /\ k \in 0..Len(q)
       /\ h \in 0..Len(log') /\ b \in 0..h /\ h - b = L + 1 /\ k \in 0..h - b
       /\ b + k = h - c /\ c \in 1..NextSeq(r) /\ h \in Nat /\ Len(log') = h
  <2>1. PICK u : u = NextSeq(r)
    OBVIOUS
  <2>2. /\ n \in Nat /\ u \in Nat /\ L \in Nat /\ k \in Nat
        /\ 1 <= u /\ u <= n + 1 /\ L + 1 <= u /\ k <= L
    <3>1. u \in 1..n + 1 /\ n \in Nat /\ L \in 0..u - 1 /\ k \in 0..L
      BY <1>1, <1>7, <2>1
    <3> QED BY <3>1
  <2>3. b \in 0..n /\ h - b = L + 1 /\ c \in 1..u /\ b + k = h - c
    <3>1. PICK x : x = L
      OBVIOUS
    <3>2. PICK y : y = n
      OBVIOUS
    <3>3. /\ x \in Nat /\ y \in Nat /\ k \in Nat /\ u \in Nat
          /\ u <= y + 1 /\ x + 1 <= u /\ k <= x
      BY <2>2, <3>1, <3>2
    <3>4. b = y - x /\ h = y + 1 /\ c = x + 1 - k
      BY <1>10, <1>11, <1>12, <3>1, <3>2
    <3>5. b \in 0..y /\ h - b = x + 1 /\ c \in 1..u /\ b + k = h - c
      BY <3>3, <3>4
    <3> QED BY <3>1, <3>2, <3>5
  <2>4. h \in Nat /\ Len(log') = h /\ h = n + 1 /\ Len(q) = L + 1
    BY <1>1, <1>3, <1>7, <1>10
  <2> QED BY <2>1, <2>2, <2>3, <2>4
<1>14. ring'[r] \in Seq(Frames) /\ Len(ring'[r]) = c
  <2>1. Cut(q, k, Len(q)) \in Seq(Frames) /\ Len(Cut(q, k, Len(q))) = Len(q) - k
    BY <1>7, <1>13, CutProperties
  <2> QED BY <1>7, <1>9, <1>12, <2>1
<1>15. ring'[r] = Cut(log', h - c, h)
  <2>1. SubSeq(Cut(log', b, h), k + 1, h - b) = Cut(log', b + k, h)
    BY <1>3, <1>13, CutOfCut
  <2>2. q = Cut(log', b, h)
    BY <1>6, <1>10, <1>11
  <2>3. ring'[r] = SubSeq(q, k + 1, h - b)
    BY <1>7, <1>9, <1>13 DEF Cut
  <2> QED BY <1>13, <2>1, <2>2, <2>3
<1> QED BY <1>10, <1>13, <1>14, <1>15

LEMMA PublishLaid ==
    ASSUME StreamInv, NEW r \in Runs, NEW size \in Sizes, Publish(r, size)
    PROVE  \E e : Laid(e)'
<1> DEFINE n == Len(log)
           m == Len(runOrder)
           f == NextFrame(r, size)
<1>0. TypeOK /\ LogOk
  BY DEF StreamInv
<1>1. PICK e : Laid(e)
  BY DEF StreamInv
<1>2. /\ log \in Seq(Frames) /\ n \in Nat /\ f \in Frames /\ log' = Append(log, f)
      /\ NextSeq(r) \in 1..n + 1 /\ f.run = r /\ f.seq = NextSeq(r)
  BY Published DEF NextFrame
<1> HIDE DEF f
<1>3. /\ log' \in Seq(Frames) /\ Len(log') = n + 1 /\ log'[n + 1] = f
      /\ \A i \in 1..n : log'[i] = log[i]
  BY <1>2, AppendProperties
<1>4. PICK c \in 1..NextSeq(r), h \in Nat :
         /\ ring'[r] \in Seq(Frames) /\ Len(ring'[r]) = c
         /\ Len(log') = h /\ h = n + 1
         /\ ring'[r] = Cut(log', h - c, h)
  BY RingGrows
<1>5. /\ \A x \in Runs : x # r => ring'[x] = ring[x] /\ phase'[x] = phase[x]
      /\ runOrder \in Seq(Runs) /\ m \in Nat
  BY <1>0, InOrderOf DEF Publish, StreamInv, TypeOK
<1>d. PICK d : d = [e EXCEPT ![r] = h]
  OBVIOUS
<1>6. /\ d \in [Runs -> Nat] /\ d[r] = h /\ \A x \in Runs : x # r => d[x] = e[x]
  BY <1>1, <1>4, <1>d DEF Laid
\* A run before r: nothing of it changes.
<1>7. ASSUME NEW j \in 1..m, NEW x, x = runOrder[j], x # r
      PROVE  /\ x \in Runs
             /\ d[x] = e[x] /\ d[x] \in 1..n /\ d[x] \in 1..Len(log') /\ log'[d[x]] = log[e[x]] /\ log[e[x]].run = x
             /\ Len(ring'[x]) \in 1..log'[d[x]].seq
             /\ ring'[x] = Cut(log', d[x] - Len(ring'[x]), d[x])
  <2>1. /\ x \in Runs /\ e[x] \in 1..n /\ log[e[x]].run = x
        /\ Len(ring[x]) \in 1..log[e[x]].seq /\ log[e[x]].seq \in 1..e[x]
        /\ ring[x] = Cut(log, e[x] - Len(ring[x]), e[x])
    BY <1>0, <1>1, <1>7, RingFacts
  <2>2. d[x] = e[x] /\ ring'[x] = ring[x] /\ log'[e[x]] = log[e[x]]
    BY <1>3, <1>5, <1>6, <1>7, <2>1
  <2>3. e[x] \in 0..Len(log) /\ e[x] - Len(ring[x]) \in 0..e[x] /\ e[x] \in 1..Len(log')
    BY <1>2, <1>3, <2>1, SMTT(30), ZenonT(60), Z3T(60)
  <2>4. Cut(log', e[x] - Len(ring[x]), e[x]) = Cut(log, e[x] - Len(ring[x]), e[x])
    BY <1>2, <2>3, CutGrows
  <2> QED BY <2>1, <2>2, <2>3, <2>4
<1>8. /\ d[r] \in 1..Len(log') /\ log'[d[r]].run = r /\ log'[d[r]].seq = NextSeq(r)
      /\ Len(ring'[r]) \in 1..log'[d[r]].seq
      /\ ring'[r] = Cut(log', d[r] - Len(ring'[r]), d[r])
  <2>1. h \in 1..Len(log') /\ log'[h].run = r /\ log'[h].seq = NextSeq(r)
    BY <1>2, <1>3, <1>4
  <2> QED BY <1>4, <1>6, <2>1
<1>9. CASE phase[r] = "live"
  <2>1. runOrder' = runOrder
    BY <1>9 DEF Publish
  <2>2. m \in 1..m /\ r = runOrder[m] /\ \A j \in 1..m : runOrder[j] = r => j = m
    BY <1>0, <1>9, InOrderOf DEF StreamInv, OrderOk
  <2>3. /\ e[r] = n /\ n \in 1..n /\ log[n].seq \in 1..n /\ NextSeq(r) = log[n].seq + 1
    <3>1. e[r] = n
      BY <1>1, <2>2 DEF Laid
    <3>2. e[r] \in 1..n /\ log[e[r]].seq \in 1..e[r] /\ NextSeq(r) = log[e[r]].seq + 1
      BY <1>0, <1>1, <2>2, RingFacts
    <3> QED BY <3>1, <3>2
  <2>4. ASSUME NEW j \in 1..m, j # m
        PROVE  d[runOrder[j]] = d[runOrder[j + 1]] - log'[d[runOrder[j + 1]]].seq
    <3>x. PICK x : x = runOrder[j]
      OBVIOUS
    <3>y. PICK y : y = runOrder[j + 1]
      OBVIOUS
    <3>1. j + 1 \in 1..m /\ j \in 1..m
      BY <1>5, <2>4
    <3>2. x # r /\ d[x] = e[x]
      BY <1>7, <2>2, <2>4, <3>x
    <3>3. e[x] = e[y] - log[e[y]].seq
      BY <1>1, <2>4, <3>x, <3>y DEF Laid
    <3>4. ASSUME y = r PROVE d[x] = d[y] - log'[d[y]].seq
      <4>1. e[x] = n - log[n].seq
        BY <2>3, <3>3, <3>4
      <4>2. n + 1 - NextSeq(r) = n - log[n].seq
        <5>1. PICK q : q = log[n].seq
          OBVIOUS
        <5>2. q \in Nat /\ NextSeq(r) = q + 1
          BY <2>3, <5>1
        <5> QED BY <1>2, <5>1, <5>2
      <4>3. d[y] = n + 1 /\ log'[d[y]].seq = NextSeq(r)
        BY <1>4, <1>6, <1>8, <3>4
      <4>4. d[x] = n - log[n].seq
        BY <3>2, <4>1
      <4>5. PICK a, b : a = NextSeq(r) /\ b = n - log[n].seq
        OBVIOUS
      <4>6. a \in Nat /\ n \in Nat /\ n + 1 - a = b
        BY <1>2, <4>2, <4>5
      <4>7. d[y] - log'[d[y]].seq = n + 1 - a
        BY <4>3, <4>5, <4>6
      <4>8. d[x] = b
        BY <4>4, <4>5
      <4> QED BY <4>6, <4>7, <4>8
    <3>5. ASSUME y # r PROVE d[x] = d[y] - log'[d[y]].seq
      <4>1. d[y] = e[y] /\ log'[d[y]] = log[e[y]]
        BY <1>7, <3>1, <3>5, <3>y
      <4>2. PICK a, b : a = e[y] /\ b = log[e[y]].seq
        OBVIOUS
      <4>3. a \in Nat /\ b \in Nat
        <5>1. e[y] \in 1..n /\ log[e[y]].seq \in 1..e[y]
          BY <1>0, <1>1, <3>1, <3>y, RingFacts
        <5> QED BY <4>2, <5>1
      <4>4. d[x] = a - b
        BY <3>2, <3>3, <4>2, <4>3
      <4>5. d[y] - log'[d[y]].seq = a - b
        BY <4>1, <4>2, <4>3
      <4> QED BY <4>4, <4>5
    <3>6. d[x] = d[y] - log'[d[y]].seq
      BY <3>4, <3>5
    <3> QED BY <3>x, <3>y, <3>6
  <2>5. ASSUME NEW j \in 1..m
        PROVE  LET x == runOrder[j] IN
               /\ d[x] \in 1..Len(log') /\ log'[d[x]].run = x
               /\ Len(ring'[x]) \in 1..log'[d[x]].seq
               /\ ring'[x] = Cut(log', d[x] - Len(ring'[x]), d[x])
               /\ d[x] = IF j = m THEN Len(log')
                           ELSE d[runOrder[j + 1]] - log'[d[runOrder[j + 1]]].seq
    <3>1. CASE j = m
      BY <1>4, <1>6, <1>8, <2>2, <3>1
    <3>2. CASE j # m
      <4>1. runOrder[j] # r
        BY <2>2, <3>2
      <4> QED BY <1>7, <2>4, <3>2, <4>1
    <3> QED BY <3>1, <3>2
  <2>6. Laid(d)'
    BY <1>6, <2>1, <2>5 DEF Laid
  <2> QED BY <2>6
<1>10. CASE phase[r] = "new"
  <2>1. runOrder' = Append(runOrder, r)
    BY <1>10 DEF Publish
  <2>2. /\ Len(runOrder') = m + 1 /\ runOrder'[m + 1] = r
        /\ \A j \in 1..m : runOrder'[j] = runOrder[j]
    BY <1>5, <2>1, AppendProperties
  <2>3. \A j \in 1..m : runOrder[j] # r
    BY <1>0, <1>10, InOrderOf
  <2>4. NextSeq(r) = 1
    <3>1. ring[r] = <<>>
      BY <1>10 DEF StreamInv, OrderOk
    <3> QED BY <3>1 DEF NextSeq
  <2>5. ASSUME NEW j \in 1..m
        PROVE  d[runOrder[j]] = d[runOrder'[j + 1]] - log'[d[runOrder'[j + 1]]].seq
    <3> DEFINE x == runOrder[j]
    <3>1. d[x] = e[x] /\ e[x] = IF j = m THEN n ELSE e[runOrder[j + 1]] - log[e[runOrder[j + 1]]].seq
      BY <1>1, <1>7, <2>3 DEF Laid
    <3>2. CASE j = m
      <4>1. runOrder'[j + 1] = r /\ d[r] - log'[d[r]].seq = n
        BY <1>2, <1>4, <1>6, <1>8, <2>2, <2>4, <3>2
      <4> QED BY <3>1, <3>2, <4>1
    <3>3. CASE j # m
      <4>1. j + 1 \in 1..m
        BY <1>5, <3>3
      <4>2. PICK y : y = runOrder[j + 1]
        OBVIOUS
      <4>3. runOrder'[j + 1] = y /\ y # r
        BY <2>2, <2>3, <4>1, <4>2
      <4>4. d[y] = e[y] /\ log'[d[y]] = log[e[y]]
        BY <1>7, <4>1, <4>2, <4>3
      <4> QED BY <3>1, <3>3, <4>2, <4>3, <4>4
    <3> QED BY <3>2, <3>3
  <2>6. ASSUME NEW j \in 1..m + 1
        PROVE  LET x == runOrder'[j] IN
               /\ d[x] \in 1..Len(log') /\ log'[d[x]].run = x
               /\ Len(ring'[x]) \in 1..log'[d[x]].seq
               /\ ring'[x] = Cut(log', d[x] - Len(ring'[x]), d[x])
               /\ d[x] = IF j = m + 1 THEN Len(log')
                           ELSE d[runOrder'[j + 1]] - log'[d[runOrder'[j + 1]]].seq
    <3>1. CASE j = m + 1
      BY <1>4, <1>6, <1>8, <2>2, <3>1
    <3>2. CASE j # m + 1
      <4>1. j \in 1..m /\ runOrder'[j] = runOrder[j]
        BY <1>5, <2>2, <3>2
      <4> QED BY <1>7, <2>3, <2>5, <3>2, <4>1
    <3> QED BY <3>1, <3>2
  <2>7. Laid(d)'
    BY <1>6, <2>2, <2>6 DEF Laid
  <2> QED BY <2>7
<1> QED BY <1>9, <1>10 DEF Publish

\* Where QueueOk says stretch, it is one of l, with its length and its end.
LEMMA QueueIsCut ==
    ASSUME NEW u \in SubStates, NEW a \in Nat, NEW l \in Seq(Frames), QueueOk(u, a, l)
    PROVE  \/ u.closed /\ Len(u.queue) = 1 /\ u.queue[1] \in Overflows
           \/ \E h \in a..Len(l) : /\ Len(u.queue) = h - a /\ u.queue = Cut(l, a, h)
                                   /\ u.queue \in Seq(Frames)
                                   /\ u.attached /\ ~u.closed => h = Len(l)
<1>1. CASE u.closed /\ Len(u.queue) = 1 /\ u.queue[1] \in Overflows
  BY <1>1
<1>2. CASE ~(u.closed /\ Len(u.queue) = 1 /\ u.queue[1] \in Overflows)
  <2>1. PICK n : n = Len(u.queue)
    OBVIOUS
  <2>2. PICK h : h = a + n
    OBVIOUS
  <2>3. /\ h <= Len(l) /\ u.queue = Cut(l, a, h) /\ (u.attached /\ ~u.closed => h = Len(l))
    BY <1>2, <2>1, <2>2 DEF QueueOk
  <2>4. n \in Nat
    <3>1. u.queue \in Seq(Frames \cup Overflows)
      BY DEF SubStates
    <3> QED BY <2>1, <3>1, LenProperties
  <2>5. Len(l) \in Nat
    BY LenProperties
  <2>6. h \in a..Len(l) /\ n = h - a /\ h \in 0..Len(l) /\ a \in 0..h
    BY <2>2, <2>3, <2>4, <2>5
  <2>7. u.queue \in Seq(Frames)
    BY <2>3, <2>6, CutProperties
  <2> QED BY <2>1, <2>3, <2>6, <2>7
<1> QED BY <1>1, <1>2

\* And the other way round.
LEMMA CutIsQueue ==
    ASSUME NEW u \in SubStates, NEW a \in Nat, NEW l \in Seq(Frames), NEW h \in a..Len(l),
           u.queue = Cut(l, a, h), u.attached /\ ~u.closed => h = Len(l),
           ~u.attached /\ ~u.closed => h = a
    PROVE  QueueOk(u, a, l) /\ Len(u.queue) = h - a
<1>1. Len(l) \in Nat /\ h \in 0..Len(l) /\ a \in 0..h
  BY LenProperties
<1>2. Len(u.queue) = h - a /\ u.queue \in Seq(Frames)
  <2>1. Cut(l, a, h) \in Seq(Frames) /\ Len(Cut(l, a, h)) = h - a
    BY <1>1, CutProperties, SMTT(30), ZenonT(60), Z3T(60)
  <2> QED BY <2>1
<1>3. PICK n : n = Len(u.queue)
  OBVIOUS
<1>4. a + n = h /\ a <= Len(l) /\ h <= Len(l)
  BY <1>1, <1>2, <1>3
<1>5. ~u.attached /\ ~u.closed => u.queue = <<>>
  <2> SUFFICES ASSUME ~u.attached, ~u.closed PROVE u.queue = <<>>
    OBVIOUS
  <2>1. Len(u.queue) = 0
    BY <1>1, <1>2
  <2> QED BY <1>2, <2>1, EmptySeq
<1> QED BY <1>2, <1>3, <1>4, <1>5 DEF QueueOk

\* The notice alone.
LEMMA NoticeIsQueue ==
    ASSUME NEW u \in SubStates, NEW a \in Nat, NEW l \in Seq(Frames), a <= Len(l),
           NEW why \in {"slow_consumer", "evicted", "unknown_run"}
    PROVE  QueueOk(Overflow(u, why), a, l)
<1>1. /\ Overflow(u, why).closed /\ Overflow(u, why).queue = <<[overflow |-> why]>>
  BY OverflowType
<1>2. [overflow |-> why] \in Overflows
  BY DEF Overflows
<1>3. Len(Overflow(u, why).queue) = 1 /\ Overflow(u, why).queue[1] \in Overflows
  BY <1>1, <1>2
<1> QED BY <1>1, <1>3 DEF QueueOk

\* A frame published is offered to a subscription that is open, and nothing to
\* one that is not.
LEMMA OfferPublished ==
    ASSUME NEW u \in SubStates, NEW a \in Nat, NEW l \in Seq(Frames), NEW f \in Frames,
           QueueOk(u, a, l)
    PROVE  QueueOk(IF u.attached THEN Offer(u, f) ELSE u, a, Append(l, f))
<1>1. PICK k : k = Append(l, f)
  OBVIOUS
<1>2. /\ Len(l) \in Nat /\ k \in Seq(Frames) /\ Len(k) = Len(l) + 1 /\ k[Len(l) + 1] = f
  BY <1>1, AppendProperties, LenProperties
<1>3. a <= Len(l) /\ a <= Len(k)
  BY <1>2 DEF QueueOk
<1>4. CASE ~u.attached \/ u.closed
  <2>1. (IF u.attached THEN Offer(u, f) ELSE u) = u
    BY <1>4 DEF Offer
  <2>2. CASE u.closed /\ Len(u.queue) = 1 /\ u.queue[1] \in Overflows
    BY <1>1, <1>3, <2>1, <2>2 DEF QueueOk
  <2>3. CASE \E h \in a..Len(l) : /\ Len(u.queue) = h - a /\ u.queue = Cut(l, a, h)
                                  /\ u.queue \in Seq(Frames)
                                  /\ u.attached /\ ~u.closed => h = Len(l)
    <3>1. PICK h \in a..Len(l) : Len(u.queue) = h - a /\ u.queue = Cut(l, a, h)
      BY <2>3
    <3>2. h \in 0..Len(l) /\ a \in 0..h /\ h \in a..Len(k)
      BY <1>2
    <3>3. u.queue = Cut(k, a, h)
      BY <1>1, <3>1, <3>2, CutGrows
    <3>4. ~u.attached /\ ~u.closed => h = a
      <4> SUFFICES ASSUME ~u.attached, ~u.closed PROVE h = a
        OBVIOUS
      <4>1. u.queue = <<>>
        BY DEF QueueOk
      <4>2. Len(u.queue) = 0
        BY <4>1, EmptySeq
      <4> QED BY <1>2, <3>1, <4>2
    <3>5. QueueOk(u, a, k)
      BY <1>2, <1>4, <3>2, <3>3, <3>4, CutIsQueue
    <3> QED BY <1>1, <2>1, <3>5
  <2> QED BY <2>2, <2>3, QueueIsCut
<1>5. CASE u.attached /\ ~u.closed /\ Bytes(u.queue) + f.size > Budget
  <2>1. (IF u.attached THEN Offer(u, f) ELSE u) = Overflow(u, "slow_consumer")
    BY <1>5 DEF Offer
  <2>2. QueueOk(Overflow(u, "slow_consumer"), a, k)
    BY <1>2, <1>3, NoticeIsQueue
  <2> QED BY <1>1, <2>1, <2>2
<1>6. CASE u.attached /\ ~u.closed /\ ~(Bytes(u.queue) + f.size > Budget)
  <2>1. PICK v : v = [u EXCEPT !.queue = Append(u.queue, f)]
    OBVIOUS
  <2>2. (IF u.attached THEN Offer(u, f) ELSE u) = v
    BY <1>6, <2>1 DEF Offer
  <2>3. v \in SubStates /\ v.attached /\ ~v.closed /\ v.queue = Append(u.queue, f)
    <3>1. Append(u.queue, f) \in Seq(Frames \cup Overflows)
      BY AppendProperties DEF SubStates
    <3> QED BY <1>6, <2>1, <3>1 DEF SubStates
  <2>4. PICK h \in a..Len(l) : h = Len(l) /\ u.queue = Cut(l, a, h)
    BY <1>6, QueueIsCut
  <2>5. /\ h \in 0..Len(l) /\ a \in 0..h /\ h \in 0..Len(k) /\ h # Len(k)
        /\ h + 1 \in a..Len(k) /\ h + 1 = Len(k) /\ k[h + 1] = f
    BY <1>2, <2>4
  <2>6. u.queue = Cut(k, a, h)
    BY <1>1, <2>4, <2>5, CutGrows
  <2>7. v.queue = Cut(k, a, h + 1)
    <3>1. Append(Cut(k, a, h), k[h + 1]) = Cut(k, a, h + 1)
      BY <1>2, <2>5, CutExtend
    <3> QED BY <2>3, <2>5, <2>6, <3>1
  <2>8. QueueOk(v, a, k)
    BY <1>2, <2>3, <2>5, <2>7, CutIsQueue
  <2> QED BY <1>1, <2>2, <2>8
<1> QED BY <1>4, <1>5, <1>6

LEMMA SubIs == ASSUME TypeOK, NEW s \in Subs PROVE sub[s] \in SubStates /\ at[s] \in Nat
BY DEF TypeOK, SubStates

\* A run that begins is the last of the order.
LEMMA OrderGrows ==
    ASSUME TypeOK, NEW r \in Runs, phase[r] = "new",
           runOrder' = Append(runOrder, r), phase' = [phase EXCEPT ![r] = "live"]
    PROVE  /\ runOrder' \in Seq(Runs) /\ IsInjective(runOrder')
           /\ Range(runOrder') = {x \in Runs : phase'[x] \in {"live", "ended"}}
           /\ Len(runOrder') = Len(runOrder) + 1 /\ runOrder'[Len(runOrder')] = r
<1>1. /\ Len(runOrder) \in Nat /\ runOrder \in Seq(Runs)
      /\ \A j \in 1..Len(runOrder) : runOrder[j] \in Runs /\ phase[runOrder[j]] \in {"live", "ended"}
      /\ \A i, j \in 1..Len(runOrder) : runOrder[i] = runOrder[j] => i = j
      /\ \A x \in Runs : phase[x] \in {"live", "ended"} =>
            \E j \in 1..Len(runOrder) : runOrder[j] = x
  BY InOrderOf DEF TypeOK
<1>2. PICK m : m = Len(runOrder)
  OBVIOUS
<1>3. /\ runOrder' \in Seq(Runs) /\ Len(runOrder') = m + 1 /\ runOrder'[m + 1] = r
      /\ \A j \in 1..m : runOrder'[j] = runOrder[j]
  BY <1>1, <1>2, AppendProperties
<1>4. DOMAIN runOrder' = 1..m + 1
  BY <1>3, LenProperties
<1>5. \A j \in 1..m : runOrder[j] # r
  BY <1>1, <1>2
<1>6. ASSUME NEW i \in 1..m + 1, NEW j \in 1..m + 1, runOrder'[i] = runOrder'[j] PROVE i = j
  <2>1. i \in 1..m \/ i = m + 1
    BY <1>1, <1>2
  <2>2. j \in 1..m \/ j = m + 1
    BY <1>1, <1>2
  <2> QED BY <1>1, <1>2, <1>3, <1>5, <1>6, <2>1, <2>2
<1>7. \A x \in Runs : phase'[x] \in {"live", "ended"} <=> (x = r \/ phase[x] \in {"live", "ended"})
  BY DEF TypeOK
<1>8. Range(runOrder') = {x \in Runs : phase'[x] \in {"live", "ended"}}
  <2>1. ASSUME NEW j \in 1..m + 1
        PROVE  runOrder'[j] \in Runs /\ phase'[runOrder'[j]] \in {"live", "ended"}
    <3>1. j \in 1..m \/ j = m + 1
      BY <1>1, <1>2
    <3> QED BY <1>1, <1>2, <1>3, <1>7, <3>1
  <2>2. ASSUME NEW x \in Runs, phase'[x] \in {"live", "ended"}
        PROVE  \E j \in 1..m + 1 : runOrder'[j] = x
    <3>1. CASE x = r
      <4>1. m + 1 \in 1..m + 1
        BY <1>1, <1>2
      <4> QED BY <1>3, <3>1, <4>1
    <3>2. CASE x # r
      <4>1. PICK j \in 1..m : runOrder[j] = x
        BY <1>1, <1>2, <1>7, <2>2, <3>2
      <4>2. j \in 1..m + 1
        BY <1>1, <1>2
      <4> QED BY <1>3, <4>1, <4>2
    <3> QED BY <3>1, <3>2
  <2>3. Range(runOrder') = {runOrder'[j] : j \in 1..m + 1}
    BY <1>4 DEF Range
  <2>4. {runOrder'[j] : j \in 1..m + 1} \subseteq {x \in Runs : phase'[x] \in {"live", "ended"}}
    BY <2>1
  <2>5. {x \in Runs : phase'[x] \in {"live", "ended"}} \subseteq {runOrder'[j] : j \in 1..m + 1}
    BY <2>2
  <2> QED BY <2>3, <2>4, <2>5
<1>9. IsInjective(runOrder')
  BY <1>4, <1>6 DEF IsInjective
<1> QED BY <1>2, <1>3, <1>8, <1>9

LEMMA PublishTypes ==
    ASSUME StreamInv, NEW r \in Runs, NEW size \in Sizes, Publish(r, size)
    PROVE  TypeOK'
<1>0. TypeOK
  BY DEF StreamInv
<1>1. closed' \in BOOLEAN /\ at' \in [Subs -> Nat] /\ phase' \in [Runs -> {"new", "live", "ended", "gone"}]
  BY <1>0 DEF TypeOK, Publish
<1>2. /\ runOrder' \in Seq(Runs) /\ IsInjective(runOrder')
      /\ Range(runOrder') = {x \in Runs : phase'[x] \in {"live", "ended"}}
  <2>1. CASE phase[r] = "new"
    BY <1>0, <2>1, OrderGrows DEF Publish
  <2>2. CASE phase[r] = "live"
    BY <1>0, <2>2 DEF Publish, TypeOK
  <2> QED BY <2>1, <2>2 DEF Publish
<1>3. ring' \in [Runs -> Seq(Frames)]
  <2>1. ring'[r] \in Seq(Frames)
    BY RingGrows
  <2>2. ring \in [Runs -> Seq(Frames)] /\ ring' = [ring EXCEPT ![r] = ring'[r]]
    BY <1>0 DEF TypeOK, Publish
  <2> QED BY <2>1, <2>2
<1>4. log' \in Seq(Frames)
  BY Published, AppendProperties
<1>5. sub' \in [Subs -> SubStates]
  <2>1. NextFrame(r, size) \in Frames
    BY Published
  <2>2. sub' = [s \in Subs |-> IF sub[s].attached THEN Offer(sub[s], NextFrame(r, size)) ELSE sub[s]]
    BY DEF Publish, NextFrame
  <2>3. \A s \in Subs : sub[s] \in SubStates
    BY <1>0, SubIs
  <2>4. \A s \in Subs : Offer(sub[s], NextFrame(r, size)) \in SubStates
    BY <2>1, <2>3, OfferType
  <2> QED BY <2>2, <2>3, <2>4
<1> QED BY <1>1, <1>2, <1>3, <1>4, <1>5 DEF TypeOK, SubStates

LEMMA PublishOk ==
    ASSUME StreamInv, NEW r \in Runs, NEW size \in Sizes, Publish(r, size)
    PROVE  StreamInv'
<1>0. TypeOK /\ LogOk /\ OrderOk
  BY DEF StreamInv
<1> DEFINE f == NextFrame(r, size)
<1>1. /\ log \in Seq(Frames) /\ Len(log) \in Nat /\ f \in Frames /\ log' = Append(log, f)
      /\ f.run = r /\ f.seq = NextSeq(r)
      /\ \/ NextSeq(r) = 1 /\ \A i \in 1..Len(log) : log[i].run # r
         \/ Len(log) # 0 /\ log[Len(log)].run = r /\ NextSeq(r) = log[Len(log)].seq + 1
  BY Published DEF NextFrame
<1>2. sub' = [s \in Subs |-> IF sub[s].attached THEN Offer(sub[s], f) ELSE sub[s]] /\ at' = at
  BY DEF Publish, NextFrame
<1> HIDE DEF f
<1>3. LogOk'
  BY <1>0, <1>1, LogGrows
<1>4. OrderOk'
  <2>1. /\ phase' = [phase EXCEPT ![r] = "live"] /\ phase \in [Runs -> {"new", "live", "ended", "gone"}]
        /\ \A x \in Runs : x # r => phase'[x] = phase[x] /\ ring'[x] = ring[x]
        /\ phase'[r] = "live"
    BY <1>0 DEF Publish, TypeOK
  <2>2. ASSUME NEW x \in Runs, phase'[x] = "live" PROVE runOrder'[Len(runOrder')] = x
    <3>1. CASE phase[r] = "new"
      <4>1. x = r
        BY <2>1, <2>2, <3>1 DEF Publish
      <4>2. runOrder'[Len(runOrder')] = r
        BY <1>0, <2>1, <3>1, OrderGrows DEF Publish
      <4> QED BY <4>1, <4>2
    <3>2. CASE phase[r] = "live"
      <4>1. runOrder' = runOrder /\ phase[x] = "live"
        BY <2>1, <2>2, <3>2 DEF Publish
      <4> QED BY <1>0, <4>1 DEF OrderOk
    <3> QED BY <3>1, <3>2 DEF Publish
  <2>3. ASSUME NEW x \in Runs, phase'[x] = "new"
        PROVE  ring'[x] = <<>> /\ \A i \in 1..Len(log') : log'[i].run # x
    <3>1. x # r /\ phase[x] = "new"
      BY <2>1, <2>3
    <3>2. ring'[x] = <<>> /\ \A i \in 1..Len(log) : log[i].run # x
      BY <1>0, <2>1, <3>1 DEF OrderOk
    <3>3. /\ Len(log') = Len(log) + 1 /\ log'[Len(log) + 1] = f
          /\ \A i \in 1..Len(log) : log'[i] = log[i]
      BY <1>1, AppendProperties
    <3>4. \A i \in 1..Len(log') : i \in 1..Len(log) \/ i = Len(log) + 1
      BY <1>1, <3>3
    <3> QED BY <1>1, <3>1, <3>2, <3>3, <3>4
  <2> QED BY <2>2, <2>3 DEF OrderOk
<1>5. ASSUME NEW s \in Subs PROVE SubOk(s)'
  <2>1. sub[s] \in SubStates /\ at[s] \in Nat /\ QueueOk(sub[s], at[s], log)
    BY <1>0, SubIs DEF StreamInv, SubOk
  <2>2. QueueOk(IF sub[s].attached THEN Offer(sub[s], f) ELSE sub[s], at[s], Append(log, f))
    BY <1>1, <2>1, OfferPublished
  <2>3. sub'[s] = IF sub[s].attached THEN Offer(sub[s], f) ELSE sub[s]
    BY <1>2
  <2> QED BY <1>1, <1>2, <2>2, <2>3 DEF SubOk
<1>6. TypeOK' /\ (\E e : Laid(e)')
  BY PublishTypes, PublishLaid
<1>7. (\E e : Laid(e))'
  BY <1>6
<1> QED BY <1>3, <1>4, <1>5, <1>6, <1>7 DEF StreamInv

-----------------------------------------------------------------------------
(* The other operations of the hub.                                        *)

\* What is left of the order when its first run is purged.
LEMMA OrderShrinks ==
    ASSUME TypeOK, NEW r \in Runs, phase[r] = "ended", r = Head(runOrder),
           runOrder' = Tail(runOrder), phase' = [phase EXCEPT ![r] = "gone"]
    PROVE  /\ runOrder' \in Seq(Runs) /\ IsInjective(runOrder')
           /\ Range(runOrder') = {x \in Runs : phase'[x] \in {"live", "ended"}}
           /\ Len(runOrder) \in Nat \ {0} /\ Len(runOrder') = Len(runOrder) - 1
           /\ \A j \in 1..Len(runOrder') : /\ j + 1 \in 1..Len(runOrder) /\ j \in 1..Len(runOrder)
                                           /\ runOrder'[j] = runOrder[j + 1]
                                           /\ runOrder'[j] # r
<1>1. /\ Len(runOrder) \in Nat /\ runOrder \in Seq(Runs)
      /\ \A j \in 1..Len(runOrder) : runOrder[j] \in Runs /\ phase[runOrder[j]] \in {"live", "ended"}
      /\ \A i, j \in 1..Len(runOrder) : runOrder[i] = runOrder[j] => i = j
      /\ \A x \in Runs : phase[x] \in {"live", "ended"} =>
            \E j \in 1..Len(runOrder) : runOrder[j] = x
  BY InOrderOf DEF TypeOK
<1>2. PICK m : m = Len(runOrder)
  OBVIOUS
<1>3. m \in Nat \ {0} /\ runOrder # <<>>
  <2>1. \E j \in 1..m : runOrder[j] = r
    BY <1>1, <1>2
  <2>2. m # 0
    BY <1>1, <1>2, <2>1
  <2> QED BY <1>1, <1>2, <2>2, EmptySeq
<1>4. /\ runOrder[1] = r /\ runOrder' \in Seq(Runs) /\ Len(runOrder') = m - 1
      /\ \A j \in 1..m - 1 : runOrder'[j] = runOrder[j + 1]
  BY <1>1, <1>2, <1>3, HeadTailProperties
<1>5. \A j \in 1..m - 1 : j + 1 \in 1..m /\ j \in 1..m /\ j + 1 # 1
  BY <1>3
<1>6. 1 \in 1..m
  BY <1>3
<1>7. \A j \in 1..m - 1 : runOrder'[j] # r
  BY <1>1, <1>2, <1>4, <1>5, <1>6
<1>8. DOMAIN runOrder' = 1..m - 1
  BY <1>4, LenProperties
<1>9. ASSUME NEW i \in 1..m - 1, NEW j \in 1..m - 1, runOrder'[i] = runOrder'[j] PROVE i = j
  <2>1. i + 1 = j + 1
    BY <1>1, <1>2, <1>4, <1>5, <1>9
  <2> QED BY <2>1
<1>10. IsInjective(runOrder')
  BY <1>8, <1>9 DEF IsInjective
<1>11. \A x \in Runs : phase'[x] \in {"live", "ended"} <=> (x # r /\ phase[x] \in {"live", "ended"})
  BY DEF TypeOK
<1>12. Range(runOrder') = {x \in Runs : phase'[x] \in {"live", "ended"}}
  <2>1. ASSUME NEW j \in 1..m - 1
        PROVE  runOrder'[j] \in Runs /\ phase'[runOrder'[j]] \in {"live", "ended"}
    BY <1>1, <1>2, <1>4, <1>5, <1>7, <1>11
  <2>2. ASSUME NEW x \in Runs, phase'[x] \in {"live", "ended"}
        PROVE  \E j \in 1..m - 1 : runOrder'[j] = x
    <3>1. PICK i \in 1..m : runOrder[i] = x
      BY <1>1, <1>2, <1>11, <2>2
    <3>2. i # 1
      BY <1>4, <1>11, <2>2, <3>1
    <3>3. i - 1 \in 1..m - 1 /\ i - 1 + 1 = i
      BY <1>3, <3>2
    <3> QED BY <1>4, <3>1, <3>3
  <2>3. Range(runOrder') = {runOrder'[j] : j \in 1..m - 1}
    BY <1>8 DEF Range
  <2>4. {runOrder'[j] : j \in 1..m - 1} \subseteq {x \in Runs : phase'[x] \in {"live", "ended"}}
    BY <2>1
  <2>5. {x \in Runs : phase'[x] \in {"live", "ended"}} \subseteq {runOrder'[j] : j \in 1..m - 1}
    BY <2>2
  <2> QED BY <2>3, <2>4, <2>5
<1> QED BY <1>2, <1>3, <1>4, <1>5, <1>7, <1>10, <1>12

LEMMA EndRunOk == ASSUME StreamInv, NEW r \in Runs, EndRun(r) PROVE StreamInv'
<1>0. TypeOK /\ LogOk /\ OrderOk
  BY DEF StreamInv
<1>1. /\ UNCHANGED <<closed, runOrder, ring, log, sub, at>> /\ phase[r] = "live"
      /\ phase' = [phase EXCEPT ![r] = "ended"]
      /\ phase \in [Runs -> {"new", "live", "ended", "gone"}]
  BY <1>0 DEF EndRun, TypeOK
<1>2. \A x \in Runs : /\ phase'[x] \in {"live", "ended"} <=> phase[x] \in {"live", "ended"}
                      /\ phase'[x] = "live" => phase[x] = "live"
                      /\ phase'[x] = "new" => phase[x] = "new"
  BY <1>1
<1>3. TypeOK'
  <2>1. Range(runOrder') = {x \in Runs : phase'[x] \in {"live", "ended"}}
    BY <1>0, <1>1, <1>2 DEF TypeOK
  <2>2. phase' \in [Runs -> {"new", "live", "ended", "gone"}]
    BY <1>1
  <2> QED BY <1>0, <1>1, <2>1, <2>2 DEF TypeOK
<1>4. OrderOk'
  BY <1>0, <1>1, <1>2 DEF OrderOk
<1>5. LogOk'
  BY <1>0, <1>1, SMTT(30), ZenonT(60), Z3T(60) DEF LogOk
<1>6. (\E e : Laid(e))'
  <2>1. PICK e : Laid(e)
    BY DEF StreamInv
  <2>2. Laid(e)'
    BY <1>1, <2>1 DEF Laid
  <2> QED BY <2>2
<1>7. \A s \in Subs : SubOk(s)'
  BY <1>1 DEF StreamInv, SubOk
<1> QED BY <1>3, <1>4, <1>5, <1>6, <1>7 DEF StreamInv

LEMMA PurgeRunOk == ASSUME StreamInv, NEW r \in Runs, PurgeRun(r) PROVE StreamInv'
<1>0. TypeOK /\ LogOk /\ OrderOk
  BY DEF StreamInv
<1>1. /\ UNCHANGED <<closed, log, sub, at>> /\ phase[r] = "ended" /\ r = Head(runOrder)
      /\ phase' = [phase EXCEPT ![r] = "gone"] /\ runOrder' = Tail(runOrder)
      /\ ring' = [ring EXCEPT ![r] = <<>>]
      /\ phase \in [Runs -> {"new", "live", "ended", "gone"}]
      /\ ring \in [Runs -> Seq(Frames)]
  BY <1>0 DEF PurgeRun, TypeOK
<1>2. PICK m : m = Len(runOrder)
  OBVIOUS
<1>3. /\ runOrder' \in Seq(Runs) /\ IsInjective(runOrder')
      /\ Range(runOrder') = {x \in Runs : phase'[x] \in {"live", "ended"}}
      /\ m \in Nat \ {0} /\ Len(runOrder') = m - 1
      /\ \A j \in 1..m - 1 : /\ j + 1 \in 1..m /\ j \in 1..m
                             /\ runOrder'[j] = runOrder[j + 1] /\ runOrder'[j] # r
  BY <1>0, <1>1, <1>2, OrderShrinks
<1>4. <<>> \in Seq(Frames)
  OBVIOUS
<1>5. TypeOK'
  BY <1>0, <1>1, <1>3, <1>4 DEF TypeOK
<1>6. LogOk'
  BY <1>0, <1>1, SMTT(30), ZenonT(60), Z3T(60) DEF LogOk
<1>7. OrderOk'
  <2>1. ASSUME NEW x \in Runs, phase'[x] = "live" PROVE runOrder'[Len(runOrder')] = x
    <3>1. x # r /\ phase[x] = "live" /\ runOrder[m] = x
      BY <1>0, <1>1, <1>2, <2>1 DEF OrderOk
    <3>2. runOrder[1] = r
      BY <1>0, <1>1, <1>2, <1>3, EmptySeq, HeadTailProperties DEF TypeOK
    <3>3. m # 1
      BY <3>1, <3>2
    <3>4. m - 1 \in 1..m - 1 /\ m - 1 + 1 = m
      BY <1>3, <3>3
    <3> QED BY <1>3, <3>1, <3>4
  <2>2. ASSUME NEW x \in Runs, phase'[x] = "new"
        PROVE  ring'[x] = <<>> /\ \A i \in 1..Len(log') : log'[i].run # x
    <3>1. x # r /\ phase[x] = "new"
      BY <1>1, <2>2
    <3> QED BY <1>0, <1>1, <3>1 DEF OrderOk
  <2> QED BY <2>1, <2>2 DEF OrderOk
<1>8. PICK e : Laid(e)
  BY DEF StreamInv
<1>9. Laid(e)'
  <2>1. ASSUME NEW j \in 1..m - 1, NEW x, x = runOrder'[j]
        PROVE  /\ e[x] \in 1..Len(log') /\ log'[e[x]].run = x
               /\ Len(ring'[x]) \in 1..log'[e[x]].seq
               /\ ring'[x] = Cut(log', e[x] - Len(ring'[x]), e[x])
               /\ e[x] = IF j = m - 1 THEN Len(log')
                           ELSE e[runOrder'[j + 1]] - log'[e[runOrder'[j + 1]]].seq
    <3>1. j + 1 \in 1..m /\ x = runOrder[j + 1] /\ x # r /\ x \in Runs
      BY <1>0, <1>2, <1>3, <2>1, InOrderOf
    <3>2. /\ e[x] \in 1..Len(log) /\ log[e[x]].run = x
          /\ Len(ring[x]) \in 1..log[e[x]].seq
          /\ ring[x] = Cut(log, e[x] - Len(ring[x]), e[x])
          /\ e[x] = IF j + 1 = m THEN Len(log)
                      ELSE e[runOrder[j + 1 + 1]] - log[e[runOrder[j + 1 + 1]]].seq
      BY <1>2, <1>8, <3>1 DEF Laid
    <3>3. ring'[x] = ring[x] /\ (j + 1 = m <=> j = m - 1)
      BY <1>1, <1>3, <3>1, SMTT(30), ZenonT(60), Z3T(60)
    <3>4. j # m - 1 => runOrder'[j + 1] = runOrder[j + 1 + 1]
      <4> SUFFICES ASSUME j # m - 1 PROVE runOrder'[j + 1] = runOrder[j + 1 + 1]
        OBVIOUS
      <4>1. j + 1 \in 1..m - 1
        BY <1>3
      <4> QED BY <1>3, <4>1
    <3> QED BY <1>1, <3>2, <3>3, <3>4
  <2> QED BY <1>3, <1>8, <2>1, ZenonT(60) DEF Laid
<1>10. \A s \in Subs : SubOk(s)'
  BY <1>1 DEF StreamInv, SubOk
<1> QED BY <1>5, <1>6, <1>7, <1>9, <1>10 DEF StreamInv

LEMMA CloseHubOk == ASSUME StreamInv, CloseHub PROVE StreamInv'
<1>0. TypeOK /\ LogOk
  BY DEF StreamInv
<1>1. /\ closed' = TRUE /\ phase' = [r \in Runs |-> "gone"] /\ runOrder' = <<>>
      /\ ring' = [r \in Runs |-> <<>>] /\ UNCHANGED <<log, at>>
      /\ sub' = [s \in Subs |-> IF sub[s].attached THEN [sub[s] EXCEPT !.closed = TRUE] ELSE sub[s]]
  BY DEF CloseHub
<1>2. /\ runOrder' \in Seq(Runs) /\ Len(runOrder') = 0 /\ DOMAIN runOrder' = {}
      /\ ring' \in [Runs -> Seq(Frames)] /\ phase' \in [Runs -> {"new", "live", "ended", "gone"}]
      /\ \A r \in Runs : phase'[r] = "gone"
  BY <1>1, EmptySeq
<1>3. IsInjective(runOrder') /\ Range(runOrder') = {r \in Runs : phase'[r] \in {"live", "ended"}}
  BY <1>2 DEF IsInjective, Range
<1>4. sub' \in [Subs -> SubStates]
  <2>1. \A s \in Subs : sub[s] \in SubStates /\ [sub[s] EXCEPT !.closed = TRUE] \in SubStates
    BY <1>0, SubIs DEF SubStates
  <2> QED BY <1>1, <2>1
<1>5. TypeOK'
  BY <1>0, <1>1, <1>2, <1>3, <1>4 DEF TypeOK, SubStates
<1>6. LogOk'
  BY <1>0, <1>1 DEF LogOk
<1>7. OrderOk'
  BY <1>2 DEF OrderOk
<1>8. (\E e : Laid(e))'
  <2>1. PICK e : Laid(e)
    BY DEF StreamInv
  <2>2. Laid(e)'
    BY <1>2, <2>1 DEF Laid
  <2> QED BY <2>2
<1>9. ASSUME NEW s \in Subs PROVE SubOk(s)'
  <2>1. sub[s] \in SubStates /\ at[s] \in Nat /\ QueueOk(sub[s], at[s], log)
    BY <1>0, SubIs DEF StreamInv, SubOk
  <2>2. sub'[s] = IF sub[s].attached THEN [sub[s] EXCEPT !.closed = TRUE] ELSE sub[s]
    BY <1>1
  <2>3. QueueOk(sub'[s], at[s], log)
    <3>1. sub'[s].queue = sub[s].queue /\ (sub[s].closed => sub'[s].closed)
          /\ (~sub'[s].closed => sub'[s] = sub[s])
      BY <2>1, <2>2 DEF SubStates
    <3> QED BY <2>1, <3>1 DEF QueueOk
  <2> QED BY <1>1, <2>3 DEF SubOk
<1> QED BY <1>5, <1>6, <1>7, <1>8, <1>9 DEF StreamInv

-----------------------------------------------------------------------------
(* The operations of a subscription.                                       *)

\* A step of one subscription alone.
LEMMA SubStepOk ==
    ASSUME StreamInv, NEW s \in Subs, NEW u \in SubStates, NEW a \in Nat,
           UNCHANGED <<closed, phase, runOrder, ring, log>>,
           sub' = [sub EXCEPT ![s] = u], at' = [at EXCEPT ![s] = a], QueueOk(u, a, log)
    PROVE  StreamInv'
<1>0. TypeOK /\ LogOk /\ OrderOk
  BY DEF StreamInv
<1>1. sub \in [Subs -> SubStates] /\ at \in [Subs -> Nat]
  BY <1>0 DEF TypeOK, SubStates
<1>2. TypeOK'
  BY <1>0, <1>1 DEF TypeOK, SubStates
<1>3. LogOk' /\ OrderOk' /\ (\E e : Laid(e))'
  <2>1. LogOk'
    BY <1>0 DEF LogOk
  <2>2. OrderOk'
    BY <1>0 DEF OrderOk
  <2>3. (\E e : Laid(e))'
    <3>1. PICK e : Laid(e)
      BY DEF StreamInv
    <3>2. Laid(e)'
      BY <3>1 DEF Laid
    <3> QED BY <3>2
  <2> QED BY <2>1, <2>2, <2>3
<1>4. ASSUME NEW t \in Subs PROVE SubOk(t)'
  <2>1. CASE t = s
    BY <1>1, <2>1 DEF SubOk
  <2>2. CASE t # s
    BY <1>1, <2>2 DEF StreamInv, SubOk
  <2> QED BY <2>1, <2>2
<1> QED BY <1>2, <1>3, <1>4 DEF StreamInv

\* A subscription with nothing queued, at the end of what was published or
\* not open.
LEMMA EmptyQueueOk ==
    ASSUME NEW u \in SubStates, NEW a \in Nat, NEW l \in Seq(Frames), a <= Len(l),
           u.queue = <<>>, u.attached /\ ~u.closed => a = Len(l)
    PROVE  QueueOk(u, a, l)
<1>1. Len(l) \in Nat /\ a \in 0..Len(l) /\ a \in 0..a /\ a \in a..Len(l) /\ a - a = 0
  BY LenProperties
<1>2. Cut(l, a, a) = <<>>
  <2>1. Cut(l, a, a) \in Seq(Frames) /\ Len(Cut(l, a, a)) = 0
    BY <1>1, CutProperties
  <2> QED BY <2>1, EmptySeq
<1> QED BY <1>1, <1>2, CutIsQueue

LEMMA OpenedIs ==
    /\ Opened \in SubStates /\ NewSub \in SubStates
    /\ Opened.queue = <<>> /\ ~Opened.closed /\ ~Opened.attached /\ Opened.used
    /\ [Opened EXCEPT !.closed = TRUE] \in SubStates
    /\ [Opened EXCEPT !.closed = TRUE].queue = <<>>
    /\ [Opened EXCEPT !.closed = TRUE].closed
    /\ ~[Opened EXCEPT !.closed = TRUE].attached
<1>1. <<>> \in Seq(Frames \cup Overflows)
  OBVIOUS
<1> QED BY <1>1 DEF Opened, NewSub, SubStates

\* A subscription that is done, or not begun.
LEMMA ResetOk ==
    ASSUME StreamInv, NEW s \in Subs, NEW u \in SubStates, u.queue = <<>>, ~u.attached,
           UNCHANGED <<closed, phase, runOrder, ring, log, at>>,
           sub' = [sub EXCEPT ![s] = u]
    PROVE  StreamInv'
<1>1. /\ TypeOK /\ log \in Seq(Frames) /\ at \in [Subs -> Nat] /\ at[s] \in Nat
      /\ at[s] <= Len(log)
  BY DEF StreamInv, TypeOK, SubOk, QueueOk
<1>2. at' = [at EXCEPT ![s] = at[s]]
  BY <1>1
<1>3. QueueOk(u, at[s], log)
  BY <1>1, EmptyQueueOk
<1> QED BY <1>1, <1>2, <1>3, SubStepOk

LEMMA SubscribeLiveOk == ASSUME StreamInv, NEW s \in Subs, SubscribeLive(s) PROVE StreamInv'
<1>1. log \in Seq(Frames) /\ Len(log) \in Nat /\ closed \in BOOLEAN
  BY LenProperties DEF StreamInv, TypeOK
<1>2. PICK u : u = [Opened EXCEPT !.closed = closed, !.attached = ~closed]
  OBVIOUS
<1>3. u \in SubStates /\ u.queue = <<>>
  BY <1>1, <1>2, OpenedIs DEF SubStates
<1>4. PICK a : a = Len(log)
  OBVIOUS
<1>5. QueueOk(u, a, log)
  BY <1>1, <1>3, <1>4, EmptyQueueOk
<1>6. UNCHANGED <<closed, phase, runOrder, ring, log>>
      /\ sub' = [sub EXCEPT ![s] = u] /\ at' = [at EXCEPT ![s] = a]
  BY <1>2, <1>4 DEF SubscribeLive
<1> QED BY <1>1, <1>3, <1>4, <1>5, <1>6, SubStepOk

LEMMA TakeFrameOk == ASSUME StreamInv, NEW s \in Subs, TakeFrame(s) PROVE StreamInv'
<1>1. /\ TypeOK /\ log \in Seq(Frames) /\ sub[s] \in SubStates /\ at[s] \in Nat
      /\ QueueOk(sub[s], at[s], log) /\ at \in [Subs -> Nat] /\ Len(log) \in Nat
  BY SubIs, LenProperties DEF StreamInv, TypeOK, SubOk
<1>2. PICK q : q = sub[s].queue
  OBVIOUS
<1>3. PICK a : a = at[s]
  OBVIOUS
<1>4. q \in Seq(Frames \cup Overflows) /\ q # <<>>
  BY <1>1, <1>2 DEF TakeFrame, SubStates
<1>5. PICK u : u = [sub[s] EXCEPT !.queue = Tail(q)]
  OBVIOUS
<1>6. /\ Tail(q) \in Seq(Frames \cup Overflows) /\ Len(q) \in Nat \ {0} /\ Len(Tail(q)) = Len(q) - 1
      /\ Head(q) = q[1] /\ \A k \in 1..Len(q) - 1 : Tail(q)[k] = q[k + 1]
  BY <1>4, HeadTailProperties, LenProperties, EmptySeq
<1>7. /\ u \in SubStates /\ u.queue = Tail(q) /\ u.closed = sub[s].closed
      /\ u.attached = sub[s].attached
  BY <1>1, <1>5, <1>6 DEF SubStates
<1>8. /\ UNCHANGED <<closed, phase, runOrder, ring, log>>
      /\ sub' = [sub EXCEPT ![s] = u]
      /\ at' = [at EXCEPT ![s] = IF q[1] \in Overflows THEN a ELSE a + 1]
  BY <1>2, <1>3, <1>5, <1>6 DEF TakeFrame
<1>9. CASE sub[s].closed /\ Len(q) = 1 /\ q[1] \in Overflows
  <2>1. u.queue = <<>> /\ u.closed /\ a <= Len(log)
    <3>1. Len(Tail(q)) = 0
      BY <1>6, <1>9
    <3> QED BY <1>1, <1>3, <1>6, <1>7, <1>9, <3>1, EmptySeq DEF QueueOk
  <2>2. QueueOk(u, a, log)
    BY <1>1, <1>3, <1>7, <2>1, EmptyQueueOk
  <2>3. at' = [at EXCEPT ![s] = a]
    BY <1>8, <1>9
  <2> QED BY <1>1, <1>3, <1>7, <1>8, <2>2, <2>3, SubStepOk
<1>10. CASE \E h \in a..Len(log) : /\ Len(q) = h - a /\ q = Cut(log, a, h)
                                   /\ q \in Seq(Frames)
                                   /\ sub[s].attached /\ ~sub[s].closed => h = Len(log)
  <2>1. PICK h \in a..Len(log) : /\ Len(q) = h - a /\ q = Cut(log, a, h)
                                 /\ q \in Seq(Frames)
                                 /\ sub[s].attached /\ ~sub[s].closed => h = Len(log)
    BY <1>10
  <2>2. /\ h \in 0..Len(log) /\ a \in 0..h /\ a + 1 \in 0..h /\ h \in a + 1..Len(log)
        /\ a + 1 \in Nat /\ Len(Tail(q)) = h - (a + 1) /\ 1 \in 1..Len(q)
    BY <1>1, <1>3, <1>6, <2>1
  <2>3. q[1] \notin Overflows
    <3>1. q[1] \in Frames
      BY <2>1, <2>2, ElementOfSeq
    <3> QED BY <3>1, FrameOrNotice
  <2>4. Tail(q) \in Seq(Frames)
    BY <1>4, <2>1, HeadTailProperties
  <2>5. \A k \in 1..h - (a + 1) : Tail(q)[k] = log[a + 1 + k]
    <3> SUFFICES ASSUME NEW k \in 1..h - (a + 1) PROVE Tail(q)[k] = log[a + 1 + k]
      OBVIOUS
    <3>1. k \in 1..Len(q) - 1 /\ k + 1 \in 1..h - a /\ a + (k + 1) = a + 1 + k
      <4>1. a \in Nat /\ h \in Nat /\ k \in Nat /\ 1 <= k /\ k <= h - (a + 1)
        BY <2>2
      <4>2. Len(q) = h - a
        BY <2>1
      <4> QED BY ONLY <4>1, <4>2
    <3>2. Cut(log, a, h)[k + 1] = log[a + (k + 1)]
      BY <1>1, <2>2, <3>1, CutProperties, ZenonT(60)
    <3> QED BY <1>6, <2>1, <3>1, <3>2
  <2>6. Tail(q) = Cut(log, a + 1, h)
    BY <1>1, <2>2, <2>4, <2>5, CutIs
  <2>7. ~u.attached /\ ~u.closed => h = a + 1
    BY <1>1, <1>2, <1>4, <1>7 DEF QueueOk
  <2>8. PICK b : b = a + 1
    OBVIOUS
  <2>9. QueueOk(u, b, log)
    BY <1>1, <1>7, <2>1, <2>2, <2>6, <2>7, <2>8, CutIsQueue
  <2>10. at' = [at EXCEPT ![s] = b] /\ b \in Nat
    BY <1>8, <2>2, <2>3, <2>8
  <2> QED BY <1>7, <1>8, <2>9, <2>10, SubStepOk
<1> QED
  <2>1. PICK v : v = sub[s]
    OBVIOUS
  <2>2. v \in SubStates /\ QueueOk(v, a, log) /\ v.queue = q
    BY <1>1, <1>2, <1>3, <2>1
  <2>3. log \in Seq(Frames) /\ a \in Nat
    BY <1>1, <1>3
  <2>4. \/ v.closed /\ Len(v.queue) = 1 /\ v.queue[1] \in Overflows
        \/ \E h \in a..Len(log) : /\ Len(v.queue) = h - a /\ v.queue = Cut(log, a, h)
                                  /\ v.queue \in Seq(Frames)
                                  /\ v.attached /\ ~v.closed => h = Len(log)
    BY <2>2, <2>3, QueueIsCut
  <2> QED BY <1>9, <1>10, <2>1, <2>2, <2>4

LEMMA CloseSubOk == ASSUME StreamInv, NEW s \in Subs, CloseSub(s) PROVE StreamInv'
<1>1. PICK u : u = [queue |-> <<>>, closed |-> TRUE, attached |-> FALSE, used |-> TRUE]
  OBVIOUS
<1>2. u \in SubStates /\ u.queue = <<>> /\ ~u.attached
  BY <1>1 DEF SubStates
<1>3. UNCHANGED <<closed, phase, runOrder, ring, log, at>> /\ sub' = [sub EXCEPT ![s] = u]
  BY <1>1 DEF CloseSub
<1> QED BY <1>2, <1>3, ResetOk

-----------------------------------------------------------------------------
(* Resuming: what replay() and SubscribeActive offer is a stretch of what  *)
(* was published, up to its end.                                           *)

\* A new subscription that is offered frames has them all, or the notice.
LEMMA OfferedAll ==
    ASSUME NEW q \in Seq(Frames), NEW u, u = OfferAll(Opened, q)
    PROVE  /\ u \in SubStates /\ u.used
           /\ \/ ~u.closed /\ u.queue = q
              \/ u.closed /\ Len(u.queue) = 1 /\ u.queue[1] \in Overflows
<1>1. PICK g : /\ g[0] = Opened
               /\ \A k \in 1..Len(q) : g[k] = Offer(g[k - 1], q[k])
               /\ OfferAll(Opened, q) = g[Len(q)]
  BY OpenedIs, OfferAllSteps
<1>2. PICK n : n = Len(q)
  OBVIOUS
<1>3. n \in Nat
  BY <1>2, LenProperties
<1> DEFINE Good(k) == /\ g[k] \in SubStates /\ g[k].used
                      /\ \/ ~g[k].closed /\ g[k].queue = Cut(q, 0, k)
                         \/ g[k].closed /\ Len(g[k].queue) = 1 /\ g[k].queue[1] \in Overflows
           T == {k \in 0..n : ~Good(k)}
<1>4. T = {}
  <2> SUFFICES ASSUME T # {} PROVE FALSE
    OBVIOUS
  <2>1. T \subseteq Nat
    BY <1>3
  <2>2. PICK k \in T : \A y \in T : k <= y
    BY <2>1, Least
  <2>3. k \in 0..n /\ ~Good(k)
    OBVIOUS
  <2>4. k # 0
    <3>1. Cut(q, 0, 0) = <<>>
      <4>1. 0 \in 0..Len(q) /\ 0 \in 0..0 /\ 0 - 0 = 0
        BY <1>2, <1>3
      <4>2. Cut(q, 0, 0) \in Seq(Frames) /\ Len(Cut(q, 0, 0)) = 0
        BY <4>1, CutProperties
      <4> QED BY <4>2, EmptySeq
    <3> QED BY <1>1, <2>3, <3>1, OpenedIs
  <2>5. k \in 1..n /\ k - 1 \in 0..n /\ ~(k <= k - 1) /\ k - 1 # n /\ 0 \in 0..k - 1 /\ k - 1 + 1 = k
    BY <1>3, <2>3, <2>4
  <2>6. Good(k - 1)
    <3>1. k - 1 \notin T
      BY <2>2, <2>5
    <3> QED BY <2>5, <3>1
  <2>7. g[k] = Offer(g[k - 1], q[k]) /\ q[k] \in Frames
    BY <1>1, <1>2, <2>5, ElementOfSeq
  <2>8. PICK w : w = g[k - 1]
    OBVIOUS
  <2>9. w \in SubStates /\ g[k] = Offer(w, q[k]) /\ g[k] \in SubStates /\ g[k].used
    BY <2>6, <2>7, <2>8, OfferType
  <2>10. CASE w.closed
    <3>1. g[k] = w
      BY <2>9, <2>10 DEF Offer
    <3> QED BY <2>3, <2>6, <2>8, <2>10, <3>1
  <2>11. CASE ~w.closed /\ Bytes(w.queue) + q[k].size > Budget
    <3>1. g[k] = Overflow(w, "slow_consumer")
      BY <2>9, <2>11 DEF Offer
    <3>2. g[k].closed /\ g[k].queue = <<[overflow |-> "slow_consumer"]>>
      BY <2>9, <3>1, OverflowType
    <3>3. [overflow |-> "slow_consumer"] \in Overflows
      BY DEF Overflows
    <3>4. Len(g[k].queue) = 1 /\ g[k].queue[1] \in Overflows
      BY <3>2, <3>3
    <3> QED BY <2>3, <2>9, <3>2, <3>4
  <2>12. CASE ~w.closed /\ ~(Bytes(w.queue) + q[k].size > Budget)
    <3>1. g[k] = [w EXCEPT !.queue = Append(w.queue, q[k])]
      BY <2>9, <2>12 DEF Offer
    <3>2. ~g[k].closed /\ g[k].queue = Append(w.queue, q[k])
      BY <2>9, <2>12, <3>1 DEF SubStates
    <3>3. w.queue = Cut(q, 0, k - 1)
      BY <2>6, <2>8, <2>12
    <3>4. Append(Cut(q, 0, k - 1), q[k - 1 + 1]) = Cut(q, 0, k - 1 + 1)
      BY <1>2, <2>5, CutExtend
    <3> QED BY <2>3, <2>5, <2>9, <3>2, <3>3, <3>4
  <2> QED BY <2>10, <2>11, <2>12
<1>5. Good(n)
  <2>1. n \in 0..n
    BY <1>3
  <2> QED BY <1>4, <2>1
<1>6. Cut(q, 0, n) = q
  <2>1. n \in 0..Len(q) /\ 0 \in 0..n /\ n - 0 = n /\ \A k \in 1..n - 0 : 0 + k = k
    BY <1>2, <1>3
  <2>2. \A k \in 1..n - 0 : q[k] = q[0 + k]
    BY <2>1
  <2> QED BY <1>2, <2>1, <2>2, CutIs
<1> QED BY <1>1, <1>2, <1>5, <1>6

\* q is what l has after b, and is newer than seq after p.
NewerFrom(l, b, p, q, seq) ==
    \A k \in 1..Len(q) : q[k] = l[b + k] /\ (q[k].seq > seq <=> b + k > p)

\* The frames after a number, of frames that are a stretch and numbered on.
LEMMA NewerThanCut ==
    ASSUME NEW l \in Seq(Frames), NEW e \in 0..Len(l), NEW b \in 0..e, NEW p \in b..e,
           NEW q \in Seq(Frames), Len(q) = e - b, NEW seq,
           NewerFrom(l, b, p, q, seq)
    PROVE  NewerThan(q, seq) = Cut(l, p, e)
<1>1. PICK g : /\ g[0] = <<>>
               /\ \A k \in 1..Len(q) :
                     g[k] = IF q[k].seq > seq THEN Append(g[k - 1], q[k]) ELSE g[k - 1]
               /\ NewerThan(q, seq) = g[Len(q)]
  BY NewerThanSteps
<1>2. Len(l) \in Nat /\ e \in Nat /\ b \in Nat /\ p \in Nat /\ b <= p /\ p <= e /\ e <= Len(l)
  BY LenProperties
<1>3. PICK n : n = e - b
  OBVIOUS
<1>4. n \in Nat /\ b + n = e
  BY <1>2, <1>3
<1> DEFINE End(k) == IF b + k > p THEN b + k ELSE p
           T == {k \in 0..n : g[k] # Cut(l, p, End(k))}
<1>5. Cut(l, p, p) = <<>>
  <2>1. p \in 0..Len(l) /\ p \in 0..p /\ p - p = 0
    BY <1>2
  <2>2. Cut(l, p, p) \in Seq(Frames) /\ Len(Cut(l, p, p)) = 0
    BY <2>1, CutProperties
  <2> QED BY <2>2, EmptySeq
<1>6. T = {}
  <2> SUFFICES ASSUME T # {} PROVE FALSE
    OBVIOUS
  <2>1. T \subseteq Nat
    BY <1>4
  <2>2. PICK k \in T : \A y \in T : k <= y
    BY <2>1, Least
  <2>3. k \in 0..n /\ g[k] # Cut(l, p, End(k))
    OBVIOUS
  <2>4. k # 0
    <3>1. ~(b + 0 > p)
      BY <1>2
    <3> QED BY <1>1, <1>5, <2>3, <3>1
  <2>5. k \in 1..n /\ k - 1 \in 0..n /\ ~(k <= k - 1)
    BY <1>4, <2>3, <2>4
  <2>6. g[k - 1] = Cut(l, p, End(k - 1))
    <3>1. k - 1 \notin T
      BY <2>2, <2>5
    <3> QED BY <2>5, <3>1
  <2>7. /\ g[k] = IF b + k > p THEN Append(g[k - 1], l[b + k]) ELSE g[k - 1]
    <3>1. k \in 1..Len(q)
      BY <1>3, <2>5
    <3>2. g[k] = IF q[k].seq > seq THEN Append(g[k - 1], q[k]) ELSE g[k - 1]
      BY <1>1, <3>1
    <3>3. q[k] = l[b + k] /\ (q[k].seq > seq <=> b + k > p)
      BY <3>1 DEF NewerFrom
    <3> QED BY <3>2, <3>3
  <2>8. CASE b + k > p
    <3>1. PICK h : h = b + k - 1
      OBVIOUS
    <3>2. h \in 0..Len(l) /\ h # Len(l) /\ p \in 0..h /\ h + 1 = b + k /\ b + (k - 1) = h
      BY <1>2, <1>4, <2>5, <2>8, <3>1
    <3>3. End(k - 1) = h
      BY <1>2, <2>8, <3>2
    <3>4. Append(Cut(l, p, h), l[h + 1]) = Cut(l, p, h + 1)
      BY <3>2, CutExtend
    <3>5. End(k) = h + 1
      BY <2>8, <3>2
    <3> QED BY <2>3, <2>6, <2>7, <2>8, <3>2, <3>3, <3>4, <3>5
  <2>9. CASE ~(b + k > p)
    <3>1. ~(b + (k - 1) > p)
      BY <1>2, <2>5, <2>9
    <3> QED BY <2>3, <2>6, <2>7, <2>9, <3>1
  <2> QED BY <2>8, <2>9
<1>7. g[n] = Cut(l, p, e)
  <2>1. n \in 0..n
    BY <1>4
  <2>2. End(n) = e
    BY <1>2, <1>4
  <2> QED BY <1>6, <2>1, <2>2
<1> QED BY <1>1, <1>3, <1>7

\* Adjacent stretches in the order of the runs are one.
LEMMA InOrderCut ==
    ASSUME runOrder \in Seq(Runs), NEW piece \in [Runs -> Seq(Frames)], NEW l \in Seq(Frames),
           NEW c \in [0..Len(runOrder) -> 0..Len(l)],
           \A k \in 1..Len(runOrder) : /\ c[k - 1] <= c[k]
                                       /\ piece[runOrder[k]] = Cut(l, c[k - 1], c[k])
    PROVE  c[0] <= c[Len(runOrder)] /\ InOrder(piece) = Cut(l, c[0], c[Len(runOrder)])
<1>1. PICK g : /\ g[0] = <<>>
               /\ \A k \in 1..Len(runOrder) : g[k] = g[k - 1] \o piece[runOrder[k]]
               /\ InOrder(piece) = g[Len(runOrder)]
  BY InOrderSteps
<1>2. PICK m : m = Len(runOrder)
  OBVIOUS
<1>3. m \in Nat /\ 0 \in 0..m /\ Len(l) \in Nat /\ \A k \in 0..m : c[k] \in 0..Len(l)
  <2>1. m \in Nat /\ Len(l) \in Nat
    BY <1>2, LenProperties
  <2>2. 0 \in 0..m
    BY <2>1
  <2>3. \A k \in 0..m : c[k] \in 0..Len(l)
    BY <1>2
  <2> QED BY <2>1, <2>2, <2>3
<1> DEFINE T == {k \in 0..m : ~(c[0] <= c[k] /\ g[k] = Cut(l, c[0], c[k]))}
<1>4. T = {}
  <2> SUFFICES ASSUME T # {} PROVE FALSE
    OBVIOUS
  <2>1. T \subseteq Nat
    BY <1>3
  <2>2. PICK k \in T : \A y \in T : k <= y
    BY <2>1, Least
  <2>3. k \in 0..m /\ ~(c[0] <= c[k] /\ g[k] = Cut(l, c[0], c[k]))
    OBVIOUS
  <2>4. k # 0
    <3>1. PICK z : z = c[0]
      OBVIOUS
    <3>2. z \in 0..Len(l) /\ z \in 0..z /\ z - z = 0 /\ z <= z
      BY <1>3, <3>1
    <3>3. Cut(l, z, z) \in Seq(Frames) /\ Len(Cut(l, z, z)) = 0
      BY <3>2, CutProperties
    <3>4. Cut(l, z, z) = <<>>
      BY <3>3, EmptySeq
    <3> QED BY <1>1, <2>3, <3>1, <3>2, <3>4
  <2>5. k \in 1..m /\ k - 1 \in 0..m /\ ~(k <= k - 1)
    BY <1>3, <2>3, <2>4
  <2>6. c[0] <= c[k - 1] /\ g[k - 1] = Cut(l, c[0], c[k - 1])
    <3>1. k - 1 \notin T
      BY <2>2, <2>5
    <3> QED BY <2>5, <3>1
  <2>7. PICK x : x = c[0]
    OBVIOUS
  <2>8. PICK y : y = c[k - 1]
    OBVIOUS
  <2>9. PICK z : z = c[k]
    OBVIOUS
  <2>10. /\ y <= z /\ piece[runOrder[k]] = Cut(l, y, z)
         /\ g[k] = g[k - 1] \o piece[runOrder[k]]
    BY <1>1, <1>2, <2>5, <2>8, <2>9
  <2>11. x \in 0..Len(l) /\ y \in 0..Len(l) /\ z \in 0..Len(l) /\ x <= y
    BY <1>3, <2>5, <2>6, <2>7, <2>8, <2>9
  <2>12. x \in 0..y /\ y \in 0..z /\ x <= z
    BY <2>10, <2>11
  <2>13. Cut(l, x, y) \o Cut(l, y, z) = Cut(l, x, z)
    BY <2>11, <2>12, CutJoin
  <2> QED BY <2>3, <2>6, <2>7, <2>8, <2>9, <2>10, <2>12, <2>13
<1>5. c[0] <= c[m] /\ g[m] = Cut(l, c[0], c[m])
  <2>1. m \in 0..m
    BY <1>3
  <2> QED BY <1>4, <2>1
<1> QED BY <1>1, <1>2, <1>5

\* A new subscription that is offered the end of what was published.
LEMMA OfferedOk ==
    ASSUME StreamInv, NEW s \in Subs, NEW back, NEW p \in 0..Len(log),
           back = Cut(log, p, Len(log)),
           UNCHANGED <<closed, phase, runOrder, ring, log>>,
           sub' = [sub EXCEPT ![s] = [OfferAll(Opened, back) EXCEPT !.attached = TRUE]],
           at' = [at EXCEPT ![s] = p]
    PROVE  StreamInv'
<1>1. log \in Seq(Frames) /\ Len(log) \in Nat
  BY LenProperties DEF StreamInv, TypeOK
<1>2. PICK h : h = Len(log)
  OBVIOUS
<1>3. h \in 0..Len(log) /\ p \in 0..h /\ h \in p..Len(log) /\ p \in Nat /\ p <= Len(log)
  BY <1>1, <1>2
<1>4. back \in Seq(Frames)
  BY <1>1, <1>2, <1>3, CutProperties
<1>5. PICK v : v = OfferAll(Opened, back)
  OBVIOUS
<1>6. /\ v \in SubStates
      /\ \/ ~v.closed /\ v.queue = back
         \/ v.closed /\ Len(v.queue) = 1 /\ v.queue[1] \in Overflows
  BY <1>4, <1>5, OfferedAll
<1>7. PICK u : u = [v EXCEPT !.attached = TRUE]
  OBVIOUS
<1>8. u \in SubStates /\ u.attached /\ u.queue = v.queue /\ u.closed = v.closed
  BY <1>6, <1>7 DEF SubStates
<1>9. QueueOk(u, p, log)
  <2>1. CASE ~v.closed /\ v.queue = back
    BY <1>1, <1>2, <1>3, <1>8, <2>1, CutIsQueue
  <2>2. CASE v.closed /\ Len(v.queue) = 1 /\ v.queue[1] \in Overflows
    BY <1>3, <1>8, <2>2 DEF QueueOk
  <2> QED BY <1>6, <2>1, <2>2
<1>10. sub' = [sub EXCEPT ![s] = u]
  BY <1>5, <1>7
<1> QED BY <1>3, <1>8, <1>9, <1>10, SubStepOk

\* Where in log the frame with a given number of a run in the order is.
LEMMA FrameAt ==
    ASSUME TypeOK, LogOk, NEW e, Laid(e), NEW j \in 1..Len(runOrder), NEW r, r = runOrder[j],
           NEW q \in 1..log[e[r]].seq
    PROVE  /\ e[r] - log[e[r]].seq + q \in 1..e[r]
           /\ log[e[r] - log[e[r]].seq + q].run = r
           /\ log[e[r] - log[e[r]].seq + q].seq = q
<1>1. /\ e[r] \in 1..Len(log) /\ log[e[r]].run = r /\ log[e[r]].seq \in 1..e[r]
      /\ log \in Seq(Frames)
  BY RingFacts DEF TypeOK
<1>2. Len(log) \in Nat
  BY <1>1, LenProperties
<1>3. e[r] - log[e[r]].seq + q \in 1..e[r]
  BY <1>1, <1>2
<1> QED BY <1>1, <1>3 DEF LogOk

\* A resume position: the frames of the run up to it, and all before the run.
LEMMA PositionIs ==
    ASSUME TypeOK, LogOk, NEW e, Laid(e), NEW j \in 1..Len(runOrder), NEW r, r = runOrder[j],
           NEW seq \in Nat, seq <= log[e[r]].seq
    PROVE  Position(r, seq) = e[r] - log[e[r]].seq + seq
<1>1. /\ r \in Runs /\ e[r] \in 1..Len(log) /\ log[e[r]].run = r /\ log[e[r]].seq \in 1..e[r]
      /\ log \in Seq(Frames)
  BY RingFacts DEF TypeOK
<1>2. Len(log) \in Nat /\ DOMAIN log = 1..Len(log)
  BY <1>1, LenProperties
<1>3. PICK b : b = e[r] - log[e[r]].seq
  OBVIOUS
<1>4. PICK q : q = IF seq = 0 THEN 1 ELSE seq
  OBVIOUS
<1>5. Max({seq, 1}) = q
  <2>1. q \in {seq, 1} /\ \A y \in {seq, 1} : q >= y
    BY <1>4
  <2>2. \A x \in {seq, 1} : (\A y \in {seq, 1} : x >= y) => x = q
    BY <1>4
  <2> QED BY <2>1, <2>2 DEF Max
<1>6. q \in 1..log[e[r]].seq /\ b \in Nat /\ b + q \in 1..Len(log) /\ b + q \in Nat
  BY <1>1, <1>2, <1>3, <1>4, SMTT(30), ZenonT(60), Z3T(60)
<1>7. log[b + q].run = r /\ log[b + q].seq = q
  <2>1. PICK k : k = e[r] - log[e[r]].seq + q
    OBVIOUS
  <2>2. log[k].run = r /\ log[k].seq = q
    <3>1. q \in 1..log[e[r]].seq
      BY <1>6
    <3> QED BY <2>1, <3>1, FrameAt
  <2>3. k = b + q
    BY <1>3, <2>1
  <2> QED BY <2>2, <2>3
<1>8. ASSUME NEW i \in 1..Len(log)
      PROVE  (\E k \in i..Len(log) : log[k].run = r /\ log[k].seq = q) <=> i \in 1..b + q
  <2>1. ASSUME NEW k \in i..Len(log), log[k].run = r, log[k].seq = q PROVE i \in 1..b + q
    <3>1. k \in 1..Len(log)
      BY <1>2
    <3>2. k = b + q
      BY <1>6, <1>7, <2>1, <3>1, SMTT(30), ZenonT(60), Z3T(60) DEF LogOk
    <3> QED BY <1>2, <3>2
  <2>2. ASSUME i \in 1..b + q PROVE b + q \in i..Len(log)
    BY <1>2, <1>6, <2>2
  <2> QED BY <1>7, <2>1, <2>2
<1>s. PICK S : S = {i \in DOMAIN log : \E k \in i..Len(log) :
                      log[k].run = r /\ log[k].seq = Max({seq, 1})}
  OBVIOUS
<1>9. S = 1..b + q
  <2>1. 1..b + q \subseteq 1..Len(log)
    BY <1>2, <1>6
  <2>2. S = {i \in 1..Len(log) : \E k \in i..Len(log) : log[k].run = r /\ log[k].seq = q}
    BY <1>2, <1>5, <1>s
  <2>3. \A i : i \in S <=> i \in 1..Len(log) /\ i \in 1..b + q
    BY <1>8, <2>2
  <2> QED BY <2>1, <2>3
<1>10. Cardinality(S) = b + q
  <2>1. PICK w : w = b + q
    OBVIOUS
  <2>2. w \in Nat
    BY <1>6, <2>1
  <2>3. Cardinality(1..w) = IF 1 > w THEN 0 ELSE w - 1 + 1
    BY <2>2, FS_Interval
  <2>4. S = 1..w
    BY <1>9, <2>1
  <2>5. Cardinality(S) = w
    BY <2>2, <2>3, <2>4
  <2> QED BY <2>1, <2>5
<1>11. Position(r, seq) = Cardinality(S) - (IF seq = 0 THEN 1 ELSE 0)
  BY <1>s DEF Position
<1>12. Cardinality(S) \in Nat /\ b + q - (IF seq = 0 THEN 1 ELSE 0) = b + seq
  BY <1>4, <1>6, <1>10
<1>13. Position(r, seq) = b + seq
  BY <1>4, <1>6, <1>10, <1>11, <1>12
<1> QED BY <1>3, <1>13

\* The position is one to resume from.
Resumes(r, seq) ==
    /\ phase[r] \in {"live", "ended"} /\ ~(seq >= NextSeq(r))
    /\ ~(seq + 1 < ring[r][1].seq)
    /\ \A x \in After(r) : ~(ring[x][1].seq > 1)

LEMMA RefusedOrResumes ==
    ASSUME NEW r, NEW seq, NEW why, why = Refused(r, seq)
    PROVE  \/ why \in {"evicted", "unknown_run"} /\ why # ""
           \/ why = "" /\ Resumes(r, seq)
<1>1. CASE phase[r] \notin {"live", "ended"} \/ seq >= NextSeq(r)
  BY <1>1 DEF Refused
<1>2. CASE /\ ~(phase[r] \notin {"live", "ended"} \/ seq >= NextSeq(r))
           /\ seq + 1 < ring[r][1].seq \/ \E x \in After(r) : ring[x][1].seq > 1
  BY <1>2 DEF Refused
<1>3. CASE /\ ~(phase[r] \notin {"live", "ended"} \/ seq >= NextSeq(r))
           /\ ~(seq + 1 < ring[r][1].seq \/ \E x \in After(r) : ring[x][1].seq > 1)
  BY <1>3 DEF Refused, Resumes
<1> QED BY <1>1, <1>2, <1>3

\* What is offered to a subscription that resumes behind frame seq of run r is
\* what was published after that frame.
LEMMA BacklogIs ==
    ASSUME StreamInv, NEW r \in Runs, NEW seq \in Nat, Resumes(r, seq)
    PROVE  /\ Position(r, seq) \in 0..Len(log)
           /\ Backlog(r, seq) = Cut(log, Position(r, seq), Len(log))
<1>0. TypeOK /\ LogOk
  BY DEF StreamInv
<1>1. PICK e : Laid(e)
  BY DEF StreamInv
<1>2. PICK m : m = Len(runOrder)
  OBVIOUS
<1>3. /\ runOrder \in Seq(Runs) /\ log \in Seq(Frames) /\ m \in Nat /\ Len(log) \in Nat
      /\ DOMAIN runOrder = 1..m /\ ring \in [Runs -> Seq(Frames)]
  BY <1>0, <1>2, InOrderOf, LenProperties DEF TypeOK
<1>4. /\ phase[r] \in {"live", "ended"} /\ ~(seq >= NextSeq(r))
      /\ ~(seq + 1 < ring[r][1].seq)
      /\ \A x \in After(r) : ~(ring[x][1].seq > 1)
  BY DEF Resumes
<1>5. PICK j \in 1..m : runOrder[j] = r
  BY <1>0, <1>2, <1>4, InOrderOf
<1>6. PICK n : n = log[e[r]].seq
  OBVIOUS
<1>7. PICK L : L = Len(ring[r])
  OBVIOUS
<1>8. /\ e[r] \in 1..Len(log) /\ n \in 1..e[r] /\ L \in 1..n /\ ring[r] \in Seq(Frames)
      /\ \A k \in 1..L : /\ ring[r][k] = log[e[r] - L + k]
                         /\ ring[r][k].seq = n - L + k
      /\ NextSeq(r) = n + 1
  <2>1. j \in 1..Len(runOrder) /\ r = runOrder[j]
    BY <1>2, <1>5
  <2>2. /\ e[r] \in 1..Len(log) /\ log[e[r]].seq \in 1..e[r] /\ Len(ring[r]) \in 1..log[e[r]].seq
        /\ ring[r] \in Seq(Frames) /\ NextSeq(r) = log[e[r]].seq + 1
        /\ RingNumbered(e, r)
    BY <1>0, <1>1, <2>1, RingFacts
  <2> QED BY <1>6, <1>7, <2>2 DEF RingNumbered
<1>9. PICK p : p = e[r] - n + seq
  OBVIOUS
<1>10. PICK b : b = e[r] - L
  OBVIOUS
<1>11. PICK h : h = e[r]
  OBVIOUS
<1>12. seq <= n /\ n - L <= seq
  <2>1. seq <= n
    BY <1>4, <1>8
  <2>2. ring[r][1].seq = n - L + 1
    BY <1>8
  <2> QED BY <1>4, <1>8, <2>1, <2>2
<1>13. /\ h \in 0..Len(log) /\ b \in 0..h /\ p \in b..h /\ L = h - b /\ p \in 0..Len(log)
       /\ p <= h
  <2>1. /\ h \in Nat /\ n \in Nat /\ L \in Nat /\ 1 <= n /\ n <= h /\ 1 <= L /\ L <= n
        /\ h <= Len(log) /\ p = h - n + seq /\ b = h - L
    BY <1>3, <1>8, <1>9, <1>10, <1>11, SMTT(30), ZenonT(60), Z3T(60)
  <2> QED BY <1>3, <1>12, <2>1
<1>14. Position(r, seq) = p
  BY <1>0, <1>1, <1>2, <1>5, <1>6, <1>9, <1>12, PositionIs
<1>15. NewerThan(ring[r], seq) = Cut(log, p, h)
  <2>1. ASSUME NEW k \in 1..h - b
        PROVE  ring[r][k] = log[b + k] /\ (ring[r][k].seq > seq <=> b + k > p)
    <3>1. k \in 1..L /\ b + k = e[r] - L + k
      BY <1>10, <1>13
    <3>2. ring[r][k] = log[b + k] /\ ring[r][k].seq = n - L + k
      BY <1>8, <3>1
    <3>3. n - L + k > seq <=> b + k > p
      <4>1. b + k = h - L + k /\ p = h - n + seq
        BY <1>9, <1>10, <1>11
      <4>2. h \in Nat /\ n \in Nat /\ L \in Nat /\ k \in Nat
        BY <1>8, <1>11, <1>13
      <4> QED BY <4>1, <4>2
    <3> QED BY <3>2, <3>3
  <2>2. PICK q : q = ring[r]
    OBVIOUS
  <2>3. q \in Seq(Frames) /\ Len(q) = h - b
    BY <1>7, <1>8, <1>13, <2>2
  <2>4. \A k \in 1..h - b : q[k] = log[b + k] /\ (q[k].seq > seq <=> b + k > p)
    BY <2>1, <2>2
  <2>5. NewerThan(q, seq) = Cut(log, p, h)
    <3>1. log \in Seq(Frames)
      BY <1>3
    <3>2. NewerFrom(log, b, p, q, seq)
      BY <2>3, <2>4 DEF NewerFrom
    <3>3. h \in 0..Len(log) /\ b \in 0..h /\ p \in b..h
      BY <1>13
    <3> QED BY ONLY <2>3, <3>1, <3>2, <3>3, NewerThanCut
  <2> QED BY <2>2, <2>5
<1> DEFINE piece == [x \in Runs |-> IF x = r THEN NewerThan(ring[r], seq)
                                    ELSE IF x \in After(r) THEN ring[x] ELSE <<>>]
           c == [k \in 0..m |-> IF k < j THEN p ELSE e[runOrder[k]]]
<1>16. Backlog(r, seq) = InOrder(piece)
  BY DEF Backlog
<1>17. piece \in [Runs -> Seq(Frames)]
  <2>1. Cut(log, p, h) \in Seq(Frames)
    <3>1. p \in 0..h
      BY <1>13
    <3> QED BY <1>3, <1>13, <3>1, CutProperties
  <2>2. NewerThan(ring[r], seq) \in Seq(Frames) /\ <<>> \in Seq(Frames)
    BY <1>15, <2>1
  <2> QED BY <1>3, <2>2
<1>18. \A k \in 1..m : runOrder[k] \in Runs /\ e[runOrder[k]] \in 1..Len(log)
  BY <1>0, <1>1, <1>2, RingFacts
<1>19. c \in [0..m -> 0..Len(log)]
  <2>1. ASSUME NEW k \in 0..m PROVE (IF k < j THEN p ELSE e[runOrder[k]]) \in 0..Len(log)
    <3>1. CASE k < j
      BY <1>13, <3>1
    <3>2. CASE ~(k < j)
      <4>1. k \in 1..m
        BY <1>3, <3>2
      <4>2. e[runOrder[k]] \in 1..Len(log)
        BY <1>18, <4>1
      <4> QED BY <1>3, <3>2, <4>2
    <3> QED BY <3>1, <3>2
  <2> QED BY <2>1
<1>20. ASSUME NEW k \in 1..m
       PROVE  c[k - 1] <= c[k] /\ piece[runOrder[k]] = Cut(log, c[k - 1], c[k])
  <2>0. k \in 0..m /\ k - 1 \in 0..m /\ k \in Nat /\ j \in Nat
    BY <1>3
  <2>1. /\ c[k] = IF k < j THEN p ELSE e[runOrder[k]]
        /\ c[k - 1] = IF k - 1 < j THEN p ELSE e[runOrder[k - 1]]
    BY <2>0
  <2>2. PICK x : x = runOrder[k]
    OBVIOUS
  <2>3. x \in Runs
    BY <1>18, <2>2
  <2>4. piece[x] = IF x = r THEN NewerThan(ring[r], seq)
                   ELSE IF x \in After(r) THEN ring[x] ELSE <<>>
    BY <2>3
  <2>5. x = r <=> k = j
    BY <1>0, <1>2, <1>5, <2>2, InOrderOf
  <2>6. x \in After(r) <=> j < k
    <3>1. ASSUME x \in After(r) PROVE j < k
      <4>1. PICK i \in 1..m, w \in 1..m : i < w /\ runOrder[i] = r /\ runOrder[w] = x
        BY <1>3, <3>1 DEF After
      <4>2. i = j /\ w = k
        BY <1>0, <1>2, <1>5, <2>2, <4>1, InOrderOf
      <4> QED BY <4>1, <4>2
    <3>2. ASSUME j < k PROVE x \in After(r)
      BY <1>3, <1>5, <2>2, <2>3, <3>2 DEF After
    <3> QED BY <3>1, <3>2
  <2> HIDE DEF c, piece
  <2>7. CASE k < j
    <3>1. piece[x] = <<>> /\ c[k] = p /\ c[k - 1] = p
      BY <2>0, <2>1, <2>4, <2>5, <2>6, <2>7
    <3>2. Cut(log, p, p) = <<>>
      <4>1. p \in 0..p /\ p - p = 0
        BY <1>13
      <4>2. Cut(log, p, p) \in Seq(Frames) /\ Len(Cut(log, p, p)) = 0
        BY <1>3, <1>13, <4>1, CutProperties
      <4> QED BY <4>2, EmptySeq
    <3>3. p <= p
      BY <1>13
    <3> QED BY <2>2, <3>1, <3>2, <3>3
  <2>8. CASE k = j
    <3>1. piece[x] = Cut(log, p, h) /\ c[k] = h /\ c[k - 1] = p
      BY <1>5, <1>11, <1>15, <2>0, <2>1, <2>4, <2>5, <2>8
    <3> QED BY <1>13, <2>2, <3>1
  <2>9. CASE j < k
    <3>1. piece[x] = ring[x] /\ c[k] = e[x] /\ c[k - 1] = e[runOrder[k - 1]]
      BY <2>0, <2>1, <2>2, <2>4, <2>5, <2>6, <2>9
    <3>2. PICK y : y = log[e[x]].seq
      OBVIOUS
    <3>3. k - 1 \in 1..m /\ k - 1 # m /\ k - 1 + 1 = k
      BY <1>3, <2>0, <2>9
    <3>4. e[runOrder[k - 1]] = e[x] - y
      BY <1>1, <1>2, <2>2, <3>2, <3>3 DEF Laid
    <3>5. PICK z : z = Len(ring[x])
      OBVIOUS
    <3>6. /\ e[x] \in 1..Len(log) /\ z \in 1..y /\ y \in 1..e[x]
          /\ ring[x] = Cut(log, e[x] - z, e[x])
          /\ \A i \in 1..z : ring[x][i].seq = y - z + i
      <4>1. k \in 1..Len(runOrder) /\ x = runOrder[k]
        BY <1>2, <2>2
      <4>2. /\ e[x] \in 1..Len(log) /\ log[e[x]].seq \in 1..e[x]
            /\ Len(ring[x]) \in 1..log[e[x]].seq
            /\ ring[x] = Cut(log, e[x] - Len(ring[x]), e[x])
            /\ RingNumbered(e, x)
        BY <1>0, <1>1, <4>1, RingFacts
      <4> QED BY <3>2, <3>5, <4>2 DEF RingNumbered
    <3>7. z = y
      <4>1. 1 \in 1..z
        BY <3>6
      <4>2. ring[x][1].seq = y - z + 1
        BY <3>6, <4>1
      <4>3. ~(y - z + 1 > 1)
        BY <1>4, <2>6, <2>9, <4>2
      <4> QED BY <3>6, <4>3
    <3>8. e[x] - y <= e[x]
      BY <1>3, <3>6
    <3> QED BY <2>2, <3>1, <3>4, <3>6, <3>7, <3>8
  <2> QED BY <2>0, <2>7, <2>8, <2>9
<1>21. c[0] = p /\ c[m] = Len(log)
  <2>1. 0 \in 0..m /\ m \in 0..m /\ 0 < j /\ ~(m < j) /\ m \in 1..m
    BY <1>3
  <2>2. e[runOrder[m]] = Len(log)
    BY <1>1, <1>2, <2>1 DEF Laid
  <2> QED BY <2>1, <2>2
<1> HIDE DEF c, piece
<1>22. InOrder(piece) = Cut(log, c[0], c[m])
  BY <1>2, <1>3, <1>17, <1>19, <1>20, InOrderCut
<1> QED BY <1>13, <1>14, <1>16, <1>21, <1>22

\* What Subscribe makes of the three cases.
LEMMA SubscribeCases ==
    ASSUME NEW s, NEW r, NEW seq, Subscribe(s, r, seq)
    PROVE  \/ closed /\ sub' = [sub EXCEPT ![s] = [Opened EXCEPT !.closed = TRUE]]
           \/ ~closed /\ \E why \in {"evicted", "unknown_run"} :
                 sub' = [sub EXCEPT ![s] = Overflow(Opened, why)]
           \/ /\ ~closed /\ Resumes(r, seq)
              /\ sub' = [sub EXCEPT ![s] =
                            [OfferAll(Opened, Backlog(r, seq)) EXCEPT !.attached = TRUE]]
<1>1. PICK why : why = Refused(r, seq)
  OBVIOUS
<1>2. \/ why \in {"evicted", "unknown_run"} /\ why # ""
      \/ why = "" /\ Resumes(r, seq)
  BY <1>1, RefusedOrResumes
<1>3. CASE closed
  BY <1>3 DEF Subscribe
<1>4. CASE ~closed /\ why # ""
  BY <1>1, <1>2, <1>4 DEF Subscribe
<1>5. CASE ~closed /\ why = ""
  BY <1>1, <1>2, <1>5 DEF Subscribe
<1> QED BY <1>3, <1>4, <1>5

LEMMA SubscribeOk ==
    ASSUME StreamInv, NEW s \in Subs, NEW r \in Runs, NEW seq \in Nat, Subscribe(s, r, seq)
    PROVE  StreamInv'
<1>1. log \in Seq(Frames) /\ Len(log) \in Nat /\ sub \in [Subs -> SubStates]
  BY LenProperties DEF StreamInv, TypeOK, SubStates
<1>2. PICK a : a = Len(log)
  OBVIOUS
<1>3. /\ UNCHANGED <<closed, phase, runOrder, ring, log>>
      /\ at' = [at EXCEPT ![s] = IF sub'[s].attached THEN Position(r, seq) ELSE a]
  BY <1>2 DEF Subscribe
<1>4. CASE sub' = [sub EXCEPT ![s] = [Opened EXCEPT !.closed = TRUE]]
  <2>1. PICK u : u = [Opened EXCEPT !.closed = TRUE]
    OBVIOUS
  <2>2. u \in SubStates /\ u.queue = <<>> /\ ~u.attached /\ u.closed
    BY <2>1, OpenedIs
  <2>3. sub' = [sub EXCEPT ![s] = u]
    BY <1>4, <2>1
  <2>4. sub'[s] = u
    BY <1>1, <2>3
  <2>5. at' = [at EXCEPT ![s] = a]
    BY <1>3, <2>2, <2>4
  <2>6. QueueOk(u, a, log)
    BY <1>1, <1>2, <2>2, EmptyQueueOk
  <2> QED BY <1>1, <1>2, <1>3, <2>2, <2>3, <2>5, <2>6, SubStepOk
<1>5. ASSUME NEW why \in {"evicted", "unknown_run"}, sub' = [sub EXCEPT ![s] = Overflow(Opened, why)]
      PROVE  StreamInv'
  <2>1. PICK u : u = Overflow(Opened, why)
    OBVIOUS
  <2>2. u \in SubStates /\ ~u.attached
    BY <2>1, OpenedIs, OverflowType
  <2>3. sub' = [sub EXCEPT ![s] = u]
    BY <1>5, <2>1
  <2>4. sub'[s] = u
    BY <1>1, <2>3
  <2>5. at' = [at EXCEPT ![s] = a]
    BY <1>3, <2>2, <2>4
  <2>6. QueueOk(u, a, log)
    BY <1>1, <1>2, <2>1, OpenedIs, NoticeIsQueue
  <2> QED BY <1>1, <1>2, <1>3, <2>2, <2>3, <2>5, <2>6, SubStepOk
<1>6. CASE /\ Resumes(r, seq)
           /\ sub' = [sub EXCEPT ![s] =
                         [OfferAll(Opened, Backlog(r, seq)) EXCEPT !.attached = TRUE]]
  <2>1. PICK back : back = Backlog(r, seq)
    OBVIOUS
  <2>2. PICK p : p = Position(r, seq)
    OBVIOUS
  <2>3. p \in 0..Len(log) /\ back = Cut(log, p, Len(log))
    BY <1>6, <2>1, <2>2, BacklogIs
  <2>4. sub' = [sub EXCEPT ![s] = [OfferAll(Opened, back) EXCEPT !.attached = TRUE]]
    BY <1>6, <2>1
  <2>5. sub'[s].attached
    <3>1. back \in Seq(Frames)
      <4>1. Len(log) \in 0..Len(log)
        BY <1>1
      <4> QED BY <1>1, <2>3, <4>1, CutProperties
    <3>2. OfferAll(Opened, back) \in SubStates
      BY <3>1, OfferedAll
    <3> QED BY <1>1, <2>4, <3>2 DEF SubStates
  <2>6. at' = [at EXCEPT ![s] = p]
    BY <1>3, <2>2, <2>5
  <2> QED BY <1>3, <2>3, <2>4, <2>6, OfferedOk
<1> QED BY <1>4, <1>5, <1>6, SubscribeCases

\* What SubscribeActive replays is what the run in flight published, if any
\* is and its start is kept.
LEMMA ActiveBacklogIs ==
    ASSUME StreamInv
    PROVE  \E p \in 0..Len(log) :
              InOrder([x \in Runs |-> IF Replayable(x) THEN ring[x] ELSE <<>>])
                = Cut(log, p, Len(log))
<1>0. TypeOK /\ LogOk /\ OrderOk
  BY DEF StreamInv
<1>1. PICK e : Laid(e)
  BY DEF StreamInv
<1>2. PICK m : m = Len(runOrder)
  OBVIOUS
<1>3. /\ runOrder \in Seq(Runs) /\ log \in Seq(Frames) /\ m \in Nat /\ Len(log) \in Nat
      /\ ring \in [Runs -> Seq(Frames)] /\ Len(log) \in 0..Len(log)
  BY <1>0, <1>2, InOrderOf, LenProperties DEF TypeOK
<1> DEFINE piece == [x \in Runs |-> IF Replayable(x) THEN ring[x] ELSE <<>>]
<1>4. piece \in [Runs -> Seq(Frames)]
  <2>1. <<>> \in Seq(Frames)
    OBVIOUS
  <2> QED BY <1>3, <2>1
<1>5. PICK p \in 0..Len(log) :
         m # 0 => piece[runOrder[m]] = Cut(log, p, Len(log))
  <2>1. CASE m = 0
    BY <1>3, <2>1
  <2>2. CASE m # 0
    <3>1. PICK x : x = runOrder[m]
      OBVIOUS
    <3>2. m \in 1..m
      BY <1>3, <2>2
    <3>3. /\ x \in Runs /\ e[x] = Len(log) /\ Len(ring[x]) \in 1..log[e[x]].seq
          /\ log[e[x]].seq \in 1..e[x] /\ ring[x] = Cut(log, e[x] - Len(ring[x]), e[x])
      <4>1. e[x] = Len(log)
        BY <1>1, <1>2, <3>1, <3>2 DEF Laid
      <4>2. m \in 1..Len(runOrder) /\ x = runOrder[m]
        BY <1>2, <3>1, <3>2
      <4>3. /\ x \in Runs /\ Len(ring[x]) \in 1..log[e[x]].seq /\ log[e[x]].seq \in 1..e[x]
            /\ ring[x] = Cut(log, e[x] - Len(ring[x]), e[x])
        BY <1>0, <1>1, <4>2, RingFacts
      <4> QED BY <4>1, <4>3
    <3>4. CASE Replayable(x)
      <4>1. PICK y : y = Len(log) - Len(ring[x])
        OBVIOUS
      <4>2. y \in 0..Len(log)
        BY <1>3, <3>3, <4>1
      <4>3. piece[x] = Cut(log, y, Len(log))
        BY <3>3, <3>4, <4>1
      <4> QED BY <3>1, <4>2, <4>3
    <3>5. CASE ~Replayable(x)
      <4>1. Cut(log, Len(log), Len(log)) = <<>>
        <5>1. PICK y : y = Len(log)
          OBVIOUS
        <5>2. y \in 0..Len(log) /\ y \in 0..y /\ y - y = 0
          BY <1>3, <5>1
        <5>3. Cut(log, y, y) \in Seq(Frames) /\ Len(Cut(log, y, y)) = 0
          BY <1>3, <5>2, CutProperties
        <5>4. Cut(log, y, y) = <<>>
          BY <5>3, EmptySeq
        <5> QED BY <5>1, <5>4
      <4>2. piece[x] = <<>>
        BY <3>3, <3>5
      <4> QED BY <1>3, <3>1, <4>1, <4>2
    <3> QED BY <3>4, <3>5
  <2> QED BY <2>1, <2>2
<1>6. Cut(log, p, p) = <<>>
  <2>1. p \in 0..p /\ p - p = 0
    BY <1>3
  <2>2. Cut(log, p, p) \in Seq(Frames) /\ Len(Cut(log, p, p)) = 0
    BY <1>3, <2>1, CutProperties
  <2> QED BY <2>2, EmptySeq
<1>7. CASE m = 0
  <2>1. PICK g : /\ g[0] = <<>>
                 /\ \A k \in 1..Len(runOrder) : g[k] = g[k - 1] \o piece[runOrder[k]]
                 /\ InOrder(piece) = g[Len(runOrder)]
    <3> HIDE DEF piece
    <3> QED BY <1>3, <1>4, InOrderSteps
  <2>2. InOrder(piece) = <<>>
    BY <1>2, <1>7, <2>1
  <2>3. PICK y : y = Len(log)
    OBVIOUS
  <2>4. y \in 0..Len(log) /\ y \in 0..y /\ y - y = 0
    BY <1>3, <2>3
  <2>5. Cut(log, y, y) \in Seq(Frames) /\ Len(Cut(log, y, y)) = 0
    BY <1>3, <2>4, CutProperties
  <2>6. Cut(log, y, y) = <<>>
    BY <2>5, EmptySeq
  <2> QED BY <2>2, <2>3, <2>4, <2>6
<1>8. CASE m # 0
  <2> DEFINE c == [k \in 0..m |-> IF k < m THEN p ELSE Len(log)]
  <2>1. c \in [0..m -> 0..Len(log)]
    BY <1>3
  <2>2. ASSUME NEW k \in 1..m
        PROVE  c[k - 1] <= c[k] /\ piece[runOrder[k]] = Cut(log, c[k - 1], c[k])
    <3>1. k \in 0..m /\ k - 1 \in 0..m /\ k - 1 < m
      BY <1>3
    <3>2. c[k - 1] = p /\ c[k] = IF k < m THEN p ELSE Len(log)
      BY <3>1
    <3>3. p <= p /\ p <= Len(log)
      BY <1>3
    <3>4. CASE k = m
      <4>1. ~(k < m)
        BY <1>3, <3>4
      <4> QED BY <1>5, <1>8, <3>2, <3>3, <3>4, <4>1
    <3>5. CASE k # m
      <4>1. k < m
        BY <1>3, <3>5
      <4>2. m \in 1..m
        BY <1>3, <1>8
      <4>3. runOrder[k] # runOrder[m] /\ runOrder[k] \in Runs
        BY <1>0, <1>2, <3>5, <4>2, InOrderOf
      <4>4. phase[runOrder[k]] # "live"
        BY <1>0, <1>2, <4>3 DEF OrderOk
      <4>5. piece[runOrder[k]] = <<>>
        BY <4>3, <4>4 DEF Replayable
      <4> QED BY <1>6, <3>2, <3>3, <4>1, <4>5
    <3> QED BY <3>4, <3>5
  <2>3. c[0] = p /\ c[m] = Len(log)
    <3>1. 0 \in 0..m /\ m \in 0..m /\ 0 < m /\ ~(m < m)
      BY <1>3, <1>8
    <3> QED BY <3>1
  <2> HIDE DEF c, piece
  <2>4. InOrder(piece) = Cut(log, c[0], c[m])
    BY <1>2, <1>3, <1>4, <2>1, <2>2, InOrderCut
  <2> QED BY <2>3, <2>4 DEF piece
<1> QED BY <1>7, <1>8

LEMMA SubscribeActiveOk == ASSUME StreamInv, NEW s \in Subs, SubscribeActive(s) PROVE StreamInv'
<1>1. log \in Seq(Frames) /\ Len(log) \in Nat /\ Len(log) \in 0..Len(log)
  BY LenProperties DEF StreamInv, TypeOK
<1>2. PICK back : back = InOrder([x \in Runs |-> IF Replayable(x) THEN ring[x] ELSE <<>>])
  OBVIOUS
<1>3. PICK p \in 0..Len(log) : back = Cut(log, p, Len(log))
  BY <1>2, ActiveBacklogIs
<1>4. /\ UNCHANGED <<closed, phase, runOrder, ring, log>>
      /\ sub' = [sub EXCEPT ![s] = IF closed THEN [Opened EXCEPT !.closed = TRUE]
                                   ELSE [OfferAll(Opened, back) EXCEPT !.attached = TRUE]]
      /\ at' = [at EXCEPT ![s] = Len(log) - Len(back)]
  BY <1>2 DEF SubscribeActive
<1>5. at' = [at EXCEPT ![s] = p]
  <2>1. Len(back) = Len(log) - p
    BY <1>1, <1>3, CutProperties
  <2>2. Len(log) - Len(back) = p
    BY <1>1, <2>1
  <2> QED BY <1>4, <2>2
<1>6. CASE closed
  <2>1. PICK u : u = [Opened EXCEPT !.closed = TRUE]
    OBVIOUS
  <2>2. u \in SubStates /\ u.queue = <<>> /\ ~u.attached
    BY <2>1, OpenedIs
  <2>3. sub' = [sub EXCEPT ![s] = u]
    BY <1>4, <1>6, <2>1
  <2>4. QueueOk(u, p, log) /\ p \in Nat
    BY <1>1, <2>2, EmptyQueueOk
  <2> QED BY <1>4, <1>5, <2>2, <2>3, <2>4, SubStepOk
<1>7. CASE ~closed
  BY <1>3, <1>4, <1>5, <1>7, OfferedOk
<1> QED BY <1>6, <1>7

-----------------------------------------------------------------------------
(* The theorems of the stream.                                             *)

LEMMA InitOk == Init => StreamInv
<1> SUFFICES ASSUME Init PROVE StreamInv
  OBVIOUS
<1>1. /\ runOrder = <<>> /\ log = <<>> /\ Len(log) = 0 /\ Len(runOrder) = 0 /\ DOMAIN runOrder = {}
      /\ log \in Seq(Frames) /\ runOrder \in Seq(Runs)
      /\ phase = [r \in Runs |-> "new"] /\ ring = [r \in Runs |-> <<>>]
      /\ sub = [s \in Subs |-> NewSub] /\ at = [s \in Subs |-> 0] /\ closed = FALSE
  BY EmptySeq DEF Init
<1>2. TypeOK
  <2>1. IsInjective(runOrder) /\ Range(runOrder) = {r \in Runs : phase[r] \in {"live", "ended"}}
    BY <1>1 DEF IsInjective, Range
  <2>2. sub \in [Subs -> SubStates]
    BY <1>1, OpenedIs
  <2>3. ring \in [Runs -> Seq(Frames)]
    BY <1>1
  <2> QED BY <1>1, <2>1, <2>2, <2>3 DEF TypeOK, SubStates
<1>3. LogOk /\ OrderOk
  BY <1>1 DEF LogOk, OrderOk
<1>4. \E e : Laid(e)
  <2>1. [r \in Runs |-> 0] \in [Runs -> Nat]
    OBVIOUS
  <2>2. PICK e : e = [r \in Runs |-> 0]
    OBVIOUS
  <2>3. Laid(e)
    BY <1>1, <2>1, <2>2 DEF Laid
  <2> QED BY <2>3
<1>5. ASSUME NEW s \in Subs PROVE SubOk(s)
  <2>1. sub[s] \in SubStates /\ sub[s].queue = <<>> /\ ~sub[s].attached /\ at[s] = 0
    BY <1>1, OpenedIs DEF NewSub
  <2>2. PICK a : a = at[s]
    OBVIOUS
  <2>3. a \in Nat /\ a <= Len(log)
    BY <1>1, <2>1, <2>2
  <2>4. QueueOk(sub[s], a, log)
    BY <1>1, <2>1, <2>3, EmptyQueueOk
  <2> QED BY <2>2, <2>4 DEF SubOk
<1> QED BY <1>2, <1>3, <1>4, <1>5 DEF StreamInv

\* A step that leaves the stream alone.
LEMMA StreamIdle == ASSUME StreamInv, UNCHANGED vars PROVE StreamInv'
<1>1. UNCHANGED <<closed, phase, runOrder, ring, log, sub, at>>
  BY DEF vars
<1>2. TypeOK' /\ LogOk' /\ OrderOk'
  BY <1>1 DEF StreamInv, TypeOK, LogOk, OrderOk
<1>3. (\E e : Laid(e))' /\ \A s \in Subs : SubOk(s)'
  BY <1>1 DEF StreamInv, Laid, SubOk
<1> QED BY <1>2, <1>3 DEF StreamInv

LEMMA HubOk == ASSUME StreamInv, HubNext PROVE StreamInv'
<1>1. ASSUME NEW r \in Runs, NEW size \in Sizes, Publish(r, size) PROVE StreamInv'
  BY <1>1, PublishOk
<1>2. ASSUME NEW r \in Runs, EndRun(r) PROVE StreamInv'
  BY <1>2, EndRunOk
<1>3. ASSUME NEW r \in Runs, PurgeRun(r) PROVE StreamInv'
  BY <1>3, PurgeRunOk
<1>4. CASE CloseHub
  BY <1>4, CloseHubOk
<1> QED BY <1>1, <1>2, <1>3, <1>4 DEF HubNext

LEMMA StreamStep == ASSUME StreamInv, [Next]_vars PROVE StreamInv'
<1>1. CASE HubNext
  BY <1>1, HubOk
<1>2. ASSUME NEW s \in Subs, SubscribeLive(s) PROVE StreamInv'
  BY <1>2, SubscribeLiveOk
<1>3. ASSUME NEW s \in Subs, SubscribeActive(s) PROVE StreamInv'
  BY <1>3, SubscribeActiveOk
<1>4. ASSUME NEW s \in Subs, NEW r \in Runs, NEW seq \in 0..MaxFrames, Subscribe(s, r, seq)
      PROVE  StreamInv'
  <2>1. seq \in Nat
    BY StreamAssumption
  <2> QED BY <1>4, <2>1, SubscribeOk
<1>5. ASSUME NEW s \in Subs, TakeFrame(s) PROVE StreamInv'
  BY <1>5, TakeFrameOk
<1>6. ASSUME NEW s \in Subs, CloseSub(s) PROVE StreamInv'
  BY <1>6, CloseSubOk
<1>7. CASE UNCHANGED vars
  BY <1>7, StreamIdle
<1> QED BY <1>1, <1>2, <1>3, <1>4, <1>5, <1>6, <1>7 DEF Next

\* What the stream of a chat keeps at every moment: whatever is published,
\* evicted, purged, resumed, taken or closed.
LEMMA StreamAlways == Spec => []StreamInv
<1>1. Init => StreamInv
  BY InitOk
<1>2. StreamInv /\ [Next]_vars => StreamInv'
  BY StreamStep
<1> QED BY <1>1, <1>2, PTL DEF Spec

\* The hub's record of a chat is well formed at every moment: the runs of the
\* chat are those in flight or in their grace, each once.
THEOREM StreamTypesHold == Spec => []TypeOK
<1>1. StreamInv => TypeOK
  BY DEF StreamInv
<1> QED BY <1>1, StreamAlways, PTL

LEMMA Lossless == StreamInv => LosslessOrOverflow
<1> SUFFICES ASSUME StreamInv, NEW s \in Subs, sub[s].attached, ~sub[s].closed
             PROVE  sub[s].queue = SubSeq(log, at[s] + 1, Len(log))
  BY DEF LosslessOrOverflow
<1>1. sub[s] \in SubStates /\ at[s] \in Nat /\ log \in Seq(Frames) /\ QueueOk(sub[s], at[s], log)
  BY SubIs DEF StreamInv, SubOk, TypeOK
<1>2. PICK h \in at[s]..Len(log) : sub[s].queue = Cut(log, at[s], h) /\ h = Len(log)
  BY <1>1, QueueIsCut
<1> QED BY <1>2 DEF Cut

\* N4, N5: an open subscription has queued exactly what was published after the
\* position of its reader, whichever way it was opened (Subscribe, its replay
\* of the rings, SubscribeActive) and whatever was evicted or purged since.
THEOREM LosslessHolds == Spec => []LosslessOrOverflow
BY Lossless, StreamAlways, PTL

LEMMA NoHole == StreamInv => EndsWithoutHole
<1> SUFFICES ASSUME StreamInv, NEW s \in Subs, sub[s].closed, sub[s].queue # <<>>
             PROVE  \/ Len(sub[s].queue) = 1 /\ Overflowed(s)
                    \/ sub[s].queue = SubSeq(log, at[s] + 1, at[s] + Len(sub[s].queue))
  BY DEF EndsWithoutHole
<1>1. sub[s] \in SubStates /\ at[s] \in Nat /\ log \in Seq(Frames) /\ QueueOk(sub[s], at[s], log)
  BY SubIs DEF StreamInv, SubOk, TypeOK
<1>2. CASE Len(sub[s].queue) = 1 /\ sub[s].queue[1] \in Overflows
  <2>1. sub[s].queue \in Seq(Frames \cup Overflows)
    BY <1>1 DEF SubStates
  <2>2. 1 \in DOMAIN sub[s].queue
    BY <1>2, <2>1, LenProperties
  <2> QED BY <1>2, <2>2 DEF Overflowed
<1>3. CASE sub[s].queue = Cut(log, at[s], at[s] + Len(sub[s].queue))
  BY <1>3 DEF Cut
<1> QED BY <1>1, <1>2, <1>3 DEF QueueOk

\* A subscription that was closed, cancelled or overflowed (Subscription.Close,
\* Hub.Close, offer) leaves its reader no hole: what is left in its queue is the
\* notice alone, or the frames that come next.
THEOREM EndsWithoutHoleHolds == Spec => []EndsWithoutHole
BY NoHole, StreamAlways, PTL

-----------------------------------------------------------------------------
(* The tab.  What is on its way to it is one stretch of log after the      *)
(* other, with an overflow notice between two of them, and the first one   *)
(* goes on where the drafts end, as long as the frames of two              *)
(* subscriptions cannot meet.                                              *)

\* The frames from position x of log on continue every draft: the last delta
\* of a draft is no earlier than the one before x, or its run is over by then.
Joined(x) ==
    \A r \in Runs : draft[r] # <<>> =>
        \E i \in 1..Len(log) :
            /\ log[i].run = r /\ log[i].seq = seqByRun[r]
            /\ draft[r][Len(draft[r])] = seqByRun[r]
            /\ x <= i + 1 \/ (i + 1 <= Len(log) /\ log[i + 1].run # r)

\* A subscription that has something to send, or may have.
More(s) == sub[s].used /\ (sub[s].queue # <<>> \/ ~sub[s].closed)

Noticed(s) == sub[s].queue # <<>> /\ sub[s].queue[1] \in Overflows

Unused == \A s \in Subs : ~sub[s].used

SubsOk ==
    \A s \in Subs : /\ ~sub[s].used => sub[s].queue = <<>> /\ ~sub[s].closed /\ ~sub[s].attached
                    /\ Noticed(s) => sub[s].closed
                    /\ sub[s].closed => closed \/ Noticed(s)

SocketOk ==
    /\ conn = "live" => \A i \in 1..Len(down) : down[i] # Hello
    /\ conn # "live" => up = <<>> /\ Unused
    /\ conn = "offline" => down = <<>>
    /\ conn = "connecting" => down = <<Hello>>

DownLogged == \A i \in 1..Len(down) : down[i] \in Frames => \E k \in 1..Len(log) : log[k] = down[i]

DownInOrder ==
    \A i \in 1..Len(down) : down[i] \in Frames /\ i + 1 <= Len(down) /\ down[i + 1] \in Frames =>
        \E k \in 1..Len(log) : log[k] = down[i] /\ k + 1 <= Len(log) /\ log[k + 1] = down[i + 1]

\* What a subscription sends next follows what is on its way.
SubFollows ==
    \A s \in Subs : More(s) /\ down # <<>> /\ down[Len(down)] \in Frames =>
        at[s] # 0 /\ log[at[s]] = down[Len(down)]

\* What comes next continues the drafts.
DownJoins ==
    down # <<>> /\ down[1] \in Frames => \E k \in 1..Len(log) : log[k] = down[1] /\ Joined(k)

SubJoins == \A s \in Subs : down = <<>> /\ More(s) /\ ~Noticed(s) => Joined(at[s] + 1)

\* A subscription is over only when the hub is closed or its reader was told.
NoneLeft ==
    Unused /\ ~closed =>
        /\ down = <<>> \/ down[Len(down)] \notin Frames
        /\ conn = "live" /\ down = <<>> => last = Nil \/ (up # <<>> /\ up[1].last = last)

\* What the tab asks for: a position only first of all on a new connection.
UpAsks ==
    \A i \in 1..Len(up) : /\ up[i].op = "sub"
                          /\ up[i].last # Nil => i = 1 /\ up[i].last = last /\ down = <<>> /\ Unused

OneSub == \A s \in Subs : sub[s].used => cur = s

LastJoins ==
    /\ last = Nil => draft = NoDrafts
    /\ last # Nil => \E i \in 1..Len(log) :
                        log[i].run = last[1] /\ log[i].seq = last[2] /\ Joined(i + 1)

Flow ==
    /\ DownLogged /\ DownInOrder /\ SubFollows /\ DownJoins /\ SubJoins
    /\ NoneLeft /\ UpAsks /\ OneSub /\ LastJoins

FeedInv ==
    /\ StreamInv /\ FTypeOK /\ SubsOk /\ SocketOk
    /\ mounted /\ ~crossed => Flow
    /\ NoHoleInDraft

\* Log only grows.
Extends ==
    /\ Len(log) \in Nat /\ Len(log') \in Nat /\ Len(log) <= Len(log')
    /\ \A k \in 1..Len(log) : k \in 1..Len(log') /\ log'[k] = log[k]

LEMMA ExtendsSame == ASSUME StreamInv, log' = log PROVE Extends
BY LenProperties DEF Extends, StreamInv, TypeOK

LEMMA ExtendsAppend == ASSUME log \in Seq(Frames), NEW f \in Frames, log' = Append(log, f) PROVE Extends
BY LenProperties, AppendProperties DEF Extends

LEMMA JoinedGrows ==
    ASSUME Extends, UNCHANGED <<draft, seqByRun>>, NEW x, Joined(x)
    PROVE  Joined(x)'
<1> SUFFICES ASSUME NEW r \in Runs, draft[r] # <<>>
             PROVE  \E i \in 1..Len(log') :
                       /\ log'[i].run = r /\ log'[i].seq = seqByRun[r]
                       /\ draft[r][Len(draft[r])] = seqByRun[r]
                       /\ x <= i + 1 \/ (i + 1 <= Len(log') /\ log'[i + 1].run # r)
  BY DEF Joined
<1>1. PICK i \in 1..Len(log) :
         /\ log[i].run = r /\ log[i].seq = seqByRun[r]
         /\ draft[r][Len(draft[r])] = seqByRun[r]
         /\ x <= i + 1 \/ (i + 1 <= Len(log) /\ log[i + 1].run # r)
  BY DEF Joined
<1>2. i \in 1..Len(log') /\ log'[i] = log[i]
  BY DEF Extends
<1>3. CASE x <= i + 1
  BY <1>1, <1>2, <1>3
<1>4. CASE i + 1 <= Len(log) /\ log[i + 1].run # r
  <2>1. i + 1 \in 1..Len(log)
    BY <1>4 DEF Extends
  <2>2. i + 1 <= Len(log') /\ log'[i + 1] = log[i + 1]
    BY <2>1 DEF Extends
  <2> QED BY <1>1, <1>2, <1>4, <2>2
<1> QED BY <1>1, <1>3, <1>4

\* A frame is in log once.
LEMMA LogOnce ==
    ASSUME LogOk, NEW i \in 1..Len(log), NEW k \in 1..Len(log), log[i] = log[k]
    PROVE  i = k
BY DEF LogOk

\* Between two frames of a run are the frames of the run between them.
LEMMA LogBetween ==
    ASSUME StreamInv, NEW i \in 1..Len(log), NEW k \in 1..Len(log),
           log[i].run = log[k].run, log[i].seq < log[k].seq
    PROVE  /\ i < k /\ log[k].seq = log[i].seq + (k - i)
           /\ log[i + 1].run = log[i].run /\ i + 1 <= k
<1>1. LogOk /\ Len(log) \in Nat
  BY LenProperties DEF StreamInv, TypeOK
<1>2. PICK t : t = log[k].seq
  OBVIOUS
<1>3. PICK q : q = log[i].seq
  OBVIOUS
<1>4. t \in 1..k /\ q \in 1..i /\ q < t
  BY <1>1, <1>2, <1>3 DEF LogOk
<1>5. q \in 1..t /\ q + 1 \in 1..t /\ k - t + q \in 1..Len(log)
  BY <1>1, <1>4
<1>6. log[k - t + q].run = log[k].run /\ log[k - t + q].seq = q
  BY <1>1, <1>2, <1>5 DEF LogOk
<1>7. i = k - t + q
  BY <1>1, <1>3, <1>5, <1>6, SMTT(30), ZenonT(60), Z3T(60) DEF LogOk
<1>8. i < k /\ t = q + (k - i) /\ i + 1 <= k /\ k - t + (q + 1) = i + 1
  BY <1>4, <1>7
<1>9. log[k - t + (q + 1)].run = log[k].run
  BY <1>1, <1>2, <1>5 DEF LogOk
<1> QED BY <1>2, <1>3, <1>8, <1>9

-----------------------------------------------------------------------------
(* The stream under the socket.                                            *)

\* The socket closes: all its subscriptions are gone.
LEMMA AllResetOk ==
    ASSUME StreamInv, UNCHANGED <<closed, phase, runOrder, ring, log, at>>,
           sub' = [s \in Subs |-> NewSub]
    PROVE  StreamInv'
<1>1. TypeOK /\ LogOk /\ OrderOk /\ log \in Seq(Frames)
  BY DEF StreamInv, TypeOK
<1>2. sub' \in [Subs -> SubStates]
  BY OpenedIs
<1>3. TypeOK'
  BY <1>1, <1>2 DEF TypeOK, SubStates
<1>4. LogOk'
  BY <1>1 DEF LogOk
<1>5. OrderOk'
  BY <1>1 DEF OrderOk
<1>6. (\E e : Laid(e))'
  BY DEF StreamInv, Laid
<1>7. ASSUME NEW s \in Subs PROVE SubOk(s)'
  <2>1. sub'[s] = NewSub /\ at[s] \in Nat /\ at[s] <= Len(log)
    BY <1>1 DEF StreamInv, SubOk, QueueOk, TypeOK
  <2>2. PICK u : u = NewSub
    OBVIOUS
  <2>3. u \in SubStates /\ u.queue = <<>> /\ ~u.attached
    BY <2>2, OpenedIs DEF NewSub
  <2>4. QueueOk(u, at[s], log)
    BY <1>1, <2>1, <2>3, EmptyQueueOk
  <2> QED BY <2>1, <2>2, <2>4 DEF SubOk
<1> QED BY <1>3, <1>4, <1>5, <1>6, <1>7 DEF StreamInv

LEMMA NewSubOk ==
    ASSUME StreamInv, NEW s \in Subs, UNCHANGED <<closed, phase, runOrder, ring, log, at>>,
           sub' = [sub EXCEPT ![s] = NewSub]
    PROVE  StreamInv'
<1>1. PICK u : u = NewSub
  OBVIOUS
<1>2. u \in SubStates /\ u.queue = <<>> /\ ~u.attached
  BY <1>1, OpenedIs DEF NewSub
<1> QED BY <1>1, <1>2, ResetOk

\* What the tab asks the hub for.
UpMsgs == [op : {"sub", "unsub"}, last : {Nil} \cup (Runs \X Nat)]

LEMMA UpHead ==
    ASSUME FTypeOK, up # <<>>
    PROVE  /\ Head(up) = up[1] /\ up[1] \in UpMsgs
           /\ Tail(up) \in Seq(UpMsgs) /\ Len(up) \in Nat \ {0} /\ Len(Tail(up)) = Len(up) - 1
           /\ \A i \in 1..Len(up) - 1 : Tail(up)[i] = up[i + 1]
<1>1. up \in Seq(UpMsgs)
  BY DEF FTypeOK, UpMsgs
<1>2. Len(up) \in Nat \ {0}
  BY <1>1, LenProperties, EmptySeq
<1>3. up[1] \in UpMsgs
  BY <1>1, <1>2, ElementOfSeq
<1> QED BY <1>1, <1>2, <1>3, HeadTailProperties

Items == Frames \cup Overflows \cup {Hello}

LEMMA DownHead ==
    ASSUME FTypeOK, down # <<>>
    PROVE  /\ Head(down) = down[1] /\ down[1] \in Items
           /\ Tail(down) \in Seq(Items) /\ Len(down) \in Nat \ {0} /\ Len(Tail(down)) = Len(down) - 1
           /\ \A i \in 1..Len(down) - 1 : Tail(down)[i] = down[i + 1] /\ i + 1 \in 1..Len(down)
           /\ Len(down) = 1 => Tail(down) = <<>>
           /\ Len(down) # 1 => Tail(down) # <<>>
<1>1. down \in Seq(Items)
  BY DEF FTypeOK, Items
<1>2. Len(down) \in Nat \ {0}
  BY <1>1, LenProperties, EmptySeq
<1>3. down[1] \in Items
  BY <1>1, <1>2, ElementOfSeq
<1>4. /\ Tail(down) \in Seq(Items) /\ Len(Tail(down)) = Len(down) - 1
      /\ \A i \in 1..Len(down) - 1 : Tail(down)[i] = down[i + 1]
      /\ Head(down) = down[1]
  BY <1>1, HeadTailProperties
<1>5. Len(down) = 1 => Tail(down) = <<>>
  <2>1. Len(down) = 1 => Len(Tail(down)) = 0
    BY <1>4
  <2> QED BY <1>4, <2>1, EmptySeq
<1>6. Len(down) # 1 => Tail(down) # <<>>
  <2>1. Len(down) # 1 => Len(Tail(down)) # 0
    BY <1>2, <1>4
  <2> QED BY <2>1, EmptySeq
<1>7. \A i \in 1..Len(down) - 1 : i + 1 \in 1..Len(down)
  BY <1>2
<1> QED BY <1>2, <1>3, <1>4, <1>5, <1>6, <1>7

LEMMA HandleSubIs ==
    ASSUME FTypeOK, NEW s \in Subs, HandleSub(s)
    PROVE  \/ up[1].last = Nil /\ SubscribeActive(s)
           \/ \E r \in Runs, seq \in Nat : up[1].last = <<r, seq>> /\ up[1].last # Nil /\ Subscribe(s, r, seq)
<1>1. up # <<>> /\ Head(up) = up[1] /\ up[1] \in UpMsgs
  BY UpHead DEF HandleSub
<1>2. CASE up[1].last = Nil
  BY <1>1, <1>2 DEF HandleSub
<1>3. CASE up[1].last # Nil
  <2>1. up[1].last \in Runs \X Nat
    BY <1>1, <1>3 DEF UpMsgs
  <2>2. PICK r \in Runs, seq \in Nat : up[1].last = <<r, seq>>
    BY <2>1
  <2>a. up[1].last[1] = r /\ up[1].last[2] = seq
    BY <2>2
  <2>b. Subscribe(s, up[1].last[1], up[1].last[2])
    BY <1>1, <1>3 DEF HandleSub
  <2>3. Subscribe(s, r, seq)
    BY <2>a, <2>b
  <2> QED BY <1>3, <2>2, <2>3
<1> QED BY <1>2, <1>3

LEMMA FeedStream == ASSUME StreamInv, FTypeOK, [FNext]_fvars PROVE StreamInv'
<1>1. CASE UNCHANGED vars
  BY <1>1, StreamIdle
<1>2. CASE HubNext
  BY <1>2, HubOk
<1>3. CASE Disconnected /\ UNCHANGED <<closed, phase, runOrder, ring, log, at>>
  BY <1>3, AllResetOk DEF Disconnected
<1>4. ASSUME NEW s \in Subs, HandleSub(s) PROVE StreamInv'
  BY <1>4, HandleSubIs, SubscribeActiveOk, SubscribeOk
<1>5. ASSUME NEW s \in Subs, Forward(s) PROVE StreamInv'
  BY <1>5, NewSubOk, TakeFrameOk DEF Forward
<1>6. ASSUME NEW s \in Subs, ForwardEnds(s) PROVE StreamInv'
  BY <1>6, NewSubOk DEF ForwardEnds
<1>7. CASE SocketNext
  <2>1. CASE Open
    BY <1>1, <2>1 DEF Open
  <2>2. CASE HandleUnsub
    BY <1>1, <2>2 DEF HandleUnsub
  <2>3. ASSUME NEW s \in Subs, OutboxFull(s) PROVE StreamInv'
    BY <1>3, <2>3 DEF OutboxFull
  <2> QED BY <1>4, <1>5, <1>6, <1>7, <2>1, <2>2, <2>3 DEF SocketNext
<1>8. CASE ConnectionLost
  BY <1>3, <1>8 DEF ConnectionLost
<1>9. CASE Mount \/ Unmount \/ TabNext \/ Restart
  BY <1>1, <1>9 DEF Mount, Unmount, TabNext, RecvHello, RecvFrame, RecvOverflow, Restart
<1>10. CASE UNCHANGED fvars
  BY <1>1, <1>10 DEF fvars
<1>11. CASE Hub
  BY <1>2, <1>11 DEF Hub
<1> QED BY <1>7, <1>8, <1>9, <1>10, <1>11 DEF FNext

LEMMA FeedStart == ASSUME FInit PROVE FeedInv
<1>1. /\ Init /\ conn = "offline" /\ up = <<>> /\ down = <<>> /\ cur = Nil /\ mounted = FALSE
      /\ last = Nil /\ seqByRun = [r \in Runs |-> 0] /\ draft = NoDrafts /\ restart = FALSE
      /\ crossed = FALSE /\ skipped = [r \in Runs |-> 0]
  BY DEF FInit
<1>2. StreamInv
  BY <1>1, InitOk
<1>3. Len(down) = 0 /\ Len(down) <= Outbox
  BY <1>1, FeedAssumption, EmptySeq
<1>4. draft \in [Runs -> Seq(Nat)] /\ \A r \in Runs : draft[r] = <<>> /\ Len(draft[r]) = 0
  BY <1>1, EmptySeq DEF NoDrafts
<1>5. FTypeOK
  <2>1. TypeOK /\ seqByRun \in [Runs -> Nat] /\ skipped \in [Runs -> Nat]
    BY <1>1, <1>2 DEF StreamInv
  <2>2. up \in Seq([op : {"sub", "unsub"}, last : {Nil} \cup (Runs \X Nat)])
    BY <1>1
  <2>3. down \in Seq(Frames \cup Overflows \cup {Hello})
    BY <1>1
  <2> QED BY <1>1, <1>3, <1>4, <2>1, <2>2, <2>3 DEF FTypeOK
<1>6. \A s \in Subs : ~sub[s].used /\ sub[s].queue = <<>> /\ ~sub[s].closed /\ ~sub[s].attached
  BY <1>1 DEF Init, NewSub
<1>7. SubsOk
  BY <1>6 DEF SubsOk, Noticed
<1>8. SocketOk
  BY <1>1, <1>6 DEF SocketOk, Unused
<1>9. NoHoleInDraft
  BY <1>4 DEF NoHoleInDraft
<1> QED BY <1>1, <1>2, <1>5, <1>7, <1>8, <1>9 DEF FeedInv

\* A step that leaves the socket and the tab alone.
LEMMA SubTypes == ASSUME FeedInv, NEW s \in Subs
    PROVE /\ sub[s] \in SubStates /\ at[s] \in Nat /\ at[s] <= Len(log) /\ Len(log) \in Nat
          /\ sub[s].queue \in Seq(Frames \cup Overflows)
          /\ log \in Seq(Frames) /\ QueueOk(sub[s], at[s], log)
BY SubIs, LenProperties DEF FeedInv, StreamInv, SubOk, QueueOk, TypeOK, SubStates

-----------------------------------------------------------------------------
(* The steps of the hub, of its end of the socket and of the tab.          *)

\* What is on its way stays in log.
LEMMA DownKept ==
    ASSUME Extends, DownLogged, DownInOrder, UNCHANGED down
    PROVE  DownLogged' /\ DownInOrder'
<1>1. ASSUME NEW k \in 1..Len(log), k + 1 <= Len(log) PROVE k + 1 \in 1..Len(log)
  BY <1>1 DEF Extends
<1>2. DownLogged'
  BY DEF DownLogged, Extends
<1>3. DownInOrder'
  <2> SUFFICES ASSUME NEW i \in 1..Len(down), down[i] \in Frames, i + 1 <= Len(down), down[i + 1] \in Frames
               PROVE  \E k \in 1..Len(log') : /\ log'[k] = down[i]
                                              /\ k + 1 <= Len(log') /\ log'[k + 1] = down[i + 1]
    BY DEF DownInOrder
  <2>1. PICK k \in 1..Len(log) : log[k] = down[i] /\ k + 1 <= Len(log) /\ log[k + 1] = down[i + 1]
    BY DEF DownInOrder
  <2>2. k + 1 \in 1..Len(log)
    BY <1>1, <2>1
  <2>3. k \in 1..Len(log') /\ log'[k] = log[k] /\ k + 1 \in 1..Len(log') /\ log'[k + 1] = log[k + 1]
    BY <2>2 DEF Extends
  <2>4. k + 1 <= Len(log')
    BY <2>3 DEF Extends
  <2> QED BY <2>1, <2>3, <2>4
<1> QED BY <1>2, <1>3

LEMMA LastKept ==
    ASSUME Extends, LastJoins, UNCHANGED <<last, draft, seqByRun>>
    PROVE  LastJoins'
<1>1. ASSUME last # Nil
      PROVE  \E i \in 1..Len(log') : log'[i].run = last[1] /\ log'[i].seq = last[2] /\ Joined(i + 1)'
  <2>1. PICK i \in 1..Len(log) : log[i].run = last[1] /\ log[i].seq = last[2] /\ Joined(i + 1)
    BY <1>1 DEF LastJoins
  <2>2. i \in 1..Len(log') /\ log'[i] = log[i]
    BY DEF Extends
  <2>3. PICK x : x = i + 1
    OBVIOUS
  <2>4. Joined(x)'
    BY <2>1, <2>3, JoinedGrows
  <2> QED BY <2>1, <2>2, <2>3, <2>4
<1> QED BY <1>1 DEF LastJoins

LEMMA DownJoinsKept ==
    ASSUME Extends, DownJoins, UNCHANGED <<down, draft, seqByRun>>
    PROVE  DownJoins'
<1> SUFFICES ASSUME down # <<>>, down[1] \in Frames
             PROVE  \E k \in 1..Len(log') : log'[k] = down[1] /\ Joined(k)'
  BY DEF DownJoins
<1>1. PICK k \in 1..Len(log) : log[k] = down[1] /\ Joined(k)
  BY DEF DownJoins
<1>2. k \in 1..Len(log') /\ log'[k] = log[k]
  BY DEF Extends
<1>3. Joined(k)'
  BY <1>1, JoinedGrows
<1> QED BY <1>1, <1>2, <1>3

\* What a step of the hub does to the subscriptions.
LEMMA HubEffect ==
    ASSUME FeedInv, HubNext
    PROVE  /\ Extends /\ SubsOk' /\ (closed => closed') /\ at' = at
           /\ \A s \in Subs : /\ sub'[s].used = sub[s].used
                              /\ More(s)' => More(s)
                              /\ Noticed(s) => Noticed(s)'
<1>0. StreamInv /\ SubsOk
  BY DEF FeedInv
<1>1. ASSUME NEW r \in Runs, NEW size \in Sizes, Publish(r, size)
      PROVE  /\ Extends /\ SubsOk' /\ (closed => closed') /\ at' = at
             /\ \A s \in Subs : /\ sub'[s].used = sub[s].used
                                /\ More(s)' => More(s)
                                /\ Noticed(s) => Noticed(s)'
  <2>1. PICK f \in Frames : log' = Append(log, f) /\
           sub' = [s \in Subs |-> IF sub[s].attached THEN Offer(sub[s], f) ELSE sub[s]]
    BY <1>0, <1>1, Published DEF Publish, NextFrame
  <2>2. Extends
    BY <1>0, <2>1, ExtendsAppend DEF StreamInv, TypeOK
  <2>3. closed' = closed /\ at' = at
    BY <1>1 DEF Publish
  <2>4. ASSUME NEW s \in Subs
        PROVE  /\ sub'[s].used = sub[s].used
               /\ More(s)' => More(s)
               /\ Noticed(s) => Noticed(s)'
               /\ ~sub'[s].used => sub'[s].queue = <<>> /\ ~sub'[s].closed /\ ~sub'[s].attached
               /\ Noticed(s)' => sub'[s].closed
               /\ sub'[s].closed => closed' \/ Noticed(s)'
    <3>1. sub[s] \in SubStates
      BY SubTypes
    <3>2. CASE sub'[s] = sub[s]
      BY <1>0, <2>3, <3>2 DEF SubsOk, More, Noticed
    <3>3. CASE sub'[s] # sub[s]
      <4>1. sub[s].attached /\ sub'[s] = Offer(sub[s], f) /\ ~sub[s].closed
        BY <2>1, <3>3 DEF Offer
      <4>2. sub[s].used /\ ~Noticed(s) /\ More(s)
        BY <1>0, <4>1 DEF SubsOk, More
      <4>3. sub'[s].used = sub[s].used
        BY <3>1, <4>1, OfferType
      <4>4. CASE sub'[s] = Overflow(sub[s], "slow_consumer")
        <5>1. sub'[s].closed /\ sub'[s].queue = <<[overflow |-> "slow_consumer"]>>
          BY <3>1, <4>4, OverflowType
        <5>2. [overflow |-> "slow_consumer"] \in Overflows
          BY DEF Overflows
        <5>3. sub'[s].queue # <<>> /\ sub'[s].queue[1] \in Overflows
          BY <5>1, <5>2
        <5> QED BY <4>2, <4>3, <5>1, <5>3 DEF Noticed
      <4>5. CASE sub'[s] = [sub[s] EXCEPT !.queue = Append(sub[s].queue, f)]
        <5>1. ~sub'[s].closed /\ sub'[s].queue = Append(sub[s].queue, f)
          BY <3>1, <4>1, <4>5 DEF SubStates
        <5>2. sub[s].queue \in Seq(Frames)
          <6>1. QueueOk(sub[s], at[s], log) /\ at[s] \in Nat /\ log \in Seq(Frames)
            BY SubTypes
          <6> QED BY <3>1, <4>1, <6>1, QueueIsCut
        <5>3. Append(sub[s].queue, f) \in Seq(Frames) /\ Len(Append(sub[s].queue, f)) = Len(sub[s].queue) + 1
              /\ Len(sub[s].queue) \in Nat
          BY <5>2, AppendProperties, LenProperties
        <5>4. sub'[s].queue[1] \in Frames
          <6>1. 1 \in 1..Len(Append(sub[s].queue, f))
            BY <5>3
          <6> QED BY <5>1, <5>3, <6>1, ElementOfSeq
        <5>5. ~Noticed(s)'
          BY <5>4, FrameOrNotice DEF Noticed
        <5> QED BY <4>2, <4>3, <5>1, <5>5
      <4> QED BY <4>1, <4>4, <4>5 DEF Offer
    <3> QED BY <3>2, <3>3
  <2>5. SubsOk'
    BY <2>4 DEF SubsOk
  <2> QED BY <2>2, <2>3, <2>4, <2>5
<1>2. CASE UNCHANGED <<closed, log, sub, at>>
  <2>1. Extends
    BY <1>0, <1>2, ExtendsSame
  <2>2. SubsOk'
    BY <1>0, <1>2 DEF SubsOk, Noticed
  <2> QED BY <1>2, <2>1, <2>2 DEF More, Noticed
<1>3. CASE CloseHub
  <2>1. Extends
    BY <1>0, <1>3, ExtendsSame DEF CloseHub
  <2>2. closed' /\ at' = at
    BY <1>3 DEF CloseHub
  <2>3. ASSUME NEW s \in Subs
        PROVE  /\ sub'[s].used = sub[s].used
               /\ More(s)' => More(s)
               /\ Noticed(s) => Noticed(s)'
               /\ ~sub'[s].used => sub'[s].queue = <<>> /\ ~sub'[s].closed /\ ~sub'[s].attached
               /\ Noticed(s)' => sub'[s].closed
    <3>1. sub[s] \in SubStates
      BY SubTypes
    <3>2. CASE ~sub[s].attached
      <4>1. sub'[s] = sub[s]
        BY <1>3, <3>2 DEF CloseHub
      <4> QED BY <1>0, <4>1 DEF SubsOk, More, Noticed
    <3>3. CASE sub[s].attached
      <4>1. sub'[s] = [sub[s] EXCEPT !.closed = TRUE]
        BY <1>3, <3>3 DEF CloseHub
      <4>2. sub'[s].closed /\ sub'[s].queue = sub[s].queue /\ sub'[s].used = sub[s].used
        BY <3>1, <4>1 DEF SubStates
      <4> QED BY <1>0, <3>3, <4>2 DEF SubsOk, More, Noticed
    <3> QED BY <3>2, <3>3
  <2>4. SubsOk'
    BY <2>2, <2>3 DEF SubsOk
  <2> QED BY <2>1, <2>2, <2>3, <2>4
<1>4. ASSUME NEW r \in Runs, EndRun(r) \/ PurgeRun(r) PROVE UNCHANGED <<closed, log, sub, at>>
  BY <1>4 DEF EndRun, PurgeRun
<1>5. CASE \E r \in Runs : EndRun(r) \/ PurgeRun(r)
  BY <1>2, <1>4, <1>5
<1>6. CASE \E r \in Runs : \E size \in Sizes : Publish(r, size)
  <2>1. PICK r \in Runs, size \in Sizes : Publish(r, size)
    BY <1>6
  <2> QED BY <1>1, <2>1
<1> QED BY <1>3, <1>5, <1>6 DEF HubNext

LEMMA HubFeed == ASSUME FeedInv, Hub PROVE FeedInv'
<1>1. /\ HubNext
      /\ UNCHANGED <<conn, up, down, cur, mounted, last, seqByRun, draft, restart, crossed, skipped>>
  BY DEF Hub, tabVars, sockVars
<1>2. /\ Extends /\ SubsOk' /\ (closed => closed') /\ at' = at
      /\ \A s \in Subs : /\ sub'[s].used = sub[s].used
                         /\ More(s)' => More(s)
                         /\ Noticed(s) => Noticed(s)'
  BY <1>1, HubEffect
<1>3. StreamInv'
  BY <1>1, HubOk DEF FeedInv
<1>4. FTypeOK'
  BY <1>1, <1>3 DEF FeedInv, FTypeOK, StreamInv
<1>5. Unused' <=> Unused
  BY <1>2 DEF Unused
<1>6. SocketOk'
  BY <1>1, <1>5 DEF FeedInv, SocketOk
<1>7. NoHoleInDraft'
  BY <1>1 DEF FeedInv, NoHoleInDraft
<1>8. ASSUME mounted, ~crossed PROVE Flow'
  <2>1. Flow
    BY <1>8 DEF FeedInv
  <2>2. DownLogged' /\ DownInOrder'
    BY <1>1, <1>2, <2>1, DownKept DEF Flow
  <2>3. SubFollows'
    <3> SUFFICES ASSUME NEW s \in Subs, More(s)', down # <<>>, down[Len(down)] \in Frames
                 PROVE  at[s] # 0 /\ log'[at[s]] = down[Len(down)]
      BY <1>1, <1>2 DEF SubFollows
    <3>1. at[s] # 0 /\ log[at[s]] = down[Len(down)]
      BY <1>2, <2>1 DEF Flow, SubFollows
    <3>2. at[s] \in 1..Len(log)
      BY <3>1, SubTypes
    <3> QED BY <1>2, <3>1, <3>2 DEF Extends
  <2>4. DownJoins'
    BY <1>1, <1>2, <2>1, DownJoinsKept DEF Flow
  <2>5. SubJoins'
    <3> SUFFICES ASSUME NEW s \in Subs, down = <<>>, More(s)', ~Noticed(s)'
                 PROVE  Joined(at[s] + 1)'
      BY <1>1, <1>2 DEF SubJoins
    <3>1. Joined(at[s] + 1)
      BY <1>2, <2>1 DEF Flow, SubJoins
    <3>2. PICK x : x = at[s] + 1
      OBVIOUS
    <3>3. Joined(x)'
      BY <1>1, <1>2, <3>1, <3>2, JoinedGrows
    <3> QED BY <1>2, <3>2, <3>3
  <2>6. NoneLeft'
    BY <1>1, <1>2, <1>5, <2>1 DEF Flow, NoneLeft
  <2>7. UpAsks'
    BY <1>1, <1>5, <2>1 DEF Flow, UpAsks
  <2>8. OneSub'
    BY <1>1, <1>2, <2>1 DEF Flow, OneSub
  <2>9. LastJoins'
    BY <1>1, <1>2, <2>1, LastKept DEF Flow
  <2> QED BY <2>2, <2>3, <2>4, <2>5, <2>6, <2>7, <2>8, <2>9 DEF Flow
<1> QED BY <1>1, <1>2, <1>3, <1>4, <1>6, <1>7, <1>8 DEF FeedInv

\* Nothing on its way and no subscription.
LEMMA FlowIdle ==
    ASSUME LastJoins', down' \in Seq(Items), \A i \in 1..Len(down') : down'[i] \notin Frames,
           \A s \in Subs : ~sub'[s].used,
           conn' # "live" \/ last' = Nil \/ (up' # <<>> /\ up'[1].last = last'),
           \A i \in 1..Len(up') : up'[i].op = "sub" /\ (up'[i].last # Nil => i = 1 /\ up'[i].last = last' /\ down' = <<>>)
    PROVE  Flow'
<1>1. DownLogged'
  BY DEF DownLogged
<1>2. DownInOrder'
  BY DEF DownInOrder
<1>3. SubFollows' /\ SubJoins'
  BY DEF SubFollows, SubJoins, More
<1>0. Len(down') \in Nat /\ (down' # <<>> => 1 \in 1..Len(down') /\ Len(down') \in 1..Len(down'))
  <2>1. Len(down') \in Nat
    BY LenProperties
  <2>2. down' # <<>> => Len(down') # 0
    BY EmptySeq
  <2> QED BY <2>1, <2>2
<1>4. DownJoins'
  BY <1>0 DEF DownJoins
<1>5. NoneLeft'
  BY <1>0 DEF NoneLeft
<1>6. UpAsks'
  BY DEF UpAsks, Unused
<1>7. OneSub'
  BY DEF OneSub
<1> QED BY <1>1, <1>2, <1>3, <1>4, <1>5, <1>6, <1>7 DEF Flow

LEMMA SubsNewOk ==
    ASSUME \A s \in Subs : sub'[s] = NewSub
    PROVE  SubsOk' /\ Unused'
BY DEF SubsOk, Unused, Noticed, NewSub

LEMMA DisconnectedFeed ==
    ASSUME FeedInv, Disconnected,
           UNCHANGED <<closed, phase, runOrder, ring, log, at, tabVars, crossed, skipped>>
    PROVE  FeedInv'
<1>1. /\ conn' = "offline" /\ up' = <<>> /\ down' = <<>> /\ cur' = Nil
      /\ sub' = [s \in Subs |-> NewSub]
      /\ UNCHANGED <<closed, phase, runOrder, ring, log, at>>
      /\ UNCHANGED <<mounted, last, seqByRun, draft, restart, crossed, skipped>>
      /\ Len(down') = 0 /\ Len(up') = 0
  BY EmptySeq DEF Disconnected, tabVars
<1>2. StreamInv'
  BY <1>1, AllResetOk DEF FeedInv
<1>3. FTypeOK'
  <2>1. up' \in Seq([op : {"sub", "unsub"}, last : {Nil} \cup (Runs \X Nat)])
    BY <1>1
  <2>2. down' \in Seq(Frames \cup Overflows \cup {Hello}) /\ Len(down') <= Outbox
    BY <1>1, FeedAssumption
  <2> QED BY <1>1, <1>2, <2>1, <2>2 DEF FeedInv, FTypeOK, StreamInv
<1>4. \A s \in Subs : sub'[s] = NewSub /\ ~sub'[s].used
  BY <1>1 DEF NewSub
<1>5. SubsOk' /\ Unused'
  BY <1>4, SubsNewOk
<1>6. SocketOk'
  BY <1>1, <1>5 DEF SocketOk
<1>7. NoHoleInDraft'
  BY <1>1 DEF FeedInv, NoHoleInDraft
<1>8. ASSUME mounted, ~crossed PROVE Flow'
  <2>1. LastJoins'
    BY <1>1, <1>8, LastKept, ExtendsSame DEF FeedInv, Flow
  <2>2. down' \in Seq(Items) /\ \A i \in 1..Len(down') : down'[i] \notin Frames
    BY <1>1
  <2> QED BY <1>1, <1>4, <2>1, <2>2, FlowIdle
<1> QED BY <1>1, <1>2, <1>3, <1>5, <1>6, <1>7, <1>8 DEF FeedInv

LEMMA OpenFeed == ASSUME FeedInv, Open PROVE FeedInv'
<1>1. /\ conn = "offline" /\ conn' = "connecting" /\ down' = <<Hello>>
      /\ UNCHANGED vars /\ UNCHANGED <<up, cur, mounted, last, seqByRun, draft, restart, crossed, skipped>>
  BY DEF Open, tabVars
<1>2. StreamInv' /\ UNCHANGED <<sub, log, at, closed>>
  BY <1>1, StreamIdle DEF FeedInv, vars
<1>3. /\ Len(down') = 1 /\ down'[1] = Hello /\ down' \in Seq(Frames \cup Overflows \cup {Hello})
      /\ down' # <<>>
  <2>1. Hello \in Frames \cup Overflows \cup {Hello}
    OBVIOUS
  <2>2. <<Hello>> \in Seq(Frames \cup Overflows \cup {Hello})
    BY <2>1
  <2> QED BY <1>1, <2>2
<1>4. FTypeOK'
  <2>1. Len(down') <= Outbox
    BY <1>3, FeedAssumption
  <2> QED BY <1>1, <1>2, <1>3, <2>1 DEF FeedInv, FTypeOK, StreamInv
<1>5. up = <<>> /\ Unused
  BY <1>1 DEF FeedInv, SocketOk
<1>6. SubsOk' /\ Unused'
  BY <1>2, <1>5 DEF FeedInv, SubsOk, Noticed, Unused
<1>7. SocketOk'
  BY <1>1, <1>5, <1>6 DEF SocketOk
<1>8. NoHoleInDraft'
  BY <1>1 DEF FeedInv, NoHoleInDraft
<1>9. ASSUME mounted, ~crossed PROVE Flow'
  <2>1. LastJoins'
    BY <1>1, <1>2, <1>9, LastKept, ExtendsSame DEF FeedInv, Flow
  <2>2. Hello \notin Frames
    BY FrameOrNotice
  <2>3. up' = <<>> /\ Len(up') = 0
    BY <1>1, <1>5, EmptySeq
  <2>4. down' \in Seq(Items) /\ \A i \in 1..Len(down') : down'[i] \notin Frames
    BY <1>3, <2>2 DEF Items
  <2> QED BY <1>1, <1>6, <2>1, <2>3, <2>4, FlowIdle DEF Unused
<1> QED BY <1>1, <1>2, <1>4, <1>6, <1>7, <1>8, <1>9 DEF FeedInv

\* A step of the tab or the socket that leaves the stream alone.
LEMMA StreamSame ==
    ASSUME FeedInv, UNCHANGED vars
    PROVE  /\ StreamInv' /\ SubsOk' /\ Extends /\ (Unused' <=> Unused)
           /\ UNCHANGED <<sub, log, at, closed>>
           /\ \A s \in Subs : (More(s)' <=> More(s)) /\ (Noticed(s)' <=> Noticed(s))
<1>1. UNCHANGED <<sub, log, at, closed>> /\ StreamInv'
  BY StreamIdle DEF FeedInv, vars
<1>2. Extends
  BY <1>1, ExtendsSame DEF FeedInv
<1>3. \A s \in Subs : (More(s)' <=> More(s)) /\ (Noticed(s)' <=> Noticed(s))
  BY <1>1 DEF More, Noticed
<1>4. Unused' <=> Unused
  BY <1>1 DEF Unused
<1>5. SubsOk'
  BY <1>1 DEF FeedInv, SubsOk, Noticed
<1> QED BY <1>1, <1>2, <1>3, <1>4, <1>5

LEMMA SendOne ==
    ASSUME FTypeOK, NEW m \in UpMsgs, Send(<<m>>)
    PROVE  /\ up' \in Seq(UpMsgs) /\ Len(up) \in Nat
           /\ conn # "live" => up' = up
           /\ conn = "live" => /\ Len(up') = Len(up) + 1 /\ up'[Len(up) + 1] = m
                               /\ \A i \in 1..Len(up) : up'[i] = up[i]
<1>1. up \in Seq(UpMsgs) /\ Len(up) \in Nat
  BY LenProperties DEF FTypeOK, UpMsgs
<1>2. <<m>> \in Seq(UpMsgs) /\ Len(<<m>>) = 1 /\ <<m>>[1] = m
  OBVIOUS
<1>3. CASE conn = "live"
  <2>1. up' = up \o <<m>>
    BY <1>3 DEF Send
  <2>2. /\ up \o <<m>> \in Seq(UpMsgs) /\ Len(up \o <<m>>) = Len(up) + 1
        /\ \A i \in 1..Len(up) + 1 : (up \o <<m>>)[i] = IF i <= Len(up) THEN up[i] ELSE <<m>>[i - Len(up)]
    BY <1>1, <1>2, ConcatProperties
  <2>3. Len(up) + 1 \in 1..Len(up) + 1 /\ ~(Len(up) + 1 <= Len(up)) /\ Len(up) + 1 - Len(up) = 1
    BY <1>1
  <2>4. (up \o <<m>>)[Len(up) + 1] = m
    BY <1>2, <2>2, <2>3
  <2>5. \A i \in 1..Len(up) : i \in 1..Len(up) + 1 /\ i <= Len(up)
    BY <1>1
  <2>6. \A i \in 1..Len(up) : (up \o <<m>>)[i] = up[i]
    BY <2>2, <2>5
  <2> QED BY <1>1, <1>3, <2>1, <2>2, <2>4, <2>6
<1>4. CASE conn # "live"
  BY <1>1, <1>4 DEF Send
<1> QED BY <1>3, <1>4

LEMMA MsgTypes == /\ SubMsg(Nil) \in UpMsgs /\ SubMsg(Nil).op = "sub" /\ SubMsg(Nil).last = Nil
                  /\ UnsubMsg \in UpMsgs
BY DEF SubMsg, UnsubMsg, UpMsgs

LEMMA HandleUnsubFeed == ASSUME FeedInv, HandleUnsub PROVE FeedInv'
<1>1. /\ up # <<>> /\ Head(up).op = "unsub" /\ cur' = Nil /\ up' = Tail(up)
      /\ UNCHANGED vars /\ UNCHANGED <<conn, down, mounted, last, seqByRun, draft, restart, crossed, skipped>>
  BY DEF HandleUnsub, tabVars
<1>2. StreamInv' /\ SubsOk' /\ (Unused' <=> Unused)
  BY <1>1, StreamSame
<1>3. FTypeOK /\ Head(up) = up[1] /\ Tail(up) \in Seq(UpMsgs) /\ Len(up) \in Nat \ {0}
  BY <1>1, UpHead DEF FeedInv
<1>4. FTypeOK'
  BY <1>1, <1>2, <1>3 DEF FTypeOK, StreamInv, UpMsgs
<1>5. SocketOk'
  BY <1>1, <1>2 DEF FeedInv, SocketOk
<1>6. NoHoleInDraft'
  BY <1>1 DEF FeedInv, NoHoleInDraft
<1>7. ~(mounted /\ ~crossed)
  <2> SUFFICES ASSUME Flow PROVE FALSE
    BY DEF FeedInv
  <2>1. 1 \in 1..Len(up)
    BY <1>3
  <2>2. up[1].op = "sub"
    BY <2>1 DEF Flow, UpAsks
  <2> QED BY <1>1, <1>3, <2>2
<1> QED BY <1>1, <1>2, <1>4, <1>5, <1>6, <1>7 DEF FeedInv

LEMMA UnmountFeed == ASSUME FeedInv, Unmount PROVE FeedInv'
<1>1. /\ mounted' = FALSE /\ restart' = FALSE /\ Send(<<UnsubMsg>>)
      /\ UNCHANGED vars /\ UNCHANGED <<conn, down, cur, last, seqByRun, draft, crossed, skipped>>
  BY DEF Unmount
<1>2. StreamInv' /\ SubsOk' /\ (Unused' <=> Unused)
  BY <1>1, StreamSame
<1>3. up' \in Seq(UpMsgs) /\ (conn # "live" => up' = up)
  BY <1>1, SendOne, MsgTypes DEF FeedInv
<1>4. FTypeOK'
  BY <1>1, <1>2, <1>3 DEF FeedInv, FTypeOK, StreamInv, UpMsgs
<1>5. SocketOk'
  BY <1>1, <1>2, <1>3 DEF FeedInv, SocketOk
<1>6. NoHoleInDraft'
  BY <1>1 DEF FeedInv, NoHoleInDraft
<1> QED BY <1>1, <1>2, <1>4, <1>5, <1>6 DEF FeedInv

LEMMA NoDraftsFit ==
    /\ NoDrafts \in [Runs -> Seq(Nat)]
    /\ \A r \in Runs : NoDrafts[r] = <<>> /\ Len(NoDrafts[r]) = 0
BY EmptySeq DEF NoDrafts

LEMMA MountFeed == ASSUME FeedInv, Mount PROVE FeedInv'
<1>1. /\ mounted' = TRUE /\ last' = Nil /\ seqByRun' = [r \in Runs |-> 0] /\ draft' = NoDrafts
      /\ restart' = FALSE /\ crossed' = ~Quiet /\ skipped' = [r \in Runs |-> 0] /\ Send(<<SubMsg(Nil)>>)
      /\ UNCHANGED vars /\ UNCHANGED <<conn, down, cur>>
  BY DEF Mount
<1>2. StreamInv' /\ SubsOk' /\ (Unused' <=> Unused) /\ UNCHANGED sub
  BY <1>1, StreamSame
<1>3. /\ up' \in Seq(UpMsgs) /\ Len(up) \in Nat /\ (conn # "live" => up' = up)
      /\ conn = "live" => Len(up') = Len(up) + 1 /\ up'[Len(up) + 1] = SubMsg(Nil)
  BY <1>1, SendOne, MsgTypes DEF FeedInv
<1>4. FTypeOK'
  <2>1. /\ draft' \in [Runs -> Seq(Nat)] /\ seqByRun' \in [Runs -> Nat] /\ crossed' \in BOOLEAN
        /\ skipped' \in [Runs -> Nat]
    BY <1>1, NoDraftsFit DEF Quiet
  <2> QED BY <1>1, <1>2, <1>3, <2>1 DEF FeedInv, FTypeOK, StreamInv, UpMsgs
<1>5. SocketOk'
  BY <1>1, <1>2, <1>3 DEF FeedInv, SocketOk
<1>6. NoHoleInDraft'
  BY <1>1, NoDraftsFit DEF NoHoleInDraft
<1>7. ASSUME Quiet PROVE Flow'
  <2>1. LastJoins'
    BY <1>1 DEF LastJoins
  <2>2. down' \in Seq(Items) /\ \A i \in 1..Len(down') : down'[i] \notin Frames
    <3>1. down \in Seq(Items)
      BY DEF FeedInv, FTypeOK, Items
    <3>2. DOMAIN down = 1..Len(down)
      BY <3>1, LenProperties
    <3> QED BY <1>1, <1>7, <3>1, <3>2 DEF Quiet, Range
  <2>3. \A s \in Subs : ~sub'[s].used
    BY <1>2, <1>7 DEF Quiet
  <2>4. \A i \in 1..Len(up') : up'[i].op = "sub" /\ up'[i].last = Nil
    <3>1. up = <<>> /\ Len(up) = 0
      BY <1>7, EmptySeq DEF Quiet
    <3>2. CASE conn = "live"
      <4>1. Len(up') = 1 /\ up'[1] = SubMsg(Nil)
        BY <1>3, <3>1, <3>2
      <4> QED BY <4>1, MsgTypes
    <3>3. CASE conn # "live"
      BY <1>3, <3>1, <3>3
    <3> QED BY <3>2, <3>3
  <2> QED BY <1>1, <2>1, <2>2, <2>3, <2>4, FlowIdle
<1> QED BY <1>1, <1>2, <1>4, <1>5, <1>6, <1>7 DEF FeedInv

LEMMA RecvHelloFeed == ASSUME FeedInv, RecvHello PROVE FeedInv'
<1>1. /\ down # <<>> /\ Head(down) = Hello /\ down' = Tail(down) /\ conn' = "live"
      /\ up' = IF mounted THEN Append(up, SubMsg(last)) ELSE up
      /\ UNCHANGED vars /\ UNCHANGED <<cur, mounted, last, seqByRun, draft, restart, crossed, skipped>>
  BY DEF RecvHello, tabVars
<1>2. StreamInv' /\ SubsOk' /\ (Unused' <=> Unused) /\ UNCHANGED <<sub, log>> /\ Extends
  BY <1>1, StreamSame
<1>3. conn = "connecting" /\ up = <<>> /\ Unused /\ down = <<Hello>> /\ FTypeOK
  <2>1. down[1] = Hello /\ Len(down) \in Nat \ {0}
    BY <1>1, DownHead DEF FeedInv
  <2>2. 1 \in 1..Len(down)
    BY <2>1
  <2>3. conn # "live" /\ conn # "offline"
    BY <1>1, <2>1, <2>2 DEF FeedInv, SocketOk
  <2> QED BY <2>3 DEF FeedInv, SocketOk, FTypeOK
<1>4. down' = <<>> /\ Len(down') = 0
  BY <1>1, <1>3, DownHead
<1>5. SubMsg(last) \in UpMsgs /\ SubMsg(last).op = "sub" /\ SubMsg(last).last = last
  BY <1>3 DEF FTypeOK, SubMsg, UpMsgs
<1>6. up' \in Seq(UpMsgs) /\ (mounted => Len(up') = 1 /\ up'[1] = SubMsg(last) /\ up' # <<>>)
  BY <1>1, <1>3, <1>5
<1>7. FTypeOK'
  <2>1. down' \in Seq(Frames \cup Overflows \cup {Hello}) /\ Len(down') <= Outbox
    BY <1>4, FeedAssumption
  <2>2. up' \in Seq([op : {"sub", "unsub"}, last : {Nil} \cup (Runs \X Nat)])
    BY <1>6 DEF UpMsgs
  <2>3. TypeOK'
    BY <1>2 DEF StreamInv
  <2>4. conn' \in {"offline", "connecting", "live"}
    BY <1>1
  <2>5. /\ cur' \in Subs \cup {Nil} /\ mounted' \in BOOLEAN /\ last' \in {Nil} \cup (Runs \X Nat)
        /\ seqByRun' \in [Runs -> Nat] /\ draft' \in [Runs -> Seq(Nat)] /\ restart' \in BOOLEAN
        /\ crossed' \in BOOLEAN /\ skipped' \in [Runs -> Nat]
    BY <1>1, <1>3 DEF FTypeOK
  <2> QED BY <2>1, <2>2, <2>3, <2>4, <2>5 DEF FTypeOK
<1>8. SocketOk'
  <2>1. \A i \in 1..Len(down') : down'[i] # Hello
    BY <1>4
  <2>2. conn' = "live" /\ conn' # "offline" /\ conn' # "connecting"
    BY <1>1
  <2> QED BY <2>1, <2>2 DEF SocketOk
<1>9. NoHoleInDraft'
  BY <1>1 DEF FeedInv, NoHoleInDraft
<1>10. ASSUME mounted, ~crossed PROVE Flow'
  <2>1. LastJoins'
    BY <1>1, <1>2, <1>10, LastKept DEF FeedInv, Flow
  <2>2. down' \in Seq(Items) /\ \A i \in 1..Len(down') : down'[i] \notin Frames
    BY <1>4
  <2>3. \A s \in Subs : ~sub'[s].used
    BY <1>2, <1>3 DEF Unused
  <2> QED BY <1>1, <1>4, <1>5, <1>6, <1>10, <2>1, <2>2, <2>3, FlowIdle
<1> QED BY <1>1, <1>2, <1>7, <1>8, <1>9, <1>10 DEF FeedInv

LEMMA RestartFeed == ASSUME FeedInv, Restart PROVE FeedInv'
<1>1. /\ restart' = FALSE /\ Send(<<SubMsg(Nil)>>)
      /\ UNCHANGED vars /\ UNCHANGED <<conn, down, cur, mounted, last, seqByRun, draft, crossed, skipped>>
  BY DEF Restart
<1>2. /\ StreamInv' /\ SubsOk' /\ (Unused' <=> Unused) /\ UNCHANGED <<sub, log, at, closed>> /\ Extends
      /\ \A s \in Subs : (More(s)' <=> More(s)) /\ (Noticed(s)' <=> Noticed(s))
  BY <1>1, StreamSame
<1>3. /\ up' \in Seq(UpMsgs) /\ Len(up) \in Nat /\ (conn # "live" => up' = up)
      /\ conn = "live" => /\ Len(up') = Len(up) + 1 /\ up'[Len(up) + 1] = SubMsg(Nil)
                          /\ \A i \in 1..Len(up) : up'[i] = up[i]
  BY <1>1, SendOne, MsgTypes DEF FeedInv
<1>4. FTypeOK'
  BY <1>1, <1>2, <1>3 DEF FeedInv, FTypeOK, StreamInv, UpMsgs
<1>5. SocketOk'
  BY <1>1, <1>2, <1>3 DEF FeedInv, SocketOk
<1>6. NoHoleInDraft'
  BY <1>1 DEF FeedInv, NoHoleInDraft
<1>7. ASSUME mounted, ~crossed PROVE Flow'
  <2>0. Flow
    BY <1>7 DEF FeedInv
  <2>1. DownLogged' /\ DownInOrder'
    BY <1>1, <1>2, <2>0, DownKept DEF Flow
  <2>2. SubFollows'
    BY <1>1, <1>2, <2>0 DEF Flow, SubFollows
  <2>3. DownJoins'
    BY <1>1, <1>2, <2>0, DownJoinsKept DEF Flow
  <2>4. SubJoins'
    BY <1>1, <1>2, <2>0, JoinedGrows DEF Flow, SubJoins
  <2>5. LastJoins'
    BY <1>1, <1>2, <2>0, LastKept DEF Flow
  <2>6. OneSub'
    BY <1>1, <1>2, <2>0 DEF Flow, OneSub
  <2>7. UpAsks'
    <3>1. ASSUME NEW i \in 1..Len(up')
          PROVE  /\ up'[i].op = "sub"
                 /\ up'[i].last # Nil => i = 1 /\ up'[i].last = last /\ down = <<>> /\ Unused
      <4>1. CASE conn = "live"
        <5>1. i \in 1..Len(up) \/ i = Len(up) + 1
          BY <1>3, <4>1
        <5>2. CASE i \in 1..Len(up)
          BY <1>3, <2>0, <4>1, <5>2 DEF Flow, UpAsks
        <5>3. CASE i = Len(up) + 1
          BY <1>3, <4>1, <5>3, MsgTypes
        <5> QED BY <5>1, <5>2, <5>3
      <4>2. CASE conn # "live"
        BY <1>3, <2>0, <4>2 DEF Flow, UpAsks
      <4> QED BY <4>1, <4>2
    <3> QED BY <1>1, <1>2, <3>1 DEF UpAsks
  <2>8. NoneLeft'
    <3>1. (up # <<>> /\ up[1].last = last) /\ conn = "live" => (up' # <<>> /\ up'[1].last = last)
      <4> SUFFICES ASSUME up # <<>>, up[1].last = last, conn = "live"
                   PROVE  up' # <<>> /\ up'[1].last = last
        OBVIOUS
      <4>1. Len(up) # 0
        <5>1. up \in Seq(UpMsgs)
          BY DEF FeedInv, FTypeOK, UpMsgs
        <5> QED BY <5>1, EmptySeq
      <4>2. 1 \in 1..Len(up) /\ Len(up') # 0
        BY <1>3, <4>1
      <4>3. up' # <<>>
        BY <1>3, <4>2, EmptySeq
      <4> QED BY <1>3, <4>2, <4>3
    <3> QED BY <1>1, <1>2, <2>0, <3>1 DEF Flow, NoneLeft
  <2> QED BY <2>1, <2>2, <2>3, <2>4, <2>5, <2>6, <2>7, <2>8 DEF Flow
<1> QED BY <1>1, <1>2, <1>4, <1>5, <1>6, <1>7 DEF FeedInv

\* A subscription of the socket is over.
LEMMA ResetSubsOk ==
    ASSUME FeedInv, NEW s \in Subs, sub' = [sub EXCEPT ![s] = NewSub], UNCHANGED closed
    PROVE  SubsOk'
<1>1. sub \in [Subs -> SubStates]
  BY DEF FeedInv, StreamInv, TypeOK, SubStates
<1>2. sub'[s] = NewSub /\ \A t \in Subs : t # s => sub'[t] = sub[t]
  BY <1>1
<1>3. ~sub'[s].used /\ sub'[s].queue = <<>> /\ ~sub'[s].closed /\ ~sub'[s].attached
  BY <1>2 DEF NewSub
<1> SUFFICES ASSUME NEW t \in Subs
             PROVE  /\ ~sub'[t].used => sub'[t].queue = <<>> /\ ~sub'[t].closed /\ ~sub'[t].attached
                    /\ Noticed(t)' => sub'[t].closed
                    /\ sub'[t].closed => closed' \/ Noticed(t)'
  BY DEF SubsOk
<1>4. CASE t = s
  BY <1>3, <1>4 DEF Noticed
<1>5. CASE t # s
  BY <1>2, <1>5 DEF FeedInv, SubsOk, Noticed
<1> QED BY <1>4, <1>5

\* A subscription of the socket ends: its queue is drained, and it is closed
\* or no longer the one in force.
LEMMA ForwardEndsFeed == ASSUME FeedInv, NEW s \in Subs, ForwardEnds(s) PROVE FeedInv'
<1>1. /\ sub[s].used /\ sub[s].queue = <<>> /\ (cur # s \/ sub[s].closed)
      /\ sub' = [sub EXCEPT ![s] = NewSub]
      /\ UNCHANGED <<closed, phase, runOrder, ring, log, at>>
      /\ UNCHANGED <<conn, up, down, cur, mounted, last, seqByRun, draft, restart, crossed, skipped>>
  BY DEF ForwardEnds, sockVars, tabVars
<1>2. StreamInv' /\ Extends
  BY <1>1, NewSubOk, ExtendsSame DEF FeedInv
<1>3. sub \in [Subs -> SubStates]
  BY DEF FeedInv, StreamInv, TypeOK, SubStates
<1>4. sub'[s] = NewSub /\ \A t \in Subs : t # s => sub'[t] = sub[t]
  BY <1>1, <1>3
<1>5. ~sub'[s].used /\ sub'[s].queue = <<>> /\ ~sub'[s].closed /\ ~sub'[s].attached
  BY <1>4 DEF NewSub
<1>6. SubsOk'
  BY <1>1, ResetSubsOk
<1>7. \A t \in Subs : sub'[t].used => t # s /\ sub'[t] = sub[t] /\ sub[t].used
  BY <1>4, <1>5
<1>8. conn = "live"
  BY <1>1 DEF FeedInv, SocketOk, Unused
<1>9. SocketOk'
  BY <1>1, <1>8 DEF FeedInv, SocketOk
<1>10. FTypeOK'
  BY <1>1, <1>2 DEF FeedInv, FTypeOK, StreamInv
<1>11. NoHoleInDraft'
  BY <1>1 DEF FeedInv, NoHoleInDraft
<1>12. ASSUME mounted, ~crossed PROVE Flow'
  <2>0. Flow
    BY <1>12 DEF FeedInv
  <2>1. cur = s /\ closed
    <3>1. cur = s
      BY <1>1, <2>0 DEF Flow, OneSub
    <3>2. ~Noticed(s)
      BY <1>1 DEF Noticed
    <3> QED BY <1>1, <3>1, <3>2 DEF FeedInv, SubsOk
  <2>2. DownLogged' /\ DownInOrder'
    BY <1>1, <1>2, <2>0, DownKept DEF Flow
  <2>3. DownJoins'
    BY <1>1, <1>2, <2>0, DownJoinsKept DEF Flow
  <2>4. LastJoins'
    BY <1>1, <1>2, <2>0, LastKept DEF Flow
  <2>5. \A t \in Subs : ~sub'[t].used
    BY <1>7, <2>0, <2>1 DEF Flow, OneSub
  <2>6. SubFollows' /\ SubJoins' /\ OneSub'
    BY <2>5 DEF SubFollows, SubJoins, OneSub, More
  <2>7. NoneLeft'
    BY <1>1, <2>1 DEF NoneLeft
  <2>8. UpAsks'
    BY <1>1, <2>0, <2>5 DEF Flow, UpAsks, Unused
  <2> QED BY <2>2, <2>3, <2>4, <2>6, <2>7, <2>8 DEF Flow
<1> QED BY <1>1, <1>2, <1>6, <1>9, <1>10, <1>11, <1>12 DEF FeedInv

\* The first of what a subscription has queued: the notice, or the frame of
\* log that its reader gets next.
LEMMA QueueHead ==
    ASSUME FeedInv, NEW s \in Subs, sub[s].queue # <<>>
    PROVE  /\ Head(sub[s].queue) = sub[s].queue[1]
           /\ \/ sub[s].queue[1] \in Overflows
              \/ /\ sub[s].queue[1] \in Frames /\ at[s] + 1 \in 1..Len(log)
                 /\ sub[s].queue[1] = log[at[s] + 1]
<1>1. /\ sub[s] \in SubStates /\ at[s] \in Nat /\ at[s] <= Len(log) /\ Len(log) \in Nat
      /\ sub[s].queue \in Seq(Frames \cup Overflows)
      /\ log \in Seq(Frames) /\ QueueOk(sub[s], at[s], log)
  BY SubTypes
<1>2. Head(sub[s].queue) = sub[s].queue[1] /\ Len(sub[s].queue) \in Nat \ {0}
  BY <1>1, HeadTailProperties, EmptySeq, LenProperties
<1>3. CASE sub[s].queue[1] \in Overflows
  BY <1>2, <1>3
<1>4. CASE sub[s].queue[1] \notin Overflows
  <2>1. PICK a : a = at[s]
    OBVIOUS
  <2>2. PICK h \in a..Len(log) : /\ Len(sub[s].queue) = h - a /\ sub[s].queue = Cut(log, a, h)
                                 /\ sub[s].queue \in Seq(Frames)
    BY <1>1, <1>4, <2>1, QueueIsCut
  <2>3. h \in 0..Len(log) /\ a \in 0..h /\ 1 \in 1..h - a /\ a + 1 \in 1..Len(log) /\ 1 \in 1..Len(sub[s].queue)
    BY <1>1, <1>2, <2>1, <2>2
  <2>4. \A k \in 1..h - a : Cut(log, a, h)[k] = log[a + k]
    BY <1>1, <2>3, CutProperties
  <2>5. sub[s].queue[1] \in Frames
    BY <2>2, <2>3, ElementOfSeq
  <2>6. sub[s].queue[1] = log[a + 1]
    BY <2>2, <2>3, <2>4
  <2> QED BY <1>2, <2>1, <2>3, <2>5, <2>6
<1> QED BY <1>3, <1>4

\* What is on its way when one more thing is sent.
LEMMA DownAppend ==
    ASSUME FTypeOK, NEW d \in Items, down' = Append(down, d)
    PROVE  /\ down' \in Seq(Items) /\ Len(down) \in Nat /\ Len(down') = Len(down) + 1
           /\ down'[Len(down) + 1] = d /\ down' # <<>>
           /\ \A i \in 1..Len(down) : down'[i] = down[i]
           /\ down # <<>> => Len(down) \in 1..Len(down) /\ 1 \in 1..Len(down)
           /\ down = <<>> => Len(down) = 0
<1>1. down \in Seq(Items)
  BY DEF FTypeOK, Items
<1>2. /\ Len(down) \in Nat /\ down' \in Seq(Items) /\ Len(down') = Len(down) + 1
      /\ down'[Len(down) + 1] = d /\ \A i \in 1..Len(down) : down'[i] = down[i]
  BY <1>1, AppendProperties, LenProperties
<1>3. down' # <<>>
  <2>1. Len(down') # 0
    BY <1>2
  <2> QED BY <2>1, EmptySeq
<1>4. down # <<>> => Len(down) # 0
  BY <1>1, EmptySeq
<1>5. down # <<>> => Len(down) \in 1..Len(down) /\ 1 \in 1..Len(down)
  BY <1>2, <1>4
<1>6. down = <<>> => Len(down) = 0
  BY EmptySeq
<1> QED BY <1>2, <1>3, <1>5, <1>6

\* What is sent goes on where what is on its way ends.
LEMMA SentFits ==
    ASSUME FeedInv, DownLogged, DownInOrder, DownJoins, NEW d \in Items, down' = Append(down, d),
           UNCHANGED <<log, draft, seqByRun>>,
           d \in Frames => \E k \in 1..Len(log) :
                              /\ log[k] = d
                              /\ down = <<>> => Joined(k)
                              /\ down # <<>> /\ down[Len(down)] \in Frames
                                   => k - 1 \in 1..Len(log) /\ log[k - 1] = down[Len(down)]
    PROVE  DownLogged' /\ DownInOrder' /\ DownJoins'
<1>0. FTypeOK /\ Extends
  BY ExtendsSame DEF FeedInv
<1>1. /\ down' \in Seq(Items) /\ Len(down) \in Nat /\ Len(down') = Len(down) + 1
      /\ down'[Len(down) + 1] = d /\ down' # <<>>
      /\ \A i \in 1..Len(down) : down'[i] = down[i]
      /\ down # <<>> => Len(down) \in 1..Len(down) /\ 1 \in 1..Len(down)
      /\ down = <<>> => Len(down) = 0
  BY <1>0, DownAppend
<1>2. PICK n : n = Len(down)
  OBVIOUS
<1>3. \A i \in 1..n + 1 : i \in 1..n \/ i = n + 1
  BY <1>1, <1>2
<1>4. DownLogged'
  <2> SUFFICES ASSUME NEW i \in 1..n + 1, down'[i] \in Frames
               PROVE  \E k \in 1..Len(log) : log[k] = down'[i]
    BY <1>1, <1>2 DEF DownLogged
  <2>1. CASE i \in 1..n
    BY <1>1, <1>2, <2>1 DEF DownLogged
  <2>2. CASE i = n + 1
    BY <1>1, <1>2, <2>2
  <2> QED BY <1>3, <2>1, <2>2
<1>5. DownInOrder'
  <2> SUFFICES ASSUME NEW i \in 1..n + 1, down'[i] \in Frames, i + 1 <= n + 1, down'[i + 1] \in Frames
               PROVE  \E k \in 1..Len(log) : /\ log[k] = down'[i]
                                             /\ k + 1 <= Len(log) /\ log[k + 1] = down'[i + 1]
    BY <1>1, <1>2 DEF DownInOrder
  <2>1. i \in 1..n /\ down'[i] = down[i]
    BY <1>1, <1>2
  <2>2. CASE i + 1 \in 1..n
    <3>1. down'[i + 1] = down[i + 1] /\ i + 1 <= Len(down) /\ i \in 1..Len(down)
      BY <1>1, <1>2, <2>1, <2>2
    <3>2. down[i] \in Frames /\ down[i + 1] \in Frames
      BY <2>1, <3>1
    <3> QED BY <2>1, <3>1, <3>2 DEF DownInOrder
  <2>3. CASE i + 1 = n + 1
    <3>1. i = n /\ down'[i + 1] = d
      BY <1>1, <1>2, <2>1, <2>3
    <3>2. down # <<>>
      BY <1>1, <1>2, <2>1
    <3>3. PICK k \in 1..Len(log) : log[k] = d /\ k - 1 \in 1..Len(log) /\ log[k - 1] = down[i]
      BY <1>2, <2>1, <3>1, <3>2
    <3>4. PICK j \in 1..Len(log) : j = k - 1
      BY <3>3
    <3>5. j + 1 = k /\ j + 1 <= Len(log)
      BY <1>0, <3>4 DEF Extends
    <3> QED BY <2>1, <3>1, <3>3, <3>4, <3>5
  <2> QED BY <1>2, <1>1, <2>1, <2>2, <2>3
<1>6. DownJoins'
  <2> SUFFICES ASSUME down'[1] \in Frames
               PROVE  \E k \in 1..Len(log') : log'[k] = down'[1] /\ Joined(k)'
    BY DEF DownJoins
  <2>1. \E k \in 1..Len(log) : log[k] = down'[1] /\ Joined(k)
    <3>1. CASE down = <<>>
      BY <1>1, <3>1
    <3>2. CASE down # <<>>
      BY <1>1, <3>2 DEF DownJoins
    <3> QED BY <3>1, <3>2
  <2>2. PICK k \in 1..Len(log) : log[k] = down'[1] /\ Joined(k)
    BY <2>1
  <2>3. Joined(k)'
    BY <1>0, <2>2, JoinedGrows
  <2> QED BY <2>2, <2>3
<1> QED BY <1>4, <1>5, <1>6

\* A frame is taken from the queue of a subscription.
LEMMA TakeFrameIs ==
    ASSUME FeedInv, NEW s \in Subs, sub[s].queue # <<>>, sub[s].queue[1] \in Frames, TakeFrame(s)
    PROVE  /\ UNCHANGED <<closed, log>> /\ at'[s] = at[s] + 1
           /\ sub[s].used /\ ~Noticed(s) /\ SubsOk'
           /\ \A t \in Subs : sub'[t].used = sub[t].used
<1>1. /\ sub \in [Subs -> SubStates] /\ at \in [Subs -> Nat] /\ SubsOk
      /\ sub[s].queue[1] \notin Overflows
  BY FrameOrNotice DEF FeedInv, StreamInv, TypeOK, SubStates
<1>2. Head(sub[s].queue) = sub[s].queue[1]
  BY QueueHead
<1>3. /\ sub' = [sub EXCEPT ![s].queue = Tail(@)] /\ at' = [at EXCEPT ![s] = @ + 1]
      /\ UNCHANGED <<closed, log>>
  BY <1>1, <1>2 DEF TakeFrame
<1>4. /\ \A t \in Subs : t # s => sub'[t] = sub[t]
      /\ sub'[s].queue = Tail(sub[s].queue) /\ sub'[s].closed = sub[s].closed
      /\ sub'[s].used = sub[s].used /\ sub'[s].attached = sub[s].attached
      /\ at'[s] = at[s] + 1
  BY <1>1, <1>3 DEF SubStates
<1>5. sub[s].used /\ ~Noticed(s) /\ (sub[s].closed => closed)
  BY <1>1 DEF SubsOk, Noticed
<1>6. ~Noticed(s)'
  <2>1. /\ sub[s] \in SubStates /\ at[s] \in Nat /\ log \in Seq(Frames) /\ QueueOk(sub[s], at[s], log)
    BY SubTypes
  <2>2. sub[s].queue \in Seq(Frames)
    BY <1>1, <2>1, QueueIsCut
  <2>3. Tail(sub[s].queue) \in Seq(Frames)
    BY <2>2, HeadTailProperties
  <2>4. Tail(sub[s].queue) # <<>> => Tail(sub[s].queue)[1] \in Frames
    <3>1. Tail(sub[s].queue) # <<>> => Len(Tail(sub[s].queue)) \in Nat \ {0}
      BY <2>3, LenProperties, EmptySeq
    <3>2. Tail(sub[s].queue) # <<>> => 1 \in 1..Len(Tail(sub[s].queue))
      BY <3>1
    <3> QED BY <2>3, <3>2, ElementOfSeq
  <2> QED BY <1>4, <2>4, FrameOrNotice DEF Noticed
<1>7. SubsOk'
  <2> SUFFICES ASSUME NEW t \in Subs
               PROVE  /\ ~sub'[t].used => sub'[t].queue = <<>> /\ ~sub'[t].closed /\ ~sub'[t].attached
                      /\ Noticed(t)' => sub'[t].closed
                      /\ sub'[t].closed => closed' \/ Noticed(t)'
    BY DEF SubsOk
  <2>1. CASE t = s
    BY <1>3, <1>4, <1>5, <1>6, <2>1
  <2>2. CASE t # s
    BY <1>1, <1>3, <1>4, <2>2 DEF SubsOk, Noticed
  <2> QED BY <2>1, <2>2
<1>8. \A t \in Subs : sub'[t].used = sub[t].used
  BY <1>4
<1> QED BY <1>3, <1>4, <1>5, <1>7, <1>8

\* What a step of Forward does to the socket.
LEMMA ForwardSends ==
    ASSUME FeedInv, NEW s \in Subs, Forward(s)
    PROVE  /\ sub[s].queue # <<>> /\ sub[s].queue[1] \in Frames \cup Overflows
           /\ down' = Append(down, sub[s].queue[1])
           /\ UNCHANGED <<conn, up, cur, mounted, last, seqByRun, draft, restart, crossed, skipped>>
           /\ sub[s].used /\ conn = "live" /\ FTypeOK /\ SocketOk'
           /\ down' \in Seq(Items) /\ Len(down') <= Outbox
           /\ UNCHANGED log /\ Extends /\ StreamInv'
           /\ FTypeOK'
<1>1. /\ sub[s].queue # <<>> /\ Len(down) < Outbox /\ down' = Append(down, Head(sub[s].queue))
      /\ UNCHANGED <<conn, up, cur, mounted, last, seqByRun, draft, restart, crossed, skipped>>
      /\ UNCHANGED log /\ StreamInv /\ FTypeOK
  BY DEF Forward, TakeFrame, tabVars, FeedInv
<1>2. Head(sub[s].queue) = sub[s].queue[1] /\ sub[s].queue[1] \in Frames \cup Overflows
  BY <1>1, QueueHead
<1>3. PICK d : d = sub[s].queue[1]
  OBVIOUS
<1>4. d \in Items /\ d # Hello
  BY <1>2, <1>3, FrameOrNotice DEF Items
<1>5. /\ down' \in Seq(Items) /\ Len(down) \in Nat /\ Len(down') = Len(down) + 1
      /\ down'[Len(down) + 1] = d /\ \A i \in 1..Len(down) : down'[i] = down[i]
  BY <1>1, <1>2, <1>3, <1>4, DownAppend
<1>6. Len(down') <= Outbox
  BY <1>1, <1>5, FeedAssumption
<1>7. sub[s].used /\ conn = "live"
  BY <1>1 DEF FeedInv, SubsOk, SocketOk, Unused
<1>8. SocketOk'
  <2>1. \A i \in 1..Len(down') : i \in 1..Len(down) \/ i = Len(down) + 1
    BY <1>5
  <2>2. \A i \in 1..Len(down) : down[i] # Hello
    BY <1>7 DEF FeedInv, SocketOk
  <2>3. \A i \in 1..Len(down') : down'[i] # Hello
    BY <1>4, <1>5, <2>1, <2>2
  <2>4. conn' = "live" /\ conn' # "offline" /\ conn' # "connecting"
    BY <1>1, <1>7
  <2> QED BY <2>3, <2>4 DEF SocketOk
<1>9. StreamInv' /\ Extends
  <2>1. [FNext]_fvars
    BY DEF FNext, SocketNext
  <2> QED BY <1>1, <2>1, FeedStream, ExtendsSame
<1>10. FTypeOK'
  <2>1. TypeOK'
    BY <1>9 DEF StreamInv
  <2> QED BY <1>1, <1>5, <1>6, <2>1 DEF FTypeOK, Items
<1> QED BY <1>1, <1>2, <1>5, <1>6, <1>7, <1>8, <1>9, <1>10

LEMMA ForwardFrameFlow ==
    ASSUME FeedInv, Flow, NEW s \in Subs, Forward(s), sub[s].queue[1] \in Frames
    PROVE  Flow'
<1>1. /\ sub[s].queue # <<>>
      /\ down' = Append(down, sub[s].queue[1])
      /\ UNCHANGED <<conn, up, cur, mounted, last, seqByRun, draft, restart, crossed, skipped>>
      /\ sub[s].used /\ FTypeOK /\ UNCHANGED log /\ Extends
  BY ForwardSends
<1>2. /\ Head(sub[s].queue) = sub[s].queue[1] /\ sub[s].queue[1] \notin Overflows
      /\ at[s] + 1 \in 1..Len(log) /\ sub[s].queue[1] = log[at[s] + 1]
  BY <1>1, QueueHead, FrameOrNotice
<1>3. TakeFrame(s)
  BY <1>2 DEF Forward
<1>4. /\ UNCHANGED closed /\ at'[s] = at[s] + 1 /\ ~Noticed(s)
      /\ \A t \in Subs : sub'[t].used = sub[t].used
  BY <1>1, <1>3, TakeFrameIs
<1>5. PICK d : d = sub[s].queue[1]
  OBVIOUS
<1>6. PICK k : k = at[s] + 1
  OBVIOUS
<1>7. d \in Frames /\ d \in Items /\ k \in 1..Len(log) /\ log[k] = d /\ at[s] \in Nat /\ k - 1 = at[s]
  BY <1>2, <1>5, <1>6, SubTypes DEF Items
<1>8. More(s) /\ \A t \in Subs : sub[t].used => t = s
  BY <1>1 DEF Flow, OneSub, More
<1>9. down = <<>> => Joined(k)
  BY <1>4, <1>6, <1>8 DEF Flow, SubJoins
<1>10. down # <<>> /\ down[Len(down)] \in Frames => k - 1 \in 1..Len(log) /\ log[k - 1] = down[Len(down)]
  <2>1. down # <<>> /\ down[Len(down)] \in Frames => at[s] # 0 /\ log[at[s]] = down[Len(down)]
    BY <1>8 DEF Flow, SubFollows
  <2>2. at[s] # 0 => at[s] \in 1..Len(log)
    BY <1>6, <1>7
  <2> QED BY <1>7, <2>1, <2>2
<1>11. DownLogged' /\ DownInOrder' /\ DownJoins'
  BY <1>1, <1>5, <1>7, <1>9, <1>10, SentFits DEF Flow
<1>12. /\ Len(down) \in Nat /\ Len(down') = Len(down) + 1 /\ down'[Len(down) + 1] = d /\ down' # <<>>
  BY <1>1, <1>5, <1>7, DownAppend
<1>13. SubFollows'
  <2> SUFFICES ASSUME NEW t \in Subs, sub'[t].used
               PROVE  at'[t] # 0 /\ log'[at'[t]] = down'[Len(down')]
    BY DEF SubFollows, More
  <2>1. t = s
    BY <1>4, <1>8
  <2> QED BY <1>1, <1>4, <1>6, <1>7, <1>12, <2>1
<1>14. SubJoins'
  BY <1>12 DEF SubJoins
<1>15. NoneLeft'
  BY <1>1, <1>4 DEF NoneLeft, Unused
<1>16. UpAsks'
  BY <1>1 DEF Flow, UpAsks, Unused
<1>17. OneSub'
  BY <1>1, <1>4 DEF Flow, OneSub
<1>18. LastJoins'
  BY <1>1, LastKept DEF Flow
<1> QED BY <1>11, <1>13, <1>14, <1>15, <1>16, <1>17, <1>18 DEF Flow

LEMMA ForwardNoticeFlow ==
    ASSUME FeedInv, Flow, NEW s \in Subs, Forward(s), sub[s].queue[1] \in Overflows
    PROVE  Flow'
<1>1. /\ sub[s].queue # <<>>
      /\ down' = Append(down, sub[s].queue[1])
      /\ UNCHANGED <<conn, up, cur, mounted, last, seqByRun, draft, restart, crossed, skipped>>
      /\ sub[s].used /\ FTypeOK /\ UNCHANGED log /\ Extends
  BY ForwardSends
<1>2. /\ Head(sub[s].queue) = sub[s].queue[1] /\ sub[s].queue[1] \notin Frames
  BY <1>1, QueueHead, FrameOrNotice
<1>3. sub' = [sub EXCEPT ![s] = NewSub]
  BY <1>2 DEF Forward
<1>4. \A t \in Subs : ~sub'[t].used
  <2>1. sub \in [Subs -> SubStates]
    BY DEF FeedInv, StreamInv, TypeOK, SubStates
  <2>2. \A t \in Subs : sub[t].used => t = s
    BY <1>1 DEF Flow, OneSub
  <2>3. ~NewSub.used
    BY DEF NewSub
  <2> QED BY <1>3, <2>1, <2>2, <2>3
<1>5. PICK d : d = sub[s].queue[1]
  OBVIOUS
<1>6. d \notin Frames /\ d \in Items
  BY <1>2, <1>5 DEF Items
<1>7. DownLogged' /\ DownInOrder' /\ DownJoins'
  BY <1>1, <1>5, <1>6, SentFits DEF Flow
<1>8. /\ Len(down) \in Nat /\ Len(down') = Len(down) + 1 /\ down'[Len(down) + 1] = d /\ down' # <<>>
  BY <1>1, <1>5, <1>6, DownAppend
<1>9. SubFollows' /\ SubJoins' /\ OneSub'
  BY <1>4 DEF SubFollows, SubJoins, OneSub, More
<1>10. NoneLeft'
  BY <1>6, <1>8 DEF NoneLeft
<1>11. UpAsks'
  BY <1>1 DEF Flow, UpAsks, Unused
<1>12. LastJoins'
  BY <1>1, LastKept DEF Flow
<1> QED BY <1>7, <1>9, <1>10, <1>11, <1>12 DEF Flow

LEMMA ForwardFeed == ASSUME FeedInv, NEW s \in Subs, Forward(s) PROVE FeedInv'
<1>1. /\ sub[s].queue # <<>> /\ sub[s].queue[1] \in Frames \cup Overflows
      /\ UNCHANGED <<mounted, draft, crossed, skipped>> /\ StreamInv' /\ FTypeOK' /\ SocketOk'
  BY ForwardSends
<1>2. Head(sub[s].queue) = sub[s].queue[1]
  BY <1>1, QueueHead
<1>3. SubsOk'
  <2>1. CASE sub[s].queue[1] \in Frames
    <3>1. TakeFrame(s)
      BY <1>2, <2>1, FrameOrNotice DEF Forward
    <3> QED BY <1>1, <2>1, <3>1, TakeFrameIs
  <2>2. CASE sub[s].queue[1] \in Overflows
    <3>1. sub' = [sub EXCEPT ![s] = NewSub] /\ UNCHANGED closed
      BY <1>2, <2>2 DEF Forward
    <3> QED BY <3>1, ResetSubsOk
  <2> QED BY <1>1, <2>1, <2>2
<1>4. NoHoleInDraft'
  BY <1>1 DEF FeedInv, NoHoleInDraft
<1>5. ASSUME mounted, ~crossed PROVE Flow'
  BY <1>1, <1>5, ForwardFrameFlow, ForwardNoticeFlow DEF FeedInv
<1> QED BY <1>1, <1>3, <1>4, <1>5 DEF FeedInv

\* A new subscription starts behind the frame that it resumes from.
LEMMA ResumesAt ==
    ASSUME StreamInv, NEW r \in Runs, NEW seq \in Nat, Resumes(r, seq),
           NEW i \in 1..Len(log), log[i].run = r, log[i].seq = seq
    PROVE  Position(r, seq) = i
<1>0. TypeOK /\ LogOk
  BY DEF StreamInv
<1>1. PICK e : Laid(e)
  BY DEF StreamInv
<1>2. phase[r] \in {"live", "ended"} /\ ~(seq >= NextSeq(r))
  BY DEF Resumes
<1>3. PICK j \in 1..Len(runOrder) : runOrder[j] = r
  BY <1>0, <1>2, InOrderOf
<1>4. /\ e[r] \in 1..Len(log) /\ log[e[r]].seq \in 1..e[r] /\ NextSeq(r) = log[e[r]].seq + 1
  BY <1>0, <1>1, <1>3, RingFacts
<1>5. seq \in 1..log[e[r]].seq
  <2>1. seq \in 1..i
    BY <1>0 DEF LogOk
  <2> QED BY <1>2, <1>4, <2>1
<1>6. PICK k : k = e[r] - log[e[r]].seq + seq
  OBVIOUS
<1>7. k \in 1..e[r] /\ log[k].run = r /\ log[k].seq = seq
  BY <1>0, <1>1, <1>3, <1>5, <1>6, FrameAt, SMTT(30), ZenonT(60), Z3T(60)
<1>8. k \in 1..Len(log)
  <2>1. Len(log) \in Nat
    BY <1>0, LenProperties DEF TypeOK
  <2> QED BY <1>4, <1>7, <2>1
<1>9. k = i
  BY <1>0, <1>7, <1>8 DEF LogOk
<1>10. Position(r, seq) = k
  <2>1. seq <= log[e[r]].seq
    BY <1>4, <1>5
  <2> QED BY <1>0, <1>1, <1>3, <1>6, <2>1, PositionIs
<1> QED BY <1>9, <1>10

\* A subscription that was offered frames.
LEMMA OfferedStart ==
    ASSUME NEW q \in Seq(Frames), NEW u, u = [OfferAll(Opened, q) EXCEPT !.attached = TRUE]
    PROVE  /\ u \in SubStates /\ u.used /\ u.attached
           /\ \/ u.closed /\ Len(u.queue) = 1 /\ u.queue[1] \in Overflows
              \/ ~u.closed /\ u.queue \in Seq(Frames)
<1>1. PICK v : v = OfferAll(Opened, q)
  OBVIOUS
<1>2. /\ v \in SubStates /\ v.used
      /\ \/ ~v.closed /\ v.queue = q
         \/ v.closed /\ Len(v.queue) = 1 /\ v.queue[1] \in Overflows
  BY <1>1, OfferedAll
<1>3. u = [v EXCEPT !.attached = TRUE]
  BY <1>1
<1>4. u \in SubStates /\ u.used = v.used /\ u.attached /\ u.queue = v.queue /\ u.closed = v.closed
  BY <1>2, <1>3 DEF SubStates
<1> QED BY <1>2, <1>4

\* What a subscription that the tab asked for starts as.
StartsAs(s, u) ==
    /\ ~sub[s].used /\ sub' = [sub EXCEPT ![s] = u] /\ u.used
    /\ \/ closed /\ u.closed /\ u.queue = <<>>
       \/ ~closed /\ u.closed /\ Len(u.queue) = 1 /\ u.queue[1] \in Overflows
       \/ /\ ~closed /\ ~u.closed /\ u.queue \in Seq(Frames)
          /\ up[1].last # Nil => \A i \in 1..Len(log) :
                log[i].run = up[1].last[1] /\ log[i].seq = up[1].last[2] => at'[s] = i

LEMMA SubscribeStarts ==
    ASSUME FeedInv, NEW s \in Subs, NEW r \in Runs, NEW seq \in Nat, up[1].last = <<r, seq>>,
           Subscribe(s, r, seq)
    PROVE  \E u \in SubStates : StartsAs(s, u)
<1>0. /\ StreamInv /\ sub \in [Subs -> SubStates] /\ at \in [Subs -> Nat] /\ log \in Seq(Frames)
      /\ Len(log) \in Nat
  BY LenProperties DEF FeedInv, StreamInv, TypeOK, SubStates
<1>1. ~sub[s].used
  BY DEF Subscribe
<1>2. CASE closed /\ sub' = [sub EXCEPT ![s] = [Opened EXCEPT !.closed = TRUE]]
  <2>1. PICK u : u = [Opened EXCEPT !.closed = TRUE]
    OBVIOUS
  <2>2. u \in SubStates /\ u.queue = <<>> /\ u.closed /\ u.used
    BY <2>1, OpenedIs DEF SubStates
  <2> QED BY <1>1, <1>2, <2>1, <2>2 DEF StartsAs
<1>3. ASSUME ~closed, NEW why \in {"evicted", "unknown_run"}, sub' = [sub EXCEPT ![s] = Overflow(Opened, why)]
      PROVE  \E u \in SubStates : StartsAs(s, u)
  <2>1. PICK u : u = Overflow(Opened, why)
    OBVIOUS
  <2>2. u \in SubStates /\ u.closed /\ u.used /\ u.queue = <<[overflow |-> why]>>
    BY <2>1, OpenedIs, OverflowType
  <2>3. [overflow |-> why] \in Overflows
    BY DEF Overflows
  <2>4. Len(u.queue) = 1 /\ u.queue[1] \in Overflows
    BY <2>2, <2>3
  <2> QED BY <1>1, <1>3, <2>1, <2>2, <2>4 DEF StartsAs
<1>4. CASE /\ ~closed /\ Resumes(r, seq)
           /\ sub' = [sub EXCEPT ![s] =
                         [OfferAll(Opened, Backlog(r, seq)) EXCEPT !.attached = TRUE]]
  <2>1. PICK back : back = Backlog(r, seq)
    OBVIOUS
  <2>2. back \in Seq(Frames)
    <3>1. PICK p : p = Position(r, seq)
      OBVIOUS
    <3>2. p \in 0..Len(log) /\ back = Cut(log, p, Len(log)) /\ Len(log) \in 0..Len(log)
      BY <1>0, <1>4, <2>1, <3>1, BacklogIs
    <3> QED BY <1>0, <3>2, CutProperties
  <2>3. PICK u : u = [OfferAll(Opened, back) EXCEPT !.attached = TRUE]
    OBVIOUS
  <2>4. /\ u \in SubStates /\ u.used /\ u.attached
        /\ \/ u.closed /\ Len(u.queue) = 1 /\ u.queue[1] \in Overflows
           \/ ~u.closed /\ u.queue \in Seq(Frames)
    BY <2>2, <2>3, OfferedStart
  <2>5. sub' = [sub EXCEPT ![s] = u] /\ sub'[s] = u
    BY <1>0, <1>4, <2>1, <2>3
  <2>6. at'[s] = Position(r, seq)
    <3>1. at' = [at EXCEPT ![s] = IF sub'[s].attached THEN Position(r, seq) ELSE Len(log)]
      BY DEF Subscribe
    <3> QED BY <1>0, <2>4, <2>5, <3>1
  <2>7. \A i \in 1..Len(log) : log[i].run = up[1].last[1] /\ log[i].seq = up[1].last[2] => at'[s] = i
    <3> SUFFICES ASSUME NEW i \in 1..Len(log), log[i].run = up[1].last[1], log[i].seq = up[1].last[2]
                 PROVE  at'[s] = i
      OBVIOUS
    <3>1. log[i].run = r /\ log[i].seq = seq
      OBVIOUS
    <3> QED BY <1>0, <1>4, <2>6, <3>1, ResumesAt
  <2> QED BY <1>1, <1>4, <2>4, <2>5, <2>7 DEF StartsAs
<1> QED BY <1>2, <1>3, <1>4, SubscribeCases

LEMMA SubscribeActiveStarts ==
    ASSUME FeedInv, NEW s \in Subs, up[1].last = Nil, SubscribeActive(s)
    PROVE  \E u \in SubStates : StartsAs(s, u)
<1>0. StreamInv /\ log \in Seq(Frames) /\ Len(log) \in Nat
  BY LenProperties DEF FeedInv, StreamInv, TypeOK
<1>1. PICK back : back = InOrder([x \in Runs |-> IF Replayable(x) THEN ring[x] ELSE <<>>])
  OBVIOUS
<1>2. PICK p \in 0..Len(log) : back = Cut(log, p, Len(log))
  BY <1>0, <1>1, ActiveBacklogIs
<1>3. back \in Seq(Frames)
  <2>1. Len(log) \in 0..Len(log)
    BY <1>0
  <2> QED BY <1>0, <1>2, <2>1, CutProperties
<1>4. /\ ~sub[s].used
      /\ sub' = [sub EXCEPT ![s] = IF closed THEN [Opened EXCEPT !.closed = TRUE]
                                   ELSE [OfferAll(Opened, back) EXCEPT !.attached = TRUE]]
  BY <1>1 DEF SubscribeActive
<1>5. CASE closed
  <2>1. PICK u : u = [Opened EXCEPT !.closed = TRUE]
    OBVIOUS
  <2>2. u \in SubStates /\ u.queue = <<>> /\ u.closed /\ u.used
    BY <2>1, OpenedIs DEF SubStates
  <2> QED BY <1>4, <1>5, <2>1, <2>2 DEF StartsAs
<1>6. CASE ~closed
  <2>1. PICK u : u = [OfferAll(Opened, back) EXCEPT !.attached = TRUE]
    OBVIOUS
  <2>2. /\ u \in SubStates /\ u.used
        /\ \/ u.closed /\ Len(u.queue) = 1 /\ u.queue[1] \in Overflows
           \/ ~u.closed /\ u.queue \in Seq(Frames)
    BY <1>3, <2>1, OfferedStart
  <2> QED BY <1>4, <1>6, <2>1, <2>2 DEF StartsAs
<1> QED BY <1>5, <1>6

\* A message of the tab is taken from the socket.
LEMMA TakenUp ==
    ASSUME FTypeOK, up # <<>>, up' = Tail(up), \A i \in 1..Len(up) : up[i].op = "sub" /\ (i # 1 => up[i].last = Nil)
    PROVE  \A i \in 1..Len(up') : up'[i].op = "sub" /\ up'[i].last = Nil
<1>1. /\ Len(up) \in Nat \ {0} /\ Len(up') = Len(up) - 1
      /\ \A i \in 1..Len(up) - 1 : up'[i] = up[i + 1]
  BY UpHead
<1>2. \A i \in 1..Len(up') : up'[i] = up[i + 1] /\ i + 1 \in 1..Len(up) /\ i + 1 # 1
  BY <1>1
<1> QED BY <1>2

LEMMA HandleSubFlow ==
    ASSUME FeedInv, Flow, Unused, NEW s \in Subs, HandleSub(s)
    PROVE  Flow'
<1>1. /\ up # <<>> /\ cur' = s /\ up' = Tail(up)
      /\ UNCHANGED <<closed, log, conn, down, mounted, last, seqByRun, draft, restart>>
  BY DEF HandleSub, SubscribeActive, Subscribe, tabVars
<1>2. PICK u \in SubStates : StartsAs(s, u)
  BY SubscribeStarts, SubscribeActiveStarts, HandleSubIs DEF FeedInv
<1>3. /\ sub' = [sub EXCEPT ![s] = u] /\ u.used
      /\ \/ closed /\ u.closed /\ u.queue = <<>>
         \/ ~closed /\ u.closed /\ Len(u.queue) = 1 /\ u.queue[1] \in Overflows
         \/ /\ ~closed /\ ~u.closed /\ u.queue \in Seq(Frames)
            /\ up[1].last # Nil => \A i \in 1..Len(log) :
                  log[i].run = up[1].last[1] /\ log[i].seq = up[1].last[2] => at'[s] = i
  BY <1>2 DEF StartsAs
<1>4. sub'[s] = u /\ \A t \in Subs : sub'[t].used => t = s
  <2>1. sub \in [Subs -> SubStates]
    BY DEF FeedInv, StreamInv, TypeOK, SubStates
  <2> QED BY <1>3, <2>1 DEF Unused
<1>5. Extends /\ conn = "live" /\ FTypeOK
  BY <1>1, ExtendsSame DEF FeedInv, SocketOk
<1>6. DownLogged' /\ DownInOrder'
  BY <1>1, <1>5, DownKept DEF Flow
<1>7. DownJoins'
  BY <1>1, <1>5, DownJoinsKept DEF Flow
<1>8. LastJoins'
  BY <1>1, <1>5, LastKept DEF Flow
<1>9. OneSub'
  BY <1>1, <1>4 DEF OneSub
<1>10. NoneLeft'
  BY <1>3, <1>4 DEF NoneLeft, Unused
<1>11. SubFollows'
  <2> SUFFICES ASSUME NEW t \in Subs, More(t)', down # <<>>, down[Len(down)] \in Frames
               PROVE  FALSE
    BY <1>1 DEF SubFollows
  <2>1. t = s
    BY <1>4 DEF More
  <2>2. closed
    BY DEF Flow, NoneLeft
  <2> QED BY <1>3, <1>4, <2>1, <2>2 DEF More
<1>12. SubJoins'
  <2> SUFFICES ASSUME NEW t \in Subs, down = <<>>, More(t)', ~Noticed(t)'
               PROVE  Joined(at[t] + 1)'
    BY <1>1 DEF SubJoins
  <2>1. t = s
    BY <1>4 DEF More
  <2>2. u.closed /\ Len(u.queue) = 1 /\ u.queue[1] \in Overflows => Noticed(s)'
    <3>1. Len(u.queue) = 1 => u.queue # <<>>
      BY EmptySeq
    <3> QED BY <1>4, <3>1 DEF Noticed
  <2>3. ~closed /\ (up[1].last # Nil => \A i \in 1..Len(log) :
                      log[i].run = up[1].last[1] /\ log[i].seq = up[1].last[2] => at'[s] = i)
    BY <1>3, <1>4, <2>1, <2>2 DEF More
  <2>4. CASE last = Nil
    <3>1. draft' = NoDrafts
      BY <1>1, <2>4 DEF Flow, LastJoins
    <3> QED BY <3>1, NoDraftsFit DEF Joined
  <2>5. CASE last # Nil
    <3>1. up[1].last = last
      BY <1>5, <2>3, <2>5 DEF Flow, NoneLeft
    <3>2. PICK i \in 1..Len(log) : log[i].run = last[1] /\ log[i].seq = last[2] /\ Joined(i + 1)
      BY <2>5 DEF Flow, LastJoins
    <3>3. at'[t] = i
      BY <2>1, <2>3, <2>5, <3>1, <3>2
    <3>4. PICK x : x = i + 1
      OBVIOUS
    <3>5. Joined(x)'
      BY <1>1, <1>5, <3>2, <3>4, JoinedGrows
    <3>6. x = at'[t] + 1
      BY <3>3, <3>4
    <3> QED BY <3>5, <3>6
  <2> QED BY <2>4, <2>5
<1>13. UpAsks'
  <2>1. \A i \in 1..Len(up) : up[i].op = "sub" /\ (i # 1 => up[i].last = Nil)
    BY DEF Flow, UpAsks
  <2>2. \A i \in 1..Len(up') : up'[i].op = "sub" /\ up'[i].last = Nil
    BY <1>1, <1>5, <2>1, TakenUp
  <2> QED BY <2>2 DEF UpAsks
<1> QED BY <1>6, <1>7, <1>8, <1>9, <1>10, <1>11, <1>12, <1>13 DEF Flow

LEMMA NextSeqNat == ASSUME StreamInv, NEW r \in Runs PROVE NextSeq(r) - 1 \in Nat
<1>1. ring[r] \in Seq(Frames)
  BY DEF StreamInv, TypeOK
<1>2. CASE ring[r] = <<>>
  BY <1>2 DEF NextSeq
<1>3. CASE ring[r] # <<>>
  <2>1. Last(ring[r]) \in Frames
    BY <1>1, <1>3 DEF Last
  <2>2. Last(ring[r]).seq \in Nat
    BY <2>1, FrameFields
  <2> QED BY <1>3, <2>2 DEF NextSeq
<1> QED BY <1>2, <1>3

LEMMA HandleSubFeed == ASSUME FeedInv, NEW s \in Subs, HandleSub(s) PROVE FeedInv'
<1>1. /\ up # <<>> /\ cur' = s /\ up' = Tail(up)
      /\ crossed' = (crossed \/ \E t \in Subs : sub[t].used)
      /\ UNCHANGED <<closed, log, conn, down, mounted, last, seqByRun, draft, restart>>
  BY DEF HandleSub, SubscribeActive, Subscribe, tabVars
<1>2. PICK u \in SubStates : StartsAs(s, u)
  BY SubscribeStarts, SubscribeActiveStarts, HandleSubIs DEF FeedInv
<1>3. StreamInv'
  <2>1. [FNext]_fvars
    BY DEF FNext, SocketNext
  <2> QED BY <2>1, FeedStream DEF FeedInv
<1>4. FTypeOK'
  <2>1. up' \in Seq([op : {"sub", "unsub"}, last : {Nil} \cup (Runs \X Nat)])
    BY <1>1, UpHead DEF UpMsgs, FeedInv
  <2>2. crossed' \in BOOLEAN
    BY <1>1
  <2>3. cur' \in Subs \cup {Nil}
    BY <1>1
  <2>4. skipped' \in [Runs -> Nat]
    <3>1. \A r \in Runs : NextSeq(r) - 1 \in Nat
      BY NextSeqNat DEF FeedInv
    <3> QED BY <3>1 DEF HandleSub, FeedInv, FTypeOK
  <2> QED BY <1>1, <1>3, <2>1, <2>2, <2>3, <2>4 DEF FeedInv, FTypeOK, StreamInv
<1>5. conn = "live"
  BY <1>1 DEF FeedInv, SocketOk
<1>6. SocketOk'
  BY <1>1, <1>5 DEF FeedInv, SocketOk
<1>7. NoHoleInDraft'
  BY <1>1 DEF FeedInv, NoHoleInDraft
<1>8. SubsOk'
  <2>1. sub \in [Subs -> SubStates]
    BY DEF FeedInv, StreamInv, TypeOK, SubStates
  <2>2. sub'[s] = u /\ \A t \in Subs : t # s => sub'[t] = sub[t]
    BY <1>2, <2>1 DEF StartsAs
  <2>3. /\ u.used
        /\ \/ closed /\ u.closed /\ u.queue = <<>>
           \/ u.closed /\ Len(u.queue) = 1 /\ u.queue[1] \in Overflows
           \/ ~u.closed /\ u.queue \in Seq(Frames)
    BY <1>2 DEF StartsAs
  <2> SUFFICES ASSUME NEW t \in Subs
               PROVE  /\ ~sub'[t].used => sub'[t].queue = <<>> /\ ~sub'[t].closed /\ ~sub'[t].attached
                      /\ Noticed(t)' => sub'[t].closed
                      /\ sub'[t].closed => closed' \/ Noticed(t)'
    BY DEF SubsOk
  <2>4. CASE t # s
    BY <1>1, <2>2, <2>4 DEF FeedInv, SubsOk, Noticed
  <2>5. CASE t = s
    <3>1. Len(u.queue) = 1 => u.queue # <<>>
      BY EmptySeq
    <3>2. u.queue \in Seq(Frames) /\ u.queue # <<>> => u.queue[1] \notin Overflows
      <4> SUFFICES ASSUME u.queue \in Seq(Frames), u.queue # <<>> PROVE u.queue[1] \notin Overflows
        OBVIOUS
      <4>1. Len(u.queue) \in Nat \ {0}
        BY LenProperties, EmptySeq
      <4>2. u.queue[1] \in Frames
        BY <4>1, ElementOfSeq
      <4> QED BY <4>2, FrameOrNotice
    <3>3. Noticed(s)' <=> u.queue # <<>> /\ u.queue[1] \in Overflows
      BY <2>2 DEF Noticed
    <3> QED BY <1>1, <2>2, <2>3, <2>5, <3>1, <3>2, <3>3
  <2> QED BY <2>4, <2>5
<1>9. ASSUME mounted', ~crossed' PROVE Flow'
  <2>1. mounted /\ ~crossed /\ Unused
    BY <1>1, <1>9 DEF Unused
  <2> QED BY <2>1, HandleSubFlow DEF FeedInv
<1> QED BY <1>3, <1>4, <1>6, <1>7, <1>8, <1>9 DEF FeedInv

\* The tab takes what comes first.
LEMMA TakenDown ==
    ASSUME FeedInv, Flow, down # <<>>, down' = Tail(down), UNCHANGED vars, UNCHANGED <<up, cur>>
    PROVE  /\ DownLogged' /\ DownInOrder' /\ SubFollows' /\ OneSub' /\ UpAsks'
           /\ down' # <<>> => Len(down) # 1 /\ down'[1] = down[2] /\ 1 \in 1..Len(down) /\ 2 \in 1..Len(down)
           /\ down' # <<>> => down'[Len(down')] = down[Len(down)]
           /\ down' = <<>> => Len(down) = 1
<1>0. /\ UNCHANGED <<sub, log, at, closed>> /\ (Unused' <=> Unused)
      /\ \A s \in Subs : (More(s)' <=> More(s)) /\ (Noticed(s)' <=> Noticed(s))
  BY StreamSame
<1>1. /\ Len(down) \in Nat \ {0} /\ Len(down') = Len(down) - 1
      /\ \A i \in 1..Len(down) - 1 : down'[i] = down[i + 1] /\ i + 1 \in 1..Len(down)
      /\ Len(down) = 1 => down' = <<>>
      /\ Len(down) # 1 => down' # <<>>
  BY DownHead DEF FeedInv
<1>2. down' # <<>> => Len(down) # 1 /\ down'[1] = down[2] /\ 1 \in 1..Len(down) /\ 2 \in 1..Len(down)
  <2> SUFFICES ASSUME down' # <<>>
               PROVE  Len(down) # 1 /\ down'[1] = down[2] /\ 1 \in 1..Len(down) /\ 2 \in 1..Len(down)
    OBVIOUS
  <2>1. Len(down) # 1 /\ 1 \in 1..Len(down) - 1
    BY <1>1
  <2> QED BY <1>1, <2>1
<1>3. down' # <<>> => down'[Len(down')] = down[Len(down)]
  <2> SUFFICES ASSUME down' # <<>> PROVE down'[Len(down')] = down[Len(down)]
    OBVIOUS
  <2>1. PICK n : n = Len(down) - 1
    OBVIOUS
  <2>2. n \in 1..Len(down) - 1 /\ n + 1 = Len(down)
    BY <1>1, <2>1
  <2>3. down'[n] = down[n + 1]
    BY <1>1, <2>2
  <2> QED BY <1>1, <2>1, <2>2, <2>3
<1>4. DownLogged'
  <2> SUFFICES ASSUME NEW i \in 1..Len(down) - 1, down'[i] \in Frames
               PROVE  \E k \in 1..Len(log) : log[k] = down'[i]
    BY <1>0, <1>1 DEF DownLogged
  <2> QED BY <1>1 DEF Flow, DownLogged
<1>5. DownInOrder'
  <2> SUFFICES ASSUME NEW i \in 1..Len(down) - 1, down'[i] \in Frames,
                      i + 1 <= Len(down) - 1, down'[i + 1] \in Frames
               PROVE  \E k \in 1..Len(log) : /\ log[k] = down'[i]
                                             /\ k + 1 <= Len(log) /\ log[k + 1] = down'[i + 1]
    BY <1>0, <1>1 DEF DownInOrder
  <2>1. PICK j : j = i + 1
    OBVIOUS
  <2>2. j \in 1..Len(down) - 1
    BY <1>1, <2>1
  <2>3. /\ down'[i] = down[j] /\ down'[j] = down[j + 1]
        /\ j \in 1..Len(down) /\ j + 1 \in 1..Len(down)
    BY <1>1, <2>1, <2>2
  <2>4. j + 1 <= Len(down)
    BY <1>1, <2>3
  <2>5. down[j] \in Frames /\ down[j + 1] \in Frames
    BY <2>1, <2>3
  <2>6. \E k \in 1..Len(log) : log[k] = down[j] /\ k + 1 <= Len(log) /\ log[k + 1] = down[j + 1]
    BY <2>3, <2>4, <2>5 DEF Flow, DownInOrder
  <2> QED BY <2>1, <2>3, <2>6
<1>6. SubFollows'
  BY <1>0, <1>3 DEF Flow, SubFollows
<1>7. OneSub'
  BY <1>0 DEF Flow, OneSub
<1>8. UpAsks'
  BY DEF Flow, UpAsks
<1> QED BY <1>1, <1>2, <1>3, <1>4, <1>5, <1>6, <1>7, <1>8

\* A frame that is a duplicate leaves the drafts where they are.
LEMMA DuplicateJoins ==
    ASSUME StreamInv, seqByRun \in [Runs -> Nat], NEW k \in 1..Len(log), Joined(k),
           log[k].seq <= seqByRun[log[k].run]
    PROVE  Joined(k + 1)
<1>0. LogOk /\ Len(log) \in Nat
  BY LenProperties DEF StreamInv, TypeOK
<1> SUFFICES ASSUME NEW r \in Runs, draft[r] # <<>>
             PROVE  \E i \in 1..Len(log) :
                       /\ log[i].run = r /\ log[i].seq = seqByRun[r]
                       /\ draft[r][Len(draft[r])] = seqByRun[r]
                       /\ k + 1 <= i + 1 \/ (i + 1 <= Len(log) /\ log[i + 1].run # r)
  BY DEF Joined
<1>1. PICK i \in 1..Len(log) :
         /\ log[i].run = r /\ log[i].seq = seqByRun[r]
         /\ draft[r][Len(draft[r])] = seqByRun[r]
         /\ k <= i + 1 \/ (i + 1 <= Len(log) /\ log[i + 1].run # r)
  BY DEF Joined
<1>2. CASE k + 1 <= i + 1 \/ (i + 1 <= Len(log) /\ log[i + 1].run # r)
  BY <1>1, <1>2
<1>3. CASE k = i + 1 /\ log[k].run = r
  <2>1. k # i /\ ~(k < i)
    BY <1>3
  <2>2. log[k].seq <= log[i].seq /\ log[k].seq \in Nat /\ log[i].seq \in Nat
    BY <1>0, <1>1, <1>3 DEF LogOk
  <2>3. log[k].seq # log[i].seq
    BY <1>0, <1>1, <1>3, <2>1 DEF LogOk
  <2>4. log[k].seq < log[i].seq
    BY <2>2, <2>3
  <2>5. k < i
    BY <1>1, <1>3, <2>4, LogBetween
  <2> QED BY <2>1, <2>5
<1>4. CASE k = i + 1 /\ log[k].run # r
  BY <1>1, <1>4
<1>5. k <= i + 1 => k + 1 <= i + 1 \/ k = i + 1
  OBVIOUS
<1> QED BY <1>1, <1>2, <1>3, <1>4, <1>5

\* A frame that is applied is the next delta of its draft.
LEMMA AppliedNext ==
    ASSUME StreamInv, NEW k \in 1..Len(log), Joined(k), NEW r, r = log[k].run, r \in Runs,
           draft[r] # <<>>, seqByRun[r] < log[k].seq
    PROVE  log[k].seq = draft[r][Len(draft[r])] + 1
<1>0. LogOk /\ Len(log) \in Nat
  BY LenProperties DEF StreamInv, TypeOK
<1>1. PICK i \in 1..Len(log) :
         /\ log[i].run = r /\ log[i].seq = seqByRun[r]
         /\ draft[r][Len(draft[r])] = seqByRun[r]
         /\ k <= i + 1 \/ (i + 1 <= Len(log) /\ log[i + 1].run # r)
  BY DEF Joined
<1>2. /\ i < k /\ log[k].seq = log[i].seq + (k - i)
      /\ log[i + 1].run = log[i].run /\ i + 1 <= k
  BY <1>1, LogBetween
<1>3. k = i + 1
  BY <1>1, <1>2
<1>4. k - i = 1
  BY <1>3
<1> QED BY <1>1, <1>2, <1>4

LEMMA AppliedJoins ==
    ASSUME StreamInv, NEW k \in 1..Len(log), Joined(k), UNCHANGED log,
           draft \in [Runs -> Seq(Nat)], seqByRun \in [Runs -> Nat],
           log[k].run \in Runs, log[k].seq \in Nat,
           seqByRun' = [seqByRun EXCEPT ![log[k].run] = log[k].seq],
           draft' = [draft EXCEPT ![log[k].run] = Append(@, log[k].seq)]
    PROVE  /\ Joined(k + 1)' /\ draft' \in [Runs -> Seq(Nat)] /\ seqByRun' \in [Runs -> Nat]
<1>0. Len(log) \in Nat
  BY LenProperties DEF StreamInv, TypeOK
<1>1. PICK f \in Runs : f = log[k].run
  OBVIOUS
<1>2. PICK n \in Nat : n = log[k].seq
  OBVIOUS
<1>3. /\ draft[f] \in Seq(Nat) /\ Append(draft[f], n) \in Seq(Nat)
      /\ Append(draft[f], n)[Len(Append(draft[f], n))] = n
  <2>1. draft[f] \in Seq(Nat)
    OBVIOUS
  <2> QED BY <2>1, AppendProperties
<1>4. /\ draft' = [draft EXCEPT ![f] = Append(draft[f], n)]
      /\ seqByRun' = [seqByRun EXCEPT ![f] = n]
  BY <1>1, <1>2
<1>5. draft' \in [Runs -> Seq(Nat)] /\ seqByRun' \in [Runs -> Nat]
  BY <1>3, <1>4
<1>6. PICK x : x = k + 1
  OBVIOUS
<1>7. Joined(x)'
  <2> SUFFICES ASSUME NEW r \in Runs, draft'[r] # <<>>
               PROVE  \E i \in 1..Len(log) :
                         /\ log[i].run = r /\ log[i].seq = seqByRun'[r]
                         /\ draft'[r][Len(draft'[r])] = seqByRun'[r]
                         /\ x <= i + 1 \/ (i + 1 <= Len(log) /\ log[i + 1].run # r)
    BY DEF Joined
  <2>1. CASE r = f
    <3>1. draft'[r] = Append(draft[f], n) /\ seqByRun'[r] = n
      BY <1>4, <2>1
    <3> QED BY <1>1, <1>2, <1>3, <1>6, <2>1, <3>1
  <2>2. CASE r # f
    <3>1. draft'[r] = draft[r] /\ seqByRun'[r] = seqByRun[r]
      BY <1>4, <2>2
    <3>2. PICK i \in 1..Len(log) :
             /\ log[i].run = r /\ log[i].seq = seqByRun[r]
             /\ draft[r][Len(draft[r])] = seqByRun[r]
             /\ k <= i + 1 \/ (i + 1 <= Len(log) /\ log[i + 1].run # r)
      BY <3>1 DEF Joined
    <3>3. k <= i + 1 => x <= i + 1 \/ k = i + 1
      BY <1>6
    <3>4. k = i + 1 => i + 1 <= Len(log) /\ log[i + 1].run # r
      BY <1>0, <1>1, <2>2
    <3> QED BY <3>1, <3>2, <3>3, <3>4
  <2> QED BY <2>1, <2>2
<1> QED BY <1>5, <1>6, <1>7

\* What the tab takes leaves room, and the connection is live.
LEMMA TakenTypes ==
    ASSUME FeedInv, down # <<>>, down[1] # Hello, down' = Tail(down), UNCHANGED vars,
           UNCHANGED <<conn, up, cur, mounted, crossed>>,
           last' \in {Nil} \cup (Runs \X Nat), seqByRun' \in [Runs -> Nat],
           draft' \in [Runs -> Seq(Nat)], restart' \in BOOLEAN, skipped' \in [Runs -> Nat]
    PROVE  StreamInv' /\ SubsOk' /\ FTypeOK' /\ SocketOk'
<1>1. StreamInv' /\ SubsOk' /\ (Unused' <=> Unused)
  BY StreamSame
<1>2. /\ Len(down) \in Nat \ {0} /\ Len(down') = Len(down) - 1
      /\ down' \in Seq(Items)
      /\ \A i \in 1..Len(down) - 1 : down'[i] = down[i + 1] /\ i + 1 \in 1..Len(down)
  BY DownHead DEF FeedInv
<1>3. conn = "live"
  <2>1. conn = "connecting" => down[1] = Hello
    BY DEF FeedInv, SocketOk
  <2>2. conn # "offline"
    BY DEF FeedInv, SocketOk
  <2> QED BY <2>1, <2>2 DEF FeedInv, FTypeOK
<1>4. SocketOk'
  <2>1. \A i \in 1..Len(down) : down[i] # Hello
    BY <1>3 DEF FeedInv, SocketOk
  <2>2. \A i \in 1..Len(down') : down'[i] # Hello
    BY <1>2, <2>1
  <2>3. conn' = "live" /\ conn' # "offline" /\ conn' # "connecting"
    BY <1>3
  <2> QED BY <2>2, <2>3 DEF SocketOk
<1>5. FTypeOK'
  <2>1. Len(down') <= Outbox
    <3>1. Len(down) <= Outbox
      BY DEF FeedInv, FTypeOK
    <3> QED BY <1>2, <3>1, FeedAssumption
  <2>2. TypeOK'
    BY <1>1 DEF StreamInv
  <2>3. down' \in Seq(Frames \cup Overflows \cup {Hello})
    BY <1>2 DEF Items
  <2> QED BY <2>1, <2>2, <2>3 DEF FeedInv, FTypeOK
<1> QED BY <1>1, <1>4, <1>5

\* The tab takes a frame and its drafts go on behind it.
LEMMA TakenFrameFlow ==
    ASSUME FeedInv, Flow, down # <<>>, down[1] \in Frames, down' = Tail(down), UNCHANGED vars,
           UNCHANGED <<up, cur, conn>>, NEW k \in 1..Len(log), log[k] = down[1],
           Joined(k + 1)', LastJoins'
    PROVE  Flow'
<1>1. /\ UNCHANGED <<sub, log, at, closed>> /\ (Unused' <=> Unused)
      /\ \A s \in Subs : (More(s)' <=> More(s)) /\ (Noticed(s)' <=> Noticed(s))
  BY StreamSame
<1>2. /\ DownLogged' /\ DownInOrder' /\ SubFollows' /\ OneSub' /\ UpAsks'
      /\ down' # <<>> => Len(down) # 1 /\ down'[1] = down[2] /\ 1 \in 1..Len(down) /\ 2 \in 1..Len(down)
      /\ down' # <<>> => down'[Len(down')] = down[Len(down)]
      /\ down' = <<>> => Len(down) = 1
  BY TakenDown
<1>3. LogOk /\ Len(log) \in Nat
  BY LenProperties DEF FeedInv, StreamInv, TypeOK
<1>4. DownJoins'
  <2> SUFFICES ASSUME down' # <<>>, down'[1] \in Frames
               PROVE  \E j \in 1..Len(log) : log[j] = down'[1] /\ Joined(j)'
    BY <1>1 DEF DownJoins
  <2>1. 1 \in 1..Len(down) /\ 1 + 1 <= Len(down) /\ down[1 + 1] = down'[1]
    <3>1. 1 \in 1..Len(down) /\ 2 \in 1..Len(down) /\ down'[1] = down[2]
      BY <1>2
    <3>2. 1 + 1 = 2
      OBVIOUS
    <3>3. Len(down) \in Nat
      BY LenProperties DEF FeedInv, FTypeOK
    <3> QED BY <3>1, <3>2, <3>3
  <2>2. PICK j \in 1..Len(log) : log[j] = down[1] /\ j + 1 <= Len(log) /\ log[j + 1] = down[1 + 1]
    BY <2>1 DEF Flow, DownInOrder
  <2>3. j = k
    BY <1>3, <2>2, LogOnce
  <2>4. k + 1 \in 1..Len(log)
    BY <1>3, <2>2, <2>3
  <2> QED BY <2>1, <2>2, <2>3, <2>4
<1>5. SubJoins'
  <2> SUFFICES ASSUME NEW s \in Subs, down' = <<>>, More(s)
               PROVE  Joined(at[s] + 1)'
    BY <1>1 DEF SubJoins
  <2>1. at[s] # 0 /\ log[at[s]] = down[1]
    BY <1>2 DEF Flow, SubFollows
  <2>2. at[s] \in 1..Len(log)
    BY <2>1, SubTypes
  <2>3. at[s] = k
    BY <1>3, <2>1, <2>2, LogOnce
  <2> QED BY <1>1, <2>3
<1>6. NoneLeft'
  <2> SUFFICES ASSUME Unused, ~closed
               PROVE  /\ down' = <<>> \/ down'[Len(down')] \notin Frames
                      /\ down' # <<>>
    BY <1>1 DEF NoneLeft
  <2>1. down[Len(down)] \notin Frames
    BY DEF Flow, NoneLeft
  <2>2. Len(down) # 1
    BY <2>1
  <2> QED BY <1>2, <2>1, <2>2
<1> QED BY <1>2, <1>4, <1>5, <1>6 DEF Flow

LEMMA RecvFrameFeed == ASSUME FeedInv, RecvFrame PROVE FeedInv'
<1>0. FTypeOK /\ StreamInv /\ NoHoleInDraft /\ Len(log) \in Nat
  BY LenProperties DEF FeedInv, StreamInv, TypeOK
<1>1. /\ down # <<>> /\ Head(down) \in Frames /\ down' = Tail(down)
      /\ UNCHANGED vars /\ UNCHANGED <<conn, up, cur, crossed>>
  BY DEF RecvFrame
<1>2. Head(down) = down[1] /\ down[1] \in Frames /\ down[1] # Hello
  BY <1>0, <1>1, DownHead, FrameOrNotice
<1>3. /\ UNCHANGED <<sub, log, at, closed>> /\ Extends /\ (Unused' <=> Unused)
  BY <1>1, StreamSame
<1>4. PICK f : f = down[1]
  OBVIOUS
<1>5. f \in Frames /\ f.run \in Runs /\ f.seq \in Nat
  BY <1>2, <1>4, FrameFields
<1>6. CASE ~mounted \/ f.seq <= seqByRun[f.run]
  <2>1. UNCHANGED <<mounted, last, seqByRun, draft, restart>>
    BY <1>2, <1>4, <1>6 DEF RecvFrame, tabVars
  <2>2. StreamInv' /\ SubsOk' /\ FTypeOK' /\ SocketOk'
    <3>1. /\ last \in {Nil} \cup (Runs \X Nat) /\ seqByRun \in [Runs -> Nat]
          /\ draft \in [Runs -> Seq(Nat)] /\ restart \in BOOLEAN /\ skipped' \in [Runs -> Nat]
      BY <1>0 DEF FTypeOK, RecvFrame
    <3> QED BY <1>1, <1>2, <2>1, <3>1, TakenTypes
  <2>3. NoHoleInDraft'
    BY <1>0, <1>1, <2>1 DEF NoHoleInDraft
  <2>4. ASSUME mounted, ~crossed PROVE Flow'
    <3>1. Flow
      BY <2>4 DEF FeedInv
    <3>2. PICK k \in 1..Len(log) : log[k] = down[1] /\ Joined(k)
      BY <1>1, <1>2, <3>1 DEF Flow, DownJoins
    <3>3. Joined(k + 1)
      BY <1>0, <1>4, <1>6, <2>4, <3>2, DuplicateJoins DEF FTypeOK
    <3>4. PICK x : x = k + 1
      OBVIOUS
    <3>5. Joined(x)'
      BY <1>3, <2>1, <3>3, <3>4, JoinedGrows
    <3>6. LastJoins'
      BY <1>3, <2>1, <3>1, LastKept DEF Flow
    <3> QED BY <1>1, <1>2, <3>1, <3>2, <3>4, <3>5, <3>6, TakenFrameFlow
  <2> QED BY <1>1, <2>1, <2>2, <2>3, <2>4 DEF FeedInv
<1>7. CASE mounted /\ ~(f.seq <= seqByRun[f.run])
  <2>1. /\ last' = <<f.run, f.seq>>
        /\ seqByRun' = [seqByRun EXCEPT ![f.run] = f.seq]
        /\ draft' = [draft EXCEPT ![f.run] = Append(@, f.seq)]
        /\ UNCHANGED <<mounted, restart>>
    BY <1>2, <1>4, <1>7 DEF RecvFrame
  <2>2. /\ draft \in [Runs -> Seq(Nat)] /\ seqByRun \in [Runs -> Nat] /\ restart \in BOOLEAN
    BY <1>0 DEF FTypeOK
  <2>3. /\ draft[f.run] \in Seq(Nat) /\ Len(draft[f.run]) \in Nat
        /\ Append(draft[f.run], f.seq) \in Seq(Nat)
        /\ Len(Append(draft[f.run], f.seq)) = Len(draft[f.run]) + 1
        /\ \A i \in 1..Len(draft[f.run]) : Append(draft[f.run], f.seq)[i] = draft[f.run][i]
        /\ Append(draft[f.run], f.seq)[Len(draft[f.run]) + 1] = f.seq
    <3>1. draft[f.run] \in Seq(Nat)
      BY <1>5, <2>2
    <3> QED BY <1>5, <3>1, AppendProperties, LenProperties
  <2>4. /\ draft' \in [Runs -> Seq(Nat)] /\ seqByRun' \in [Runs -> Nat]
        /\ last' \in {Nil} \cup (Runs \X Nat) /\ last' # Nil
        /\ last'[1] = f.run /\ last'[2] = f.seq
    <3>1. last' \in Runs \X Nat
      BY <1>5, <2>1
    <3>2. last'[1] = f.run /\ last'[2] = f.seq
      BY <2>1
    <3>3. draft' \in [Runs -> Seq(Nat)]
      BY <2>1, <2>2, <2>3
    <3>4. seqByRun' \in [Runs -> Nat]
      BY <1>5, <2>1, <2>2
    <3> QED BY <3>1, <3>2, <3>3, <3>4, FeedAssumption
  <2>5. StreamInv' /\ SubsOk' /\ FTypeOK' /\ SocketOk'
    <3>1. skipped' \in [Runs -> Nat]
      BY <1>0 DEF FTypeOK, RecvFrame
    <3> QED BY <1>1, <1>2, <2>1, <2>2, <2>4, <3>1, TakenTypes
  <2>6. ASSUME mounted, ~crossed
        PROVE  /\ Flow'
               /\ draft[f.run] # <<>> => f.seq = draft[f.run][Len(draft[f.run])] + 1
    <3>1. Flow
      BY <2>6 DEF FeedInv
    <3>2. PICK k \in 1..Len(log) : log[k] = f /\ Joined(k)
      BY <1>1, <1>2, <1>4, <3>1 DEF Flow, DownJoins
    <3>3. Joined(k + 1)'
      BY <1>0, <1>3, <1>5, <2>1, <2>2, <3>2, AppliedJoins
    <3>4. LastJoins'
      BY <1>3, <2>4, <3>2, <3>3 DEF LastJoins
    <3>5. draft[f.run] # <<>> => f.seq = draft[f.run][Len(draft[f.run])] + 1
      <4>1. seqByRun[f.run] \in Nat
        BY <1>5, <2>2
      <4>2. seqByRun[f.run] < f.seq
        BY <1>5, <1>7, <4>1
      <4> QED BY <1>0, <1>5, <3>2, <4>2, AppliedNext
    <3> QED BY <1>1, <1>2, <1>4, <3>1, <3>2, <3>3, <3>4, <3>5, TakenFrameFlow
  <2>7. NoHoleInDraft'
    <3> SUFFICES ASSUME ~crossed, NEW r \in Runs, NEW i \in 1..Len(draft'[r]) - 1
                 PROVE  draft'[r][i + 1] = draft'[r][i] + 1
      BY <1>1 DEF NoHoleInDraft
    <3>1. CASE r # f.run
      <4>1. draft'[r] = draft[r]
        BY <2>1, <2>2, <3>1
      <4> QED BY <1>0, <4>1 DEF NoHoleInDraft
    <3>2. CASE r = f.run
      <4>1. draft'[r] = Append(draft[f.run], f.seq)
        BY <2>1, <2>2, <3>2
      <4>2. PICK n \in Nat : n = Len(draft[f.run])
        BY <2>3
      <4>3. i \in 1..n /\ draft'[r][i] = draft[f.run][i]
        BY <2>3, <4>1, <4>2
      <4>4. CASE i = n
        <5>1. draft[f.run] # <<>>
          BY <4>2, <4>3, EmptySeq
        <5>2. f.seq = draft[f.run][n] + 1
          BY <1>7, <2>6, <4>2, <5>1
        <5>3. draft'[r][i + 1] = f.seq
          BY <2>3, <4>1, <4>2, <4>4
        <5> QED BY <4>3, <4>4, <5>2, <5>3
      <4>5. CASE i # n
        <5>1. i \in 1..n - 1 /\ i + 1 \in 1..n
          BY <4>3, <4>5
        <5>2. draft'[r][i + 1] = draft[f.run][i + 1]
          BY <2>3, <4>1, <4>2, <5>1
        <5>3. draft[f.run][i + 1] = draft[f.run][i] + 1
          BY <1>0, <1>5, <4>2, <5>1 DEF NoHoleInDraft
        <5> QED BY <4>3, <5>2, <5>3
      <4> QED BY <4>4, <4>5
    <3> QED BY <3>1, <3>2
  <2>8. mounted' /\ ~crossed' => Flow'
    BY <1>1, <1>7, <2>6
  <2> QED BY <2>5, <2>7, <2>8 DEF FeedInv
<1> QED BY <1>6, <1>7

LEMMA RecvOverflowFeed == ASSUME FeedInv, RecvOverflow PROVE FeedInv'
<1>0. FTypeOK /\ NoHoleInDraft
  BY DEF FeedInv
<1>1. /\ down # <<>> /\ Head(down) \in Overflows /\ down' = Tail(down)
      /\ UNCHANGED vars /\ UNCHANGED <<conn, up, cur, crossed>>
  BY DEF RecvOverflow
<1>2. Head(down) = down[1] /\ down[1] \in Overflows /\ down[1] # Hello
  BY <1>0, <1>1, DownHead, FrameOrNotice
<1>3. /\ UNCHANGED <<sub, log, at, closed>> /\ (Unused' <=> Unused)
  BY <1>1, StreamSame
<1>4. /\ last \in {Nil} \cup (Runs \X Nat) /\ seqByRun \in [Runs -> Nat]
      /\ draft \in [Runs -> Seq(Nat)] /\ restart \in BOOLEAN /\ skipped \in [Runs -> Nat]
  BY <1>0 DEF FTypeOK
<1>5. CASE ~mounted
  <2>1. UNCHANGED <<mounted, last, seqByRun, draft, restart, skipped>>
    BY <1>5 DEF RecvOverflow, tabVars
  <2>2. StreamInv' /\ SubsOk' /\ FTypeOK' /\ SocketOk'
    BY <1>1, <1>2, <1>4, <2>1, TakenTypes
  <2>3. NoHoleInDraft'
    BY <1>0, <1>1, <2>1 DEF NoHoleInDraft
  <2> QED BY <1>5, <2>1, <2>2, <2>3 DEF FeedInv
<1>6. CASE mounted
  <2>1. /\ draft' = NoDrafts /\ last' = Nil /\ restart' = TRUE /\ UNCHANGED <<mounted, seqByRun, skipped>>
    BY <1>6 DEF RecvOverflow
  <2>2. StreamInv' /\ SubsOk' /\ FTypeOK' /\ SocketOk'
    <3>1. /\ last' \in {Nil} \cup (Runs \X Nat) /\ seqByRun' \in [Runs -> Nat]
          /\ draft' \in [Runs -> Seq(Nat)] /\ restart' \in BOOLEAN /\ mounted' = mounted
          /\ skipped' \in [Runs -> Nat]
      BY <1>4, <2>1, NoDraftsFit
    <3> QED BY <1>1, <1>2, <3>1, TakenTypes
  <2>3. NoHoleInDraft'
    BY <2>1, NoDraftsFit DEF NoHoleInDraft
  <2>4. ASSUME ~crossed PROVE Flow'
    <3>1. Flow
      BY <1>6, <2>4 DEF FeedInv
    <3>2. /\ DownLogged' /\ DownInOrder' /\ SubFollows' /\ OneSub' /\ UpAsks'
          /\ down' # <<>> => down'[Len(down')] = down[Len(down)] /\ 1 \in 1..Len(down) /\ 2 \in 1..Len(down)
                             /\ down'[1] = down[2]
      BY <1>1, <3>1, TakenDown
    <3>3. ASSUME NEW x PROVE Joined(x)'
      BY <2>1, NoDraftsFit DEF Joined
    <3>4. DownJoins'
      <4> SUFFICES ASSUME down' # <<>>, down'[1] \in Frames
                   PROVE  \E k \in 1..Len(log) : log[k] = down'[1] /\ Joined(k)'
        BY <1>3 DEF DownJoins
      <4>1. PICK k \in 1..Len(log) : log[k] = down'[1]
        BY <3>1, <3>2 DEF Flow, DownLogged
      <4> QED BY <3>3, <4>1
    <3>5. SubJoins'
      BY <2>1, NoDraftsFit DEF SubJoins, Joined
    <3>6. NoneLeft'
      BY <1>1, <1>3, <2>1, <3>1, <3>2 DEF Flow, NoneLeft
    <3>7. LastJoins'
      BY <2>1 DEF LastJoins
    <3> QED BY <3>2, <3>4, <3>5, <3>6, <3>7 DEF Flow
  <2> QED BY <1>1, <1>6, <2>1, <2>2, <2>3, <2>4 DEF FeedInv
<1> QED BY <1>5, <1>6

LEMMA FeedIdle == ASSUME FeedInv, UNCHANGED fvars PROVE FeedInv'
<1>1. /\ UNCHANGED vars
      /\ UNCHANGED <<conn, up, down, cur, mounted, last, seqByRun, draft, restart, crossed, skipped>>
  BY DEF fvars, tabVars, sockVars
<1>2. /\ StreamInv' /\ SubsOk' /\ Extends /\ (Unused' <=> Unused)
      /\ UNCHANGED <<sub, log, at, closed>>
  BY <1>1, StreamSame
<1>3. FTypeOK'
  BY <1>1, <1>2 DEF FeedInv, FTypeOK, StreamInv
<1>4. SocketOk' /\ NoHoleInDraft'
  BY <1>1, <1>2 DEF FeedInv, SocketOk, NoHoleInDraft
<1>5. Flow => Flow'
  <2>1. Flow => DownLogged' /\ DownInOrder' /\ DownJoins' /\ LastJoins'
    BY <1>1, <1>2, DownKept, DownJoinsKept, LastKept DEF Flow
  <2>2. Flow => SubFollows' /\ OneSub' /\ NoneLeft' /\ UpAsks'
    BY <1>1, <1>2 DEF Flow, SubFollows, OneSub, NoneLeft, UpAsks, More
  <2>3. Flow => SubJoins'
    BY <1>1, <1>2 DEF Flow, SubJoins, More, Noticed, Joined
  <2> QED BY <2>1, <2>2, <2>3 DEF Flow
<1> QED BY <1>1, <1>2, <1>3, <1>4, <1>5 DEF FeedInv

LEMMA FeedStep == ASSUME FeedInv, [FNext]_fvars PROVE FeedInv'
<1>1. CASE ConnectionLost
  BY <1>1, DisconnectedFeed DEF ConnectionLost
<1>2. CASE SocketNext
  <2>1. ASSUME NEW s \in Subs, OutboxFull(s) PROVE FeedInv'
    BY <2>1, DisconnectedFeed DEF OutboxFull
  <2> QED BY <1>2, <2>1, OpenFeed, HandleUnsubFeed, HandleSubFeed, ForwardFeed, ForwardEndsFeed
          DEF SocketNext
<1>3. CASE TabNext
  BY <1>3, RecvHelloFeed, RecvFrameFeed, RecvOverflowFeed DEF TabNext
<1> QED BY <1>1, <1>2, <1>3, HubFeed, MountFeed, UnmountFeed, RestartFeed, FeedIdle DEF FNext

LEMMA FeedAlways == FSpec => []FeedInv
<1>1. FInit => FeedInv
  BY FeedStart
<1>2. FeedInv /\ [FNext]_fvars => FeedInv'
  BY FeedStep
<1> QED BY <1>1, <1>2, PTL DEF FSpec

\* The socket and the tab keep their types: what useChatStream keeps of the
\* chat, what is in the outbox of ws(), which never exceeds its capacity, and
\* what hubSocket has sent.
THEOREM FeedTypesHold == FSpec => []FTypeOK
<1>1. FeedInv => FTypeOK
  BY DEF FeedInv
<1> QED BY <1>1, FeedAlways, PTL

\* A thread that the frames of two subscriptions cannot have reached shows
\* each draft without a hole or a repeated delta (streamReducer's "frame"),
\* whatever was lost, resumed, evicted or started over between two of them.
THEOREM NoHoleInDraftHolds == FSpec => []NoHoleInDraft
<1>1. FeedInv => NoHoleInDraft
  BY DEF FeedInv
<1> QED BY <1>1, FeedAlways, PTL
=============================================================================
