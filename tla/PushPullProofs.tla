---------------------------- MODULE PushPullProofs ----------------------------
(***************************************************************************)
(* Proofs about what MCPushPull consists of.                               *)
(*                                                                         *)
(* FilterRules: for any sets and rules, the rendered file does to every    *)
(* path what the rules mean.  The two sorts are permutations that put the  *)
(* places in the order; anchored at the root, a pattern matches what it    *)
(* names; hence the first line that matches is that of the rule that takes *)
(* precedence.                                                             *)
(*                                                                         *)
(* FilterRender: for any families of sets and rules, any number of         *)
(* handlers and of events.  What a PUT was told holds while the PUTs come  *)
(* one at a time, which OneRequest says: all of them open the same         *)
(* temporary file.                                                         *)
(*                                                                         *)
(* TreePush: for any tree, lanes and number of changes.                    *)
(***************************************************************************)
EXTENDS MCPushPull, FiniteSetTheorems, WellFoundedInduction, SequenceTheorems, TLAPS

-----------------------------------------------------------------------------
(* FilterRules: what a rendered file means.                                *)

\* Numbers have a least one.
LEMMA LeastNumber ==
    ASSUME NEW T \in SUBSET Nat, T # {}
    PROVE  \E n \in T : \A m \in T : n <= m
  <1>1. PICK k \in T : TRUE
    OBVIOUS
  <1> DEFINE S == {n \in T : n <= k}
             Before(n) == {x \in S : x < n}
             F == {Before(n) : n \in S}
  <1>2. S \subseteq 0..k /\ IsFiniteSet(S) /\ k \in S
    <2>1. S \subseteq 0..k /\ k \in S
      <3>1. k \in Nat
        OBVIOUS
      <3>2. \A n \in S : n \in 0..k
        OBVIOUS
      <3>3. k \in S
        BY <3>1
      <3> HIDE DEF S
      <3> QED BY <3>2, <3>3
    <2>2. IsFiniteSet(0..k)
      BY <1>1, FS_Interval
    <2> HIDE DEF S
    <2> QED BY <2>1, <2>2, FS_Subset
  <1>3. F \subseteq FiniteSubsetsOf(S) /\ F # {}
    <2>1. \A n \in S : Before(n) \in SUBSET S
      OBVIOUS
    <2>2. F \subseteq SUBSET S
      BY <2>1
    <2>3. Before(k) \in F
      BY <1>2
    <2> HIDE DEF F, S
    <2> QED BY <1>2, <2>2, <2>3, FS_FiniteSubsetsOfFinite
  <1>4. PICK A \in F : \A B \in F : <<B, A>> \notin StrictSubsetOrdering(S)
    <2> HIDE DEF F, S
    <2>1. IsWellFoundedOn(StrictSubsetOrdering(S), FiniteSubsetsOf(S))
      BY FS_StrictSubsetOrderingWellFounded
    <2> QED BY <1>3, <2>1, WFMin
  <1>5. PICK n \in S : A = Before(n)
    BY <1>4
  <1>6. \A m \in S : n <= m
    <2> SUFFICES ASSUME NEW m \in S, m < n PROVE FALSE
      BY <1>5
    <2>1. m \in A
      BY <1>5
    <2>2. m \notin Before(m)
      OBVIOUS
    <2>3. Before(m) \subseteq A
      <3> SUFFICES ASSUME NEW x \in S, x < m PROVE x < n
        BY <1>5
      <3> x \in Nat /\ m \in Nat /\ n \in Nat
        BY <1>5
      <3> QED OBVIOUS
    <2>4. <<Before(m), A>> \in StrictSubsetOrdering(S)
      BY <2>1, <2>2, <2>3, <1>5 DEF StrictSubsetOrdering
    <2> QED BY <2>4, <1>4
  <1>7. \A m \in T : n <= m
    BY <1>1, <1>5, <1>6
  <1> QED BY <1>5, <1>7

-----------------------------------------------------------------------------
\* A strict order of the indices 1 to N in which any two are told apart.
Orders(before, N) ==
    /\ \A i \in 1..N : <<i, i>> \notin before
    /\ \A i, k \in 1..N : i = k \/ <<i, k>> \in before \/ <<k, i>> \in before
    /\ \A i, k, m \in 1..N : <<i, k>> \in before /\ <<k, m>> \in before => <<i, m>> \in before

\* The index of what the sort puts at n.
PlaceOf(s, before, n) ==
    CHOOSE i \in DOMAIN s : Cardinality({k \in DOMAIN s : <<k, i>> \in before}) = n - 1

\* A sort moves every element, and the places come in the order.
LEMMA SortOrders ==
    ASSUME NEW s, NEW N \in Nat, DOMAIN s = 1..N, NEW before, Orders(before, N)
    PROVE  /\ Sorted(s, before) = [n \in 1..N |-> s[PlaceOf(s, before, n)]]
           /\ \A n \in 1..N : PlaceOf(s, before, n) \in 1..N
           /\ \A i \in 1..N : \E n \in 1..N : PlaceOf(s, before, n) = i
           /\ \A n, m \in 1..N : n < m <=> <<PlaceOf(s, before, n), PlaceOf(s, before, m)>> \in before
  <1> DEFINE Pre(i) == {k \in 1..N : <<k, i>> \in before}
             rank(i) == Cardinality(Pre(i)) + 1
             at(n) == PlaceOf(s, before, n)
  <1>1. IsFiniteSet(1..N) /\ Cardinality(1..N) = N
    BY FS_Interval
  <1>2. \A i \in 1..N : IsFiniteSet(Pre(i)) /\ Cardinality(Pre(i)) \in Nat
    <2> TAKE i \in 1..N
    <2>1. Pre(i) \subseteq 1..N
      OBVIOUS
    <2> HIDE DEF Pre
    <2> QED BY <1>1, <2>1, FS_Subset, FS_CardinalityType
  <1>3. \A i, k \in 1..N : <<i, k>> \in before => rank(i) < rank(k)
    <2> SUFFICES ASSUME NEW i \in 1..N, NEW k \in 1..N, <<i, k>> \in before PROVE rank(i) < rank(k)
      OBVIOUS
    <2>1. Pre(i) \subseteq Pre(k) /\ i \in Pre(k) /\ i \notin Pre(i)
      BY DEF Orders
    <2> HIDE DEF Pre
    <2>2. Cardinality(Pre(i)) < Cardinality(Pre(k))
      BY <1>2, <2>1, FS_Subset
    <2> QED BY <1>2, <2>2
  <1>4. \A i \in 1..N : rank(i) \in 1..N
    <2> TAKE i \in 1..N
    <2>1. Pre(i) \subseteq (1..N) \ {i}
      BY DEF Orders
    <2>2. IsFiniteSet((1..N) \ {i}) /\ Cardinality((1..N) \ {i}) = N - 1
      BY <1>1, FS_RemoveElement
    <2>3. Cardinality(Pre(i)) <= N - 1
      <3> HIDE DEF Pre
      <3> QED BY <2>1, <2>2, FS_Subset
    <2> HIDE DEF Pre
    <2> QED BY <1>2, <2>3
  <1> DEFINE f == [i \in 1..N |-> rank(i)]
  <1>5. f \in Injection(1..N, 1..N)
    <2>1. \A i, k \in 1..N : i # k => rank(i) # rank(k)
      <3> TAKE i \in 1..N, k \in 1..N
      <3> HAVE i # k
      <3>1. <<i, k>> \in before \/ <<k, i>> \in before
        BY DEF Orders
      <3>2. rank(i) < rank(k) \/ rank(k) < rank(i)
        BY <1>3, <3>1
      <3>3. rank(i) \in Int /\ rank(k) \in Int
        BY <1>4
      <3> HIDE DEF rank
      <3> QED BY <3>2, <3>3
    <2> HIDE DEF rank
    <2> QED BY <1>4, <2>1 DEF Injection, IsInjective
  <1>6. \A n \in 1..N : \E i \in 1..N : rank(i) = n
    <2>1. f \in Surjection(1..N, 1..N)
      <3> HIDE DEF f
      <3> QED BY <1>1, <1>5, FS_Injection
    <2> HIDE DEF rank
    <2> QED BY <2>1 DEF Surjection
  <1>7. \A n \in 1..N : at(n) \in 1..N /\ rank(at(n)) = n
    <2> TAKE n \in 1..N
    <2>1. \E i \in 1..N : Cardinality(Pre(i)) = n - 1
      <3>1. PICK i \in 1..N : rank(i) = n
        BY <1>6
      <3>2. Cardinality(Pre(i)) \in Nat
        BY <1>2
      <3> HIDE DEF Pre
      <3> QED BY <3>1, <3>2
    <2>2. at(n) = CHOOSE i \in 1..N : Cardinality(Pre(i)) = n - 1
      BY DEF PlaceOf
    <2>3. at(n) \in 1..N /\ Cardinality(Pre(at(n))) = n - 1
      <3> HIDE DEF Pre, at
      <3> QED BY <2>1, <2>2
    <2> HIDE DEF Pre, at
    <2> QED BY <2>3
  <1>8. \A i \in 1..N : at(rank(i)) = i
    <2> TAKE i \in 1..N
    <2>1. rank(i) \in 1..N
      BY <1>4
    <2>2. at(rank(i)) \in 1..N /\ rank(at(rank(i))) = rank(i)
      <3> HIDE DEF rank, at
      <3> QED BY <2>1, <1>7
    <2>3. \A k \in 1..N : rank(k) = rank(i) => k = i
      <3> HIDE DEF rank
      <3> QED BY <1>5 DEF Injection, IsInjective
    <2> HIDE DEF rank, at
    <2> QED BY <2>2, <2>3
  <1>9. \A n, m \in 1..N : n < m <=> <<at(n), at(m)>> \in before
    <2> TAKE n \in 1..N, m \in 1..N
    <2>1. at(n) \in 1..N /\ at(m) \in 1..N /\ rank(at(n)) = n /\ rank(at(m)) = m
      BY <1>7
    <2>2. <<at(n), at(m)>> \in before => n < m
      <3> HIDE DEF rank, at
      <3> QED BY <2>1, <1>3
    <2>3. ASSUME n < m, <<at(n), at(m)>> \notin before PROVE FALSE
      <3>1. at(n) = at(m) \/ <<at(m), at(n)>> \in before
        <4> HIDE DEF at
        <4> QED BY <2>1, <2>3 DEF Orders
      <3>2. m < n \/ m = n
        <4> HIDE DEF rank, at
        <4> QED BY <2>1, <3>1, <1>3
      <3> QED BY <2>3, <3>2
    <2> HIDE DEF at
    <2> QED BY <2>2, <2>3
  <1>10. Sorted(s, before) = [n \in 1..N |-> s[at(n)]]
    BY DEF Sorted, PlaceOf
  <1>11. \A i \in 1..N : \E n \in 1..N : at(n) = i
    <2> HIDE DEF rank, at
    <2> QED BY <1>4, <1>8
  <1> HIDE DEF at
  <1> QED BY <1>7, <1>9, <1>10, <1>11 DEF at

LEMMA PositionOrders ==
    ASSUME NEW rules \in Seq(Rules)
    PROVE  Orders(ByPosition(rules), Len(rules))
  <1> DEFINE N == Len(rules)
             pos(i) == rules[i].pos
             less(i, k) == pos(i) < pos(k) \/ (pos(i) = pos(k) /\ i < k)
  <1>1. N \in Nat /\ DOMAIN rules = 1..N /\ \A i \in 1..N : pos(i) \in Int
    <2>1. N \in Nat /\ DOMAIN rules = 1..N /\ \A i \in 1..N : rules[i] \in Rules
      OBVIOUS
    <2>2. \A x \in Rules : x.pos \in Int
      BY DEF Rules
    <2> QED BY <2>1, <2>2
  <1>2. \A i, k \in 1..N : <<i, k>> \in ByPosition(rules) <=> less(i, k)
    BY <1>1 DEF ByPosition
  <1> HIDE DEF pos, N
  <1>3. /\ \A i \in 1..N : ~less(i, i)
        /\ \A i, k \in 1..N : i = k \/ less(i, k) \/ less(k, i)
        /\ \A i, k, m \in 1..N : less(i, k) /\ less(k, m) => less(i, m)
    BY <1>1
  <1> HIDE DEF less
  <1>4. Orders(ByPosition(rules), N)
    BY <1>2, <1>3 DEF Orders
  <1> QED BY <1>4 DEF N

LEMMA ScopeOrders ==
    ASSUME NEW sets \in Seq(RuleSets)
    PROVE  Orders(ByScopeAndName(sets), Len(sets))
  <1> DEFINE N == Len(sets)
             scope(i) == scopeOrder(sets[i].scope)
             name(i) == sets[i].name
             less(i, k) == \/ scope(i) < scope(k)
                           \/ scope(i) = scope(k) /\ name(i) < name(k)
                           \/ scope(i) = scope(k) /\ name(i) = name(k) /\ i < k
  <1>1. N \in Nat /\ DOMAIN sets = 1..N /\ \A i \in 1..N : scope(i) \in Int /\ name(i) \in Int
    <2>1. N \in Nat /\ DOMAIN sets = 1..N /\ \A i \in 1..N : sets[i] \in RuleSets
      OBVIOUS
    <2>2. \A x \in RuleSets : x.name \in Int
      BY DEF RuleSets
    <2>3. \A x : scopeOrder(x) \in Int
      BY DEF scopeOrder
    <2> QED BY <2>1, <2>2, <2>3
  <1>2. \A i, k \in 1..N : <<i, k>> \in ByScopeAndName(sets) <=> less(i, k)
    BY <1>1 DEF ByScopeAndName
  <1> HIDE DEF scope, name, N
  <1>3. /\ \A i \in 1..N : ~less(i, i)
        /\ \A i, k \in 1..N : i = k \/ less(i, k) \/ less(k, i)
        /\ \A i, k, m \in 1..N : less(i, k) /\ less(k, m) => less(i, m)
    BY <1>1
  <1> HIDE DEF less
  <1>4. Orders(ByScopeAndName(sets), N)
    BY <1>2, <1>3 DEF Orders
  <1> QED BY <1>4 DEF N

-----------------------------------------------------------------------------
\* No rule names the directory / itself.
NamesSomething(p) == ~p.abs \/ p.wild \/ p.segs # <<>>

LEMMA PrefixMeans ==
    ASSUME NEW s \in Paths, NEW t \in Paths
    PROVE  IsPrefix(s, t) <=> Len(s) <= Len(t) /\ \A i \in 1..Len(s) : s[i] = t[i]
  <1>1. CASE Len(s) <= Len(t)
    <2> DEFINE u == SubSeq(t, 1, Len(s))
    <2>1. SubSeq(s, 1, Len(s)) = s
      BY DEF Paths
    <2>2. u \in Seq(STRING) /\ Len(u) = Len(s) /\ \A i \in 1..Len(s) : u[i] = t[i]
      BY <1>1, SubSeqProperties DEF Paths
    <2>3. IsPrefix(s, t) <=> s = u
      BY <1>1, <2>1 DEF IsPrefix
    <2> HIDE DEF u
    <2>4. s = u <=> \A i \in 1..Len(s) : s[i] = u[i]
      BY <2>2, SeqEqual DEF Paths
    <2> QED BY <1>1, <2>2, <2>3, <2>4
  <1>2. CASE ~(Len(s) <= Len(t))
    BY <1>2 DEF IsPrefix
  <1> QED BY <1>1, <1>2

\* The part of a path below its prefix.
LEMMA BelowPrefix ==
    ASSUME NEW r \in Paths, NEW s \in Paths, IsPrefix(r, s), NEW q \in Paths
    PROVE  LET rest == SubSeq(s, Len(r) + 1, Len(s))
           IN  /\ rest \in Paths
               /\ rest = <<>> <=> s = r
               /\ rest = q <=> s = r \o q
               /\ IsPrefix(rest, q) <=> IsPrefix(s, r \o q)
  <1> DEFINE rest == SubSeq(s, Len(r) + 1, Len(s))
             m == Len(r)
             n == Len(s)
             w == r \o q
  <1>1. m \in Nat /\ n \in Nat /\ m <= n /\ \A i \in 1..m : r[i] = s[i]
    BY PrefixMeans DEF Paths
  <1>2. rest \in Paths /\ Len(rest) = n - m /\ \A i \in 1..(n - m) : rest[i] = s[i + m]
    BY <1>1 DEF Paths
  <1>3. w \in Paths /\ Len(w) = m + Len(q) /\ (\A i \in 1..m : w[i] = r[i])
        /\ \A i \in 1..Len(q) : w[i + m] = q[i]
    BY <1>1 DEF Paths
  <1> HIDE DEF rest, w
  <1>4. rest = <<>> <=> s = r
    <2>1. rest = <<>> <=> n = m
      BY <1>1, <1>2 DEF Paths
    <2>2. n = m => s = r
      BY <1>1, SeqEqual DEF Paths
    <2> QED BY <2>1, <2>2
  <1>5. Len(q) \in Nat
    BY DEF Paths
  <1>6. ASSUME NEW k \in 0..(n - m), k <= Len(q)
        PROVE  (\A i \in 1..k : rest[i] = q[i]) <=> \A i \in 1..(k + m) : s[i] = w[i]
    <2>1. ASSUME \A i \in 1..k : rest[i] = q[i], NEW i \in 1..(k + m) PROVE s[i] = w[i]
      <3>1. CASE i <= m
        BY <1>1, <1>3, <3>1
      <3>2. CASE i > m
        <4>1. i - m \in 1..k /\ (i - m) + m = i
          BY <1>1, <1>6, <3>2
        <4>2. i - m \in 1..(n - m) /\ i - m \in 1..Len(q)
          BY <1>1, <1>5, <1>6, <4>1
        <4>3. rest[i - m] = s[(i - m) + m] /\ w[(i - m) + m] = q[i - m]
          BY <1>2, <1>3, <4>2
        <4> QED BY <2>1, <4>1, <4>3
      <3> QED BY <1>1, <3>1, <3>2
    <2>2. ASSUME \A i \in 1..(k + m) : s[i] = w[i], NEW i \in 1..k PROVE rest[i] = q[i]
      <3>1. i + m \in 1..(k + m) /\ i \in 1..(n - m) /\ i \in 1..Len(q)
        BY <1>1, <1>5, <1>6
      <3> QED BY <1>2, <1>3, <2>2, <3>1
    <2> QED BY <2>1, <2>2
  <1>7. IsPrefix(rest, q) <=> IsPrefix(s, w)
    <2>1. Len(rest) <= Len(q) <=> Len(s) <= Len(w)
      BY <1>1, <1>2, <1>3, <1>5
    <2>2. n - m \in 0..(n - m) /\ (n - m) + m = n
      BY <1>1
    <2>3. n - m <= Len(q) => ((\A i \in 1..(n - m) : rest[i] = q[i]) <=> \A i \in 1..n : s[i] = w[i])
      BY <1>6, <2>2
    <2>4. IsPrefix(rest, q) <=> n - m <= Len(q) /\ \A i \in 1..(n - m) : rest[i] = q[i]
      BY <1>2, PrefixMeans
    <2>5. IsPrefix(s, w) <=> n <= Len(w) /\ \A i \in 1..n : s[i] = w[i]
      BY <1>3, PrefixMeans
    <2> QED BY <1>2, <2>1, <2>3, <2>4, <2>5
  <1>8. rest = q <=> s = w
    <2>1. rest = q => IsPrefix(rest, q) /\ Len(rest) = Len(q)
      BY <1>2, PrefixMeans DEF Paths
    <2>2. IsPrefix(rest, q) /\ Len(rest) = Len(q) => rest = q
      BY <1>2, <1>5, PrefixMeans, SeqEqual DEF Paths
    <2>3. s = w => IsPrefix(s, w) /\ Len(s) = Len(w)
      BY <1>3, PrefixMeans DEF Paths
    <2>4. IsPrefix(s, w) /\ Len(s) = Len(w) => s = w
      BY <1>3, PrefixMeans, SeqEqual DEF Paths
    <2>5. Len(rest) = Len(q) <=> Len(s) = Len(w)
      BY <1>1, <1>2, <1>3, <1>5
    <2> QED BY <1>7, <2>1, <2>2, <2>3, <2>4, <2>5
  <1> QED BY <1>2, <1>4, <1>7, <1>8 DEF rest, w

\* Anchored at the root, a pattern matches what it names.
LEMMA AnchoredNames ==
    ASSUME NEW p \in Patterns, NEW root \in Paths, NEW q \in Paths, q # <<>>, NamesSomething(p)
    PROVE  LET a == anchorPattern(p, root)
           IN  /\ a.ok <=> Inside(p, root)
               /\ a.ok => (Matches(a, q) <=> Names(p, root, q))
  <1> DEFINE a == anchorPattern(p, root)
             Empty == <<>>
  <1>1. p.segs \in Paths /\ p.abs \in BOOLEAN /\ p.wild \in BOOLEAN /\ Empty \in Paths
    BY DEF Patterns, Paths
  <1>2. IsPrefix(Empty, p.segs)
    <2>1. Len(Empty) = 0 /\ Len(p.segs) \in Nat
      BY <1>1 DEF Paths
    <2> HIDE DEF Empty
    <2> QED BY <1>1, <2>1, PrefixMeans
  <1>3. CASE ~p.abs
    <2>1. a = [ok |-> p.segs # <<>> \/ p.wild, segs |-> p.segs, wild |-> p.wild]
      BY <1>3 DEF anchorPattern
    <2>2. a.ok <=> Inside(p, root)
      <3>1. Inside(p, root) <=> p.wild \/ p.segs # <<>>
        BY <1>2, <1>3 DEF Inside
      <3> DEFINE some == p.segs # <<>> \/ p.wild
      <3>2. a.ok = some
        <4> HIDE DEF some, a
        <4> SUFFICES a = [ok |-> some, segs |-> p.segs, wild |-> p.wild]
          OBVIOUS
        <4> QED BY <2>1 DEF some
      <3> HIDE DEF a
      <3> QED BY <3>1, <3>2
    <2>3. a.ok => (Matches(a, q) <=> Names(p, root, q))
      BY <1>1, <1>3, <2>1 DEF Matches, Names
    <2> QED BY <2>2, <2>3
  <1>4. CASE p.abs
    <2> DEFINE rest == SubSeq(p.segs, Len(root) + 1, Len(p.segs))
               fits == root = <<>> \/ (IsPrefix(root, p.segs) /\ (p.segs # root \/ p.wild))
    <2>1. a = [ok |-> fits, segs |-> rest, wild |-> p.wild]
      BY <1>4 DEF anchorPattern
    <2> HIDE DEF rest
    <2>2. a.ok <=> Inside(p, root)
      <3>1. root = <<>> => IsPrefix(root, p.segs) /\ (p.segs # root \/ p.wild)
        BY <1>2, <1>4 DEF NamesSomething
      <3>2. Inside(p, root) <=> IsPrefix(root, p.segs) /\ (p.wild \/ p.segs # root)
        BY <1>4 DEF Inside
      <3>3. a.ok = fits
        <4> HIDE DEF fits, a
        <4> SUFFICES a = [ok |-> fits, segs |-> rest, wild |-> p.wild]
          OBVIOUS
        <4> QED BY <2>1 DEF fits
      <3> HIDE DEF a
      <3> QED BY <3>1, <3>2, <3>3
    <2>3. a.ok => (Matches(a, q) <=> Names(p, root, q))
      <3> SUFFICES ASSUME a.ok PROVE Matches(a, q) <=> Names(p, root, q)
        OBVIOUS
      <3>1. IsPrefix(root, p.segs) /\ (p.wild \/ p.segs # root)
        BY <1>4, <2>2 DEF Inside
      <3>2. /\ rest = <<>> <=> p.segs = root
            /\ rest = q <=> p.segs = root \o q
            /\ IsPrefix(rest, q) <=> IsPrefix(p.segs, root \o q)
        <4> DEFINE s == p.segs
        <4>1. s \in Paths /\ IsPrefix(root, s)
          BY <1>1, <3>1
        <4> HIDE DEF s
        <4>2. LET w == SubSeq(s, Len(root) + 1, Len(s))
              IN  /\ w = <<>> <=> s = root
                  /\ w = q <=> s = root \o q
                  /\ IsPrefix(w, q) <=> IsPrefix(s, root \o q)
          BY <4>1, BelowPrefix
        <4> QED BY <4>2 DEF rest, s
      <3> QED BY <1>1, <1>4, <2>1, <3>1, <3>2 DEF Matches, Names
    <2> QED BY <2>2, <2>3
  <1> QED BY <1>1, <1>3, <1>4

-----------------------------------------------------------------------------
\* The places of a file, comments included, and the rule that is at a place.
PositionsOf(file) == UNION {{n} \X DOMAIN file[n] : n \in DOMAIN file}

RuleOf(sets, own, l) ==
    IF l[1] = 0 THEN <<0, PlaceOf(own, ByPosition(own), l[2])>>
    ELSE LET i == PlaceOf(sets, ByScopeAndName(sets), l[1])
         IN  <<i, PlaceOf(sets[i].rules, ByPosition(sets[i].rules), l[2])>>

LEMMA InPositions ==
    ASSUME NEW file, NEW l
    PROVE  l \in PositionsOf(file) <=>
              /\ l = <<l[1], l[2]>> /\ l[1] \in DOMAIN file /\ l[2] \in DOMAIN file[l[1]]
  BY DEF PositionsOf

\* The section of a list of rules.
LEMMA SectionOf ==
    ASSUME NEW rules \in Seq(Rules), NEW root
    PROVE  LET at(n) == PlaceOf(rules, ByPosition(rules), n)
           IN  /\ DOMAIN writeRules(rules, root) = 1..Len(rules)
               /\ \A n \in 1..Len(rules) :
                     at(n) \in 1..Len(rules) /\ writeRules(rules, root)[n] = Line(rules[at(n)], root)
               /\ \A i \in 1..Len(rules) : \E n \in 1..Len(rules) : at(n) = i
               /\ \A n, m \in 1..Len(rules) : n < m <=> <<at(n), at(m)>> \in ByPosition(rules)
  <1> DEFINE N == Len(rules)
             at(n) == PlaceOf(rules, ByPosition(rules), n)
  <1>1. N \in Nat /\ DOMAIN rules = 1..N /\ Orders(ByPosition(rules), N)
    BY PositionOrders
  <1>2. /\ Sorted(rules, ByPosition(rules)) = [n \in 1..N |-> rules[at(n)]]
        /\ \A n \in 1..N : at(n) \in 1..N
        /\ \A i \in 1..N : \E n \in 1..N : at(n) = i
        /\ \A n, m \in 1..N : n < m <=> <<at(n), at(m)>> \in ByPosition(rules)
    <2> HIDE DEF N
    <2> QED BY <1>1, SortOrders
  <1> HIDE DEF at, N
  <1>3. /\ DOMAIN writeRules(rules, root) = 1..N
        /\ \A n \in 1..N : writeRules(rules, root)[n] = Line(rules[at(n)], root)
    BY <1>1, <1>2 DEF writeRules
  <1> QED BY <1>2, <1>3 DEF at, N

\* The sections of a file.
LEMMA SectionsOf ==
    ASSUME NEW sets \in Seq(RuleSets), NEW own, NEW root
    PROVE  LET file == computeMerged(sets, own, root)
               at(n) == PlaceOf(sets, ByScopeAndName(sets), n)
           IN  /\ DOMAIN file = 0..Len(sets) /\ file[0] = writeRules(own, root)
               /\ \A n \in 1..Len(sets) :
                     /\ at(n) \in 1..Len(sets)
                     /\ file[n] = IF sets[at(n)].scope = "repo" THEN <<>>
                                  ELSE writeRules(sets[at(n)].rules, root)
               /\ \A i \in 1..Len(sets) : \E n \in 1..Len(sets) : at(n) = i
               /\ \A n, m \in 1..Len(sets) : n < m <=> <<at(n), at(m)>> \in ByScopeAndName(sets)
  <1> DEFINE N == Len(sets)
             file == computeMerged(sets, own, root)
             at(n) == PlaceOf(sets, ByScopeAndName(sets), n)
             sorted == Sorted(sets, ByScopeAndName(sets))
  <1>1. N \in Nat /\ DOMAIN sets = 1..N /\ Orders(ByScopeAndName(sets), N)
    BY ScopeOrders
  <1>2. /\ sorted = [n \in 1..N |-> sets[at(n)]]
        /\ \A n \in 1..N : at(n) \in 1..N
        /\ \A i \in 1..N : \E n \in 1..N : at(n) = i
        /\ \A n, m \in 1..N : n < m <=> <<at(n), at(m)>> \in ByScopeAndName(sets)
    <2> HIDE DEF N
    <2> QED BY <1>1, SortOrders
  <1>3. file = [n \in 0..N |-> IF n = 0 THEN writeRules(own, root)
                               ELSE IF sorted[n].scope = "repo" THEN <<>>
                               ELSE writeRules(sorted[n].rules, root)]
    BY DEF computeMerged
  <1> HIDE DEF at, N, file, sorted
  <1>4. DOMAIN file = 0..N /\ file[0] = writeRules(own, root)
    BY <1>1, <1>3
  <1>5. ASSUME NEW n \in 1..N
        PROVE  file[n] = IF sets[at(n)].scope = "repo" THEN <<>>
                         ELSE writeRules(sets[at(n)].rules, root)
    <2>1. n \in 0..N /\ n # 0 /\ sorted[n] = sets[at(n)]
      BY <1>1, <1>2
    <2> QED BY <1>3, <2>1
  <1> QED BY <1>2, <1>4, <1>5 DEF at, N, file

\* The section at n is that of the set the sort puts there.
LEMMA SectionAt ==
    ASSUME NEW sets \in Seq(RuleSets), NEW own, NEW root, NEW n \in 1..Len(sets), NEW i,
           i = PlaceOf(sets, ByScopeAndName(sets), n)
    PROVE  /\ i \in 1..Len(sets) /\ n \in DOMAIN computeMerged(sets, own, root)
           /\ computeMerged(sets, own, root)[n]
                = IF sets[i].scope = "repo" THEN <<>> ELSE writeRules(sets[i].rules, root)
  <1> DEFINE file == computeMerged(sets, own, root)
             at(k) == PlaceOf(sets, ByScopeAndName(sets), k)
  <1>1. DOMAIN file = 0..Len(sets)
    BY SectionsOf
  <1>2. \A k \in 1..Len(sets) :
           /\ at(k) \in 1..Len(sets)
           /\ file[k] = IF sets[at(k)].scope = "repo" THEN <<>>
                        ELSE writeRules(sets[at(k)].rules, root)
    BY SectionsOf
  <1>3. i = at(n) /\ n \in 0..Len(sets)
    OBVIOUS
  <1> HIDE DEF file, at
  <1>4. /\ i \in 1..Len(sets) /\ n \in DOMAIN file
        /\ file[n] = IF sets[i].scope = "repo" THEN <<>> ELSE writeRules(sets[i].rules, root)
    BY <1>1, <1>2, <1>3
  <1> QED BY <1>4 DEF file

LEMMA RulesOfSets ==
    ASSUME NEW sets \in Seq(RuleSets), NEW i \in 1..Len(sets)
    PROVE  /\ sets[i].rules \in Seq(Rules)
           /\ sets[i].scope \in {"site", "org", "repo"} /\ sets[i].name \in Int
  <1>1. sets[i] \in RuleSets
    OBVIOUS
  <1> QED BY <1>1 DEF RuleSets

\* Every line comes from a rule that is for the repo.
LEMMA LineIsRule ==
    ASSUME NEW sets \in Seq(RuleSets), NEW own \in Seq(Rules), NEW root,
           NEW l \in PositionsOf(computeMerged(sets, own, root))
    PROVE  /\ RuleOf(sets, own, l) \in RulesFor(sets, own)
           /\ computeMerged(sets, own, root)[l[1]][l[2]]
                = Line(RuleAt(sets, own, RuleOf(sets, own, l)), root)
  <1> DEFINE file == computeMerged(sets, own, root)
             x == RuleOf(sets, own, l)
  <1>1. l[1] \in 0..Len(sets) /\ l[2] \in DOMAIN file[l[1]]
    BY InPositions, SectionsOf
  <1>2. CASE l[1] = 0
    <2> DEFINE k == PlaceOf(own, ByPosition(own), l[2])
    <2>1. x = <<0, k>>
      BY <1>2 DEF RuleOf
    <2>2. l[2] \in 1..Len(own)
      BY SMTT(20), <1>1, <1>2, SectionsOf, SectionOf
    <2>3. k \in 1..Len(own) /\ file[0][l[2]] = Line(own[k], root)
      <3>1. k \in 1..Len(own) /\ writeRules(own, root)[l[2]] = Line(own[k], root)
        BY <2>2, SectionOf
      <3>2. file[0] = writeRules(own, root)
        BY SectionsOf
      <3> QED BY <3>1, <3>2
    <2> HIDE DEF k, x, file
    <2>4. x \in RulesFor(sets, own) /\ RuleAt(sets, own, x) = own[k]
      BY <2>1, <2>3 DEF RulesFor, RuleAt
    <2> QED BY <1>2, <2>3, <2>4 DEF x, file
  <1>3. CASE l[1] # 0
    <2> DEFINE i == PlaceOf(sets, ByScopeAndName(sets), l[1])
               k == PlaceOf(sets[i].rules, ByPosition(sets[i].rules), l[2])
    <2>1. x = <<i, k>>
      BY <1>3 DEF RuleOf
    <2>2. l[1] \in 1..Len(sets)
      BY <1>1, <1>3
    <2>3. i \in 1..Len(sets) /\ file[l[1]] = IF sets[i].scope = "repo" THEN <<>>
                                             ELSE writeRules(sets[i].rules, root)
      BY <2>2, SectionAt
    <2> HIDE DEF i, file, x
    <2>4. sets[i].rules \in Seq(Rules)
      BY <2>3, RulesOfSets
    <2>5. sets[i].scope # "repo"
      BY <1>1, <2>3
    <2>6. l[2] \in 1..Len(sets[i].rules)
      BY <1>1, <2>3, <2>4, <2>5, SectionOf
    <2>7. k \in 1..Len(sets[i].rules) /\ file[l[1]][l[2]] = Line(sets[i].rules[k], root)
      BY ZenonT(30), <2>3, <2>4, <2>5, <2>6, SectionOf
    <2> HIDE DEF k
    <2>8. RuleAt(sets, own, x) = sets[i].rules[k]
      BY <2>1, <2>3 DEF RuleAt
    <2>9. x \in RulesFor(sets, own)
      BY <2>1, <2>3, <2>4, <2>5, <2>7 DEF RulesFor
    <2> QED BY <2>7, <2>8, <2>9 DEF file, x
  <1> QED BY <1>2, <1>3

\* Every rule for the repo has its line.
LEMMA RuleHasLine ==
    ASSUME NEW sets \in Seq(RuleSets), NEW own \in Seq(Rules), NEW root,
           NEW x \in RulesFor(sets, own)
    PROVE  x \in {RuleOf(sets, own, l) : l \in PositionsOf(computeMerged(sets, own, root))}
  <1> DEFINE file == computeMerged(sets, own, root)
  <1>1. CASE x \in {0} \X DOMAIN own
    <2>1. x = <<0, x[2]>> /\ x[2] \in 1..Len(own)
      BY <1>1
    <2>2. PICK n \in 1..Len(own) : PlaceOf(own, ByPosition(own), n) = x[2]
      BY <2>1, SectionOf
    <2> DEFINE l == <<0, n>>
    <2>3. l \in PositionsOf(file)
      <3>1. 0 \in DOMAIN file /\ n \in DOMAIN file[0]
        BY SectionsOf, SectionOf
      <3> HIDE DEF file
      <3> QED BY <3>1, InPositions
    <2>4. RuleOf(sets, own, l) = x
      BY <2>1, <2>2 DEF RuleOf
    <2> QED BY <2>3, <2>4
  <1>2. CASE x \notin {0} \X DOMAIN own
    <2>1. PICK i \in DOMAIN sets : sets[i].scope # "repo" /\ x \in {i} \X DOMAIN sets[i].rules
      BY <1>2 DEF RulesFor
    <2>2. i \in 1..Len(sets) /\ sets[i].rules \in Seq(Rules)
      BY <2>1, RulesOfSets
    <2>3. x = <<i, x[2]>> /\ x[2] \in 1..Len(sets[i].rules)
      BY <2>1, <2>2
    <2>4. PICK m \in 1..Len(sets) : PlaceOf(sets, ByScopeAndName(sets), m) = i
      BY <2>2, SectionsOf
    <2>5. PICK n \in 1..Len(sets[i].rules) :
              PlaceOf(sets[i].rules, ByPosition(sets[i].rules), n) = x[2]
      BY <2>2, <2>3, SectionOf
    <2> DEFINE l == <<m, n>>
    <2>6. l \in PositionsOf(file)
      <3>1. m \in DOMAIN file /\ file[m] = writeRules(sets[i].rules, root)
        <4>1. m \in DOMAIN file
          BY SectionsOf
        <4>2. file[m] = IF sets[i].scope = "repo" THEN <<>> ELSE writeRules(sets[i].rules, root)
          BY <2>4, SectionAt
        <4> QED BY <2>1, <4>1, <4>2
      <3>2. n \in DOMAIN file[m]
        BY <2>2, <3>1, SectionOf
      <3> HIDE DEF file
      <3> QED BY <3>1, <3>2, InPositions
    <2>7. RuleOf(sets, own, l) = x
      BY <2>3, <2>4, <2>5 DEF RuleOf
    <2> QED BY <2>6, <2>7
  <1> QED BY <1>1, <1>2

\* What the two orders say of the rules of one list and of two sets.
LEMMA RulesInOrder ==
    ASSUME NEW rules \in Seq(Rules), NEW i \in 1..Len(rules), NEW k \in 1..Len(rules)
    PROVE  <<i, k>> \in ByPosition(rules) <=>
              rules[i].pos < rules[k].pos \/ (rules[i].pos = rules[k].pos /\ i < k)
  BY DEF ByPosition

LEMMA SetsInOrder ==
    ASSUME NEW sets \in Seq(RuleSets), NEW i \in 1..Len(sets), NEW k \in 1..Len(sets), i # k,
           sets[i].scope # "repo", sets[k].scope # "repo"
    PROVE  <<i, k>> \in ByScopeAndName(sets) <=>
              \/ SetPrecedes(sets[i], sets[k])
              \/ ~SetPrecedes(sets[k], sets[i]) /\ i < k
  <1> DEFINE s == sets[i]
             t == sets[k]
  <1>1. s.scope \in {"site", "org"} /\ t.scope \in {"site", "org"} /\ s.name \in Int /\ t.name \in Int
    BY RulesOfSets
  <1>2. <<i, k>> \in ByScopeAndName(sets) <=>
            \/ scopeOrder(s.scope) < scopeOrder(t.scope)
            \/ scopeOrder(s.scope) = scopeOrder(t.scope) /\ s.name < t.name
            \/ scopeOrder(s.scope) = scopeOrder(t.scope) /\ s.name = t.name /\ i < k
    BY DEF ByScopeAndName
  <1>3. scopeOrder("site") = 0 /\ scopeOrder("org") = 1
    BY DEF scopeOrder
  <1> HIDE DEF s, t
  <1>4. <<i, k>> \in ByScopeAndName(sets) <=>
            SetPrecedes(s, t) \/ (~SetPrecedes(t, s) /\ i < k)
    BY <1>1, <1>2, <1>3 DEF SetPrecedes
  <1> QED BY <1>4 DEF s, t

\* The order of the lines is the precedence of their rules.
LEMMA LinesInOrder ==
    ASSUME NEW sets \in Seq(RuleSets), NEW own \in Seq(Rules), NEW root,
           NEW l \in PositionsOf(computeMerged(sets, own, root)),
           NEW k \in PositionsOf(computeMerged(sets, own, root)), l # k
    PROVE  /\ RuleOf(sets, own, l) # RuleOf(sets, own, k)
           /\ NotAfter(l, k) <=> Precedes(sets, own, RuleOf(sets, own, l), RuleOf(sets, own, k))
  <1> DEFINE file == computeMerged(sets, own, root)
             x == RuleOf(sets, own, l)
             y == RuleOf(sets, own, k)
             at(n) == PlaceOf(sets, ByScopeAndName(sets), n)
             in(rules, n) == PlaceOf(rules, ByPosition(rules), n)
  <1>1. /\ l = <<l[1], l[2]>> /\ l[1] \in 0..Len(sets) /\ l[2] \in DOMAIN file[l[1]]
        /\ k = <<k[1], k[2]>> /\ k[1] \in 0..Len(sets) /\ k[2] \in DOMAIN file[k[1]]
    BY InPositions, SectionsOf
  <1>2. ASSUME NEW n \in PositionsOf(file), n[1] # 0
        PROVE  /\ n[1] \in 1..Len(sets) /\ at(n[1]) \in 1..Len(sets) /\ sets[at(n[1])].scope # "repo"
               /\ sets[at(n[1])].rules \in Seq(Rules) /\ n[2] \in 1..Len(sets[at(n[1])].rules)
    <2>1. n[1] \in 1..Len(sets) /\ n[2] \in DOMAIN file[n[1]]
      BY <1>2, InPositions, SectionsOf
    <2>2. at(n[1]) \in 1..Len(sets)
      BY <2>1, SectionsOf
    <2>3. file[n[1]] = IF sets[at(n[1])].scope = "repo" THEN <<>>
                       ELSE writeRules(sets[at(n[1])].rules, root)
      <3> DEFINE m == n[1]
      <3> HIDE DEF m
      <3>1. m \in 1..Len(sets)
        BY <2>1 DEF m
      <3>2. file[m] = IF sets[at(m)].scope = "repo" THEN <<>> ELSE writeRules(sets[at(m)].rules, root)
        BY <3>1, SectionsOf
      <3> QED BY <3>2 DEF m
    <2> HIDE DEF at, file
    <2>4. sets[at(n[1])].scope # "repo" /\ file[n[1]] = writeRules(sets[at(n[1])].rules, root)
      BY <2>1, <2>3
    <2>5. sets[at(n[1])].rules \in Seq(Rules)
      BY <2>2, RulesOfSets
    <2>6. n[2] \in 1..Len(sets[at(n[1])].rules)
      BY <2>1, <2>4, <2>5, SectionOf
    <2> QED BY <2>1, <2>2, <2>4, <2>5, <2>6
  \* Two lines of one section.
  <1>3. ASSUME NEW rules \in Seq(Rules), l[1] = k[1], l[2] \in 1..Len(rules), k[2] \in 1..Len(rules)
        PROVE  LET i == in(rules, l[2])
                   j == in(rules, k[2])
               IN  /\ i # j
                   /\ NotAfter(l, k) <=> \/ rules[i].pos < rules[j].pos
                                         \/ rules[i].pos = rules[j].pos /\ i < j
    <2> DEFINE i == in(rules, l[2])
               j == in(rules, k[2])
    <2>1. l[2] # k[2] /\ l[2] \in Int /\ k[2] \in Int
      BY <1>1, <1>3
    <2>2. i \in 1..Len(rules) /\ j \in 1..Len(rules)
      BY <1>3, SectionOf
    <2>3. /\ l[2] < k[2] <=> <<i, j>> \in ByPosition(rules)
          /\ k[2] < l[2] <=> <<j, i>> \in ByPosition(rules)
      BY <1>3, SectionOf
    <2> HIDE DEF i, j
    <2>4. NotAfter(l, k) <=> l[2] < k[2]
      BY <1>1, <1>3, <2>1 DEF NotAfter
    <2>5. <<i, j>> \in ByPosition(rules) <=>
              rules[i].pos < rules[j].pos \/ (rules[i].pos = rules[j].pos /\ i < j)
      BY <2>2, RulesInOrder
    <2>6. i # j
      <3>1. <<i, i>> \notin ByPosition(rules)
        BY <2>2, PositionOrders DEF Orders
      <3>2. <<i, j>> \in ByPosition(rules) \/ <<j, i>> \in ByPosition(rules)
        BY <2>1, <2>3
      <3> QED BY <3>1, <3>2
    <2> QED BY <2>3, <2>4, <2>5, <2>6 DEF i, j
  <1>4. CASE l[1] = 0 /\ k[1] = 0
    <2>1. x = <<0, in(own, l[2])>> /\ y = <<0, in(own, k[2])>>
      BY <1>4 DEF RuleOf
    <2>2. l[2] \in 1..Len(own) /\ k[2] \in 1..Len(own)
      BY <1>1, <1>4, SectionsOf, SectionOf
    <2> DEFINE i == in(own, l[2])
               j == in(own, k[2])
    <2>3. i # j /\ (NotAfter(l, k) <=> own[i].pos < own[j].pos \/ (own[i].pos = own[j].pos /\ i < j))
      BY <1>3, <1>4, <2>2
    <2> HIDE DEF i, j, x, y
    <2>4. Precedes(sets, own, x, y) <=> own[i].pos < own[j].pos \/ (own[i].pos = own[j].pos /\ i < j)
      BY <2>1 DEF Precedes, RuleAt, i, j
    <2>5. x # y
      BY <2>1, <2>3 DEF i, j
    <2> QED BY <2>3, <2>4, <2>5 DEF x, y
  <1>5. CASE l[1] = 0 /\ k[1] # 0
    <2>1. x = <<0, in(own, l[2])>> /\ y[1] = at(k[1])
      BY <1>5 DEF RuleOf
    <2>2. at(k[1]) # 0
      BY <1>2, <1>5
    <2>3. NotAfter(l, k)
      BY <1>1, <1>5 DEF NotAfter
    <2> HIDE DEF x, y
    <2>4. Precedes(sets, own, x, y) /\ x # y
      BY <2>1, <2>2 DEF Precedes
    <2> QED BY <2>3, <2>4 DEF x, y
  <1>6. CASE l[1] # 0 /\ k[1] = 0
    <2>1. x[1] = at(l[1]) /\ y = <<0, in(own, k[2])>>
      BY <1>6 DEF RuleOf
    <2>2. at(l[1]) # 0
      BY <1>2, <1>6
    <2>3. ~NotAfter(l, k)
      BY <1>1, <1>6 DEF NotAfter
    <2> HIDE DEF x, y
    <2>4. ~Precedes(sets, own, x, y) /\ x # y
      BY <2>1, <2>2 DEF Precedes
    <2> QED BY <2>3, <2>4 DEF x, y
  <1>7. CASE l[1] # 0 /\ k[1] # 0 /\ l[1] = k[1]
    <2> DEFINE s == at(l[1])
               rules == sets[s].rules
               i == in(rules, l[2])
               j == in(rules, k[2])
    <2>1. x = <<s, i>> /\ y = <<s, j>>
      BY <1>7 DEF RuleOf
    <2>2. rules \in Seq(Rules) /\ l[2] \in 1..Len(rules) /\ k[2] \in 1..Len(rules) /\ s # 0
      BY <1>2, <1>7
    <2>3. i # j /\ (NotAfter(l, k) <=> \/ rules[i].pos < rules[j].pos
                                       \/ rules[i].pos = rules[j].pos /\ i < j)
      BY <1>3, <1>7, <2>2
    <2> HIDE DEF i, j, x, y, s
    <2>4. Precedes(sets, own, x, y) <=> \/ rules[i].pos < rules[j].pos
                                        \/ rules[i].pos = rules[j].pos /\ i < j
      BY <2>1, <2>2 DEF Precedes, RuleAt
    <2>5. x # y
      BY <2>1, <2>3
    <2> QED BY <2>3, <2>4, <2>5 DEF x, y
  <1>8. CASE l[1] # 0 /\ k[1] # 0 /\ l[1] # k[1]
    <2> DEFINE s == at(l[1])
               t == at(k[1])
    <2>1. x[1] = s /\ y[1] = t
      BY <1>8 DEF RuleOf
    <2>2. /\ s \in 1..Len(sets) /\ t \in 1..Len(sets)
          /\ sets[s].scope # "repo" /\ sets[t].scope # "repo"
          /\ l[1] \in 1..Len(sets) /\ k[1] \in 1..Len(sets)
      BY <1>2, <1>8
    <2>3. /\ l[1] < k[1] <=> <<s, t>> \in ByScopeAndName(sets)
          /\ k[1] < l[1] <=> <<t, s>> \in ByScopeAndName(sets)
      BY <2>2, SectionsOf
    <2> HIDE DEF s, t, x, y
    <2>4. s # t
      <3>1. <<s, s>> \notin ByScopeAndName(sets)
        BY <2>2, ScopeOrders DEF Orders
      <3>2. l[1] < k[1] \/ k[1] < l[1]
        BY <1>8, <2>2
      <3>3. <<s, t>> \in ByScopeAndName(sets) \/ <<t, s>> \in ByScopeAndName(sets)
        BY <2>3, <3>2
      <3> QED BY <3>1, <3>3
    <2>5. NotAfter(l, k) <=> l[1] < k[1]
      BY <1>8, <2>2 DEF NotAfter
    <2>6. <<s, t>> \in ByScopeAndName(sets) <=>
              \/ SetPrecedes(sets[s], sets[t])
              \/ ~SetPrecedes(sets[t], sets[s]) /\ s < t
      BY <2>2, <2>4, SetsInOrder
    <2>7. Precedes(sets, own, x, y) <=>
              \/ SetPrecedes(sets[s], sets[t])
              \/ ~SetPrecedes(sets[t], sets[s]) /\ s < t
      BY <2>1, <2>2, <2>4 DEF Precedes
    <2> QED BY <2>1, <2>3, <2>4, <2>5, <2>6, <2>7 DEF x, y
  <1> QED BY <1>4, <1>5, <1>6, <1>7, <1>8

LEMMA PositionsCounted ==
    ASSUME NEW sets \in Seq(RuleSets), NEW own \in Seq(Rules), NEW root,
           NEW l \in PositionsOf(computeMerged(sets, own, root))
    PROVE  l = <<l[1], l[2]>> /\ l[1] \in Nat /\ l[2] \in Nat
  <1> DEFINE file == computeMerged(sets, own, root)
             n == l[1]
  <1>1. l = <<n, l[2]>> /\ n \in 0..Len(sets) /\ l[2] \in DOMAIN file[n]
    BY InPositions, SectionsOf
  <1>2. Len(sets) \in Nat
    OBVIOUS
  <1>3. DOMAIN file[n] \subseteq Nat
    <2>1. CASE n = 0
      <3>1. DOMAIN writeRules(own, root) = 1..Len(own) /\ Len(own) \in Nat
        BY SectionOf
      <3>2. file[0] = writeRules(own, root)
        BY SectionsOf
      <3> HIDE DEF file
      <3> QED BY <2>1, <3>1, <3>2
    <2>2. CASE n # 0
      <3> DEFINE i == PlaceOf(sets, ByScopeAndName(sets), n)
      <3> HIDE DEF n
      <3>1. n \in 1..Len(sets)
        BY <1>1, <1>2, <2>2
      <3>2. i \in 1..Len(sets) /\ file[n] = IF sets[i].scope = "repo" THEN <<>>
                                            ELSE writeRules(sets[i].rules, root)
        <4> USE DEF i
        <4>1. i \in 1..Len(sets)
          BY <3>1, SectionsOf
        <4>2. file[n] = IF sets[i].scope = "repo" THEN <<>> ELSE writeRules(sets[i].rules, root)
          BY <3>1, SectionsOf
        <4> QED BY <4>1, <4>2
      <3> HIDE DEF i, file
      <3>3. sets[i].rules \in Seq(Rules)
        BY <3>2, RulesOfSets
      <3>4. DOMAIN writeRules(sets[i].rules, root) = 1..Len(sets[i].rules) /\ Len(sets[i].rules) \in Nat
        BY <3>3, SectionOf
      <3> QED BY <3>2, <3>4
    <2> QED BY <2>1, <2>2
  <1> HIDE DEF file
  <1> QED BY <1>1, <1>2, <1>3

\* Of some places in a file one is the first.
LEMMA FirstPlace ==
    ASSUME NEW sets \in Seq(RuleSets), NEW own \in Seq(Rules), NEW root,
           NEW H \in SUBSET PositionsOf(computeMerged(sets, own, root)), H # {}
    PROVE  \E l \in H : \A k \in H : NotAfter(l, k)
  <1>1. \A l \in H : l = <<l[1], l[2]>> /\ l[1] \in Nat /\ l[2] \in Nat
    BY PositionsCounted
  <1> DEFINE A == {l[1] : l \in H}
  <1>2. PICK n \in A : \A m \in A : n <= m
    <2>1. A \in SUBSET Nat /\ A # {}
      BY <1>1
    <2> HIDE DEF A
    <2> QED BY <2>1, LeastNumber
  <1> DEFINE B == {l[2] : l \in {k \in H : k[1] = n}}
  <1>3. PICK b \in B : \A m \in B : b <= m
    <2>1. B \in SUBSET Nat /\ B # {}
      BY <1>1, <1>2
    <2> HIDE DEF A, B
    <2> QED BY <2>1, LeastNumber
  <1>4. PICK l \in H : l[1] = n /\ l[2] = b
    BY <1>3
  <1>5. \A k \in H : NotAfter(l, k)
    <2> TAKE k \in H
    <2>1. l[1] <= k[1] /\ l[1] \in Nat /\ k[1] \in Nat
      BY <1>1, <1>2, <1>4
    <2>2. k[1] = n => l[2] <= k[2]
      BY <1>3, <1>4
    <2> HIDE DEF A, B
    <2> QED BY <1>4, <2>1, <2>2 DEF NotAfter
  <1> QED BY <1>5

LEMMA RuleTyped ==
    ASSUME NEW sets \in Seq(RuleSets), NEW own \in Seq(Rules), NEW x \in RulesFor(sets, own)
    PROVE  RuleAt(sets, own, x) \in Rules
  <1>1. CASE x \in {0} \X DOMAIN own
    <2>1. x[1] = 0 /\ x[2] \in 1..Len(own)
      BY <1>1
    <2> QED BY <2>1 DEF RuleAt
  <1>2. CASE x \notin {0} \X DOMAIN own
    <2>1. PICK i \in DOMAIN sets : x \in {i} \X DOMAIN sets[i].rules
      BY <1>2 DEF RulesFor
    <2>2. i \in 1..Len(sets) /\ sets[i].rules \in Seq(Rules)
      BY <2>1, RulesOfSets
    <2>3. x[1] = i /\ x[2] \in 1..Len(sets[i].rules) /\ i # 0
      BY <2>1, <2>2
    <2> QED BY <2>2, <2>3 DEF RuleAt
  <1> QED BY <1>1, <1>2

\* Rendered, the rules do to every entry of the walk what they mean, however
\* many there are and in whatever order they came (computeMerged).
LEMMA FileMeans ==
    ASSUME NEW sets \in Seq(RuleSets), NEW own \in Seq(Rules),
           NEW root \in Paths, NEW q \in Paths, q # <<>>,
           \A x \in RulesFor(sets, own) : NamesSomething(RuleAt(sets, own, x).pattern)
    PROVE  MatchPath(computeMerged(sets, own, root), q) <=> MeantAt(sets, own, root, q)
  <1> DEFINE file == computeMerged(sets, own, root)
             P == PositionsOf(file)
             line(l) == file[l[1]][l[2]]
             f(l) == RuleOf(sets, own, l)
             rule(x) == RuleAt(sets, own, x)
             L == LinesOf(file)
             R == {x \in RulesFor(sets, own) : Inside(rule(x).pattern, root)}
             hits == {l \in L : Matches(line(l).pattern, q)}
             named == {x \in R : Names(rule(x).pattern, root, q)}
  <1>1. L = {l \in P : line(l).kind # "comment"}
    BY DEF LinesOf, PositionsOf
  <1>2. ASSUME NEW l \in P
        PROVE  /\ f(l) \in RulesFor(sets, own) /\ line(l) = Line(rule(f(l)), root)
               /\ l \in L <=> f(l) \in R
               /\ l \in L => line(l).kind = rule(f(l)).action
               /\ l \in hits <=> f(l) \in named
    <2>1. f(l) \in RulesFor(sets, own) /\ line(l) = Line(rule(f(l)), root)
      BY LineIsRule
    <2> DEFINE r == rule(f(l))
               a == anchorPattern(r.pattern, root)
    <2>2. r \in Rules /\ NamesSomething(r.pattern)
      BY <2>1, RuleTyped
    <2>3. r.pattern \in Patterns /\ r.action \in {"include", "exclude"}
      <3> HIDE DEF r
      <3> QED BY <2>2 DEF Rules
    <2> HIDE DEF f, P, line, file, r
    <2>4. /\ a.ok <=> Inside(r.pattern, root)
          /\ a.ok => (Matches(a, q) <=> Names(r.pattern, root, q))
      BY <2>2, <2>3, AnchoredNames
    <2>5. line(l).kind = (IF a.ok THEN r.action ELSE "comment") /\ line(l).pattern = a
      <3>1. line(l) = [kind |-> IF a.ok THEN r.action ELSE "comment", pattern |-> a]
        BY <2>1 DEF r, Line
      <3> HIDE DEF a
      <3> QED BY <3>1
    <2> HIDE DEF a, L
    <2>6. l \in L <=> a.ok
      BY <1>1, <2>3, <2>5
    <2>7. f(l) \in R <=> a.ok
      BY <2>1, <2>4 DEF r
    <2>8. l \in hits <=> l \in L /\ Matches(a, q)
      BY <2>5
    <2>9. f(l) \in named <=> f(l) \in R /\ Names(r.pattern, root, q)
      BY DEF r
    <2> HIDE DEF R, hits, named
    <2>10. l \in L => line(l).kind = r.action
      BY <2>5, <2>6
    <2> QED BY <2>1, <2>4, <2>6, <2>7, <2>8, <2>9, <2>10 DEF r
  <1>3. \A x \in RulesFor(sets, own) : \E l \in P : f(l) = x
    <2> TAKE x \in RulesFor(sets, own)
    <2>1. x \in {f(l) : l \in P}
      BY RuleHasLine
    <2> QED BY <2>1
  <1>4. L \subseteq P /\ hits \subseteq L /\ R \subseteq RulesFor(sets, own) /\ named \subseteq R
    BY <1>1
  <1>5. ASSUME NEW l \in P, NEW k \in P, l # k
        PROVE  NotAfter(l, k) <=> Precedes(sets, own, f(l), f(k))
    BY <1>5, LinesInOrder
  <1>6. \A l \in P : l = <<l[1], l[2]>> /\ l[1] \in Nat /\ l[2] \in Nat
    BY PositionsCounted
  <1>7. hits # {} => \E l \in hits : \A k \in hits : NotAfter(l, k)
    <2> hits \in SUBSET P
      BY <1>4
    <2> HIDE DEF hits
    <2> QED BY FirstPlace
  <1> DEFINE first == CHOOSE l \in hits : \A k \in hits : NotAfter(l, k)
  <1>8. MatchPath(file, q) <=>
            IF hits # {} THEN line(first).kind = "include"
            ELSE L = {} \/ \E l \in L : line(l).kind = "exclude"
    BY DEF MatchPath
  <1> DEFINE wins(x) == \A y \in named : y = x \/ Precedes(sets, own, x, y)
  <1>9. MeantAt(sets, own, root, q) <=>
            IF named # {} THEN \E x \in named : wins(x) /\ rule(x).action = "include"
            ELSE R = {} \/ \E x \in R : rule(x).action = "exclude"
    BY DEF MeantAt
  <1> HIDE DEF file, P, line, f, rule, L, R, hits, named
  <1>10. (hits = {} <=> named = {}) /\ (L = {} <=> R = {})
    BY <1>2, <1>3, <1>4
  <1>11. (\E l \in L : line(l).kind = "exclude") <=> \E x \in R : rule(x).action = "exclude"
    BY <1>2, <1>3, <1>4
  <1>12. ASSUME hits # {}
         PROVE  line(first).kind = "include"
                  <=> \E x \in named : wins(x) /\ rule(x).action = "include"
    <2>1. first \in hits /\ \A k \in hits : NotAfter(first, k)
      BY <1>7, <1>12
    <2> HIDE DEF first
    <2>2. first \in P /\ f(first) \in named /\ line(first).kind = rule(f(first)).action
      BY <1>2, <1>4, <2>1
    <2>3. wins(f(first))
      <3> SUFFICES ASSUME NEW y \in named, y # f(first) PROVE Precedes(sets, own, f(first), y)
        OBVIOUS
      <3>1. PICK k \in P : f(k) = y
        BY <1>3, <1>4
      <3>2. k \in hits /\ k # first
        BY <1>2, <3>1
      <3> QED BY <1>5, <2>1, <2>2, <3>1, <3>2
    <2>4. ASSUME NEW x \in named, wins(x) PROVE x = f(first)
      <3> SUFFICES ASSUME x # f(first) PROVE FALSE
        OBVIOUS
      <3>1. PICK l \in P : f(l) = x
        BY <1>3, <1>4
      <3>2. l \in hits /\ l # first
        BY <1>2, <3>1
      <3>3. Precedes(sets, own, x, f(first))
        BY <2>2, <2>4
      <3>4. NotAfter(l, first) /\ NotAfter(first, l)
        BY <1>5, <2>1, <2>2, <3>1, <3>2, <3>3
      <3> QED BY <1>6, <2>2, <3>2, <3>4 DEF NotAfter
    <2> HIDE DEF wins
    <2> QED BY <2>2, <2>3, <2>4
  <1> HIDE DEF first, wins
  <1> QED BY <1>8, <1>9, <1>10, <1>11, <1>12 DEF file

\* The rules of these sets and of this list name something, wherever the root is.
AllName(sets, own) == \A x \in RulesFor(sets, own) : NamesSomething(RuleAt(sets, own, x).pattern)

LEMMA UpTo ==
    ASSUME NEW q \in Paths, NEW n \in 1..Len(q)
    PROVE  /\ SubSeq(q, 1, n) \in Paths /\ SubSeq(q, 1, n) # <<>> /\ Len(SubSeq(q, 1, n)) = n
           /\ \A i \in 1..n : SubSeq(q, 1, n)[i] = q[i]
  <1>1. n \in Nat /\ n >= 1 /\ n <= Len(q) /\ Len(q) \in Nat
    BY DEF Paths
  <1>2. SubSeq(q, 1, n) \in Seq(STRING) /\ Len(SubSeq(q, 1, n)) = n
        /\ \A i \in 1..n : SubSeq(q, 1, n)[i] = q[i]
    BY <1>1, SubSeqProperties DEF Paths
  <1>3. SubSeq(q, 1, n) # <<>>
    BY <1>1, <1>2
  <1> QED BY <1>2, <1>3 DEF Paths

LEMMA RenderMeans ==
    ASSUME NEW sets \in Seq(RuleSets), NEW own \in Seq(Rules), AllName(sets, own),
           NEW root \in Paths, NEW q \in Paths
    PROVE  BackedUp(computeMerged(sets, own, root), q) <=> Meant(sets, own, root, q)
  <1>1. ASSUME NEW n \in 1..Len(q)
        PROVE  MatchPath(computeMerged(sets, own, root), SubSeq(q, 1, n))
                 <=> MeantAt(sets, own, root, SubSeq(q, 1, n))
    BY UpTo, FileMeans DEF AllName
  <1> QED BY <1>1 DEF BackedUp, Meant

\* What the gatherer is told to skip is not backed up.
LEMMA SkipsLeftOut ==
    ASSUME NEW sets \in Seq(RuleSets), PlainSets(sets), AllName(sets, <<>>),
           NEW e \in AbsoluteExcludePrefixes(sets), NEW root \in Paths, NEW q \in Paths,
           IsStrictPrefix(root, e), IsPrefix(e, root \o q)
    PROVE  ~BackedUp(computeMerged(sets, <<>>, root), q)
  <1> DEFINE none == <<>>
             rules == UNION {ToSet(sets[i].rules) : i \in DOMAIN sets}
             literal(what) == {r.pattern.segs : r \in
                {x \in rules : x.action = what /\ x.pattern.abs /\ ~x.pattern.wild}}
  <1>1. e \in literal("exclude") /\ ~\E s \in literal("include") : IsPrefix(e, s)
    BY DEF AbsoluteExcludePrefixes
  <1>a. PICK i \in DOMAIN sets : \E s \in ToSet(sets[i].rules) :
            s.action = "exclude" /\ s.pattern.abs /\ ~s.pattern.wild /\ e = s.pattern.segs
    BY <1>1
  <1>2. PICK r \in ToSet(sets[i].rules) :
            r.action = "exclude" /\ r.pattern.abs /\ ~r.pattern.wild /\ e = r.pattern.segs
    BY <1>a
  <1>3. i \in 1..Len(sets) /\ sets[i].rules \in Seq(Rules) /\ i # 0
    BY RulesOfSets
  <1>4. PICK j \in 1..Len(sets[i].rules) : r = sets[i].rules[j]
    BY <1>2, <1>3 DEF ToSet
  <1>5. sets[i].scope # "repo"
    BY <1>2 DEF PlainSets
  <1>6. r \in Rules /\ e \in Paths
    <2>1. r \in Rules
      BY <1>3, <1>4
    <2> QED BY <1>2, <2>1 DEF Rules, Patterns
  <1> DEFINE w == root \o q
             n == Len(e) - Len(root)
             p == SubSeq(q, 1, n)
             v == root \o p
  <1>7. IsPrefix(root, e) /\ e # root /\ IsPrefix(e, w)
    BY DEF IsStrictPrefix
  <1>8. /\ Len(root) \in Nat /\ Len(e) \in Nat /\ Len(q) \in Nat
        /\ w \in Paths /\ Len(w) = Len(root) + Len(q)
        /\ (\A k \in 1..Len(root) : w[k] = root[k]) /\ (\A k \in 1..Len(q) : w[k + Len(root)] = q[k])
    BY <1>6 DEF Paths
  <1>9. /\ Len(root) <= Len(e) /\ \A k \in 1..Len(root) : root[k] = e[k]
        /\ Len(e) <= Len(w) /\ \A k \in 1..Len(e) : e[k] = w[k]
    <2> HIDE DEF w
    <2> QED BY <1>6, <1>7, <1>8, PrefixMeans
  <1>10. n \in 1..Len(q)
    <2>1. Len(root) # Len(e)
      BY <1>6, <1>7, <1>8, <1>9, SeqEqual DEF Paths
    <2> QED BY <1>8, <1>9, <2>1
  <1>11. p \in Paths /\ p # <<>> /\ Len(p) = n /\ \A k \in 1..n : p[k] = q[k]
    <2> HIDE DEF n
    <2> QED BY <1>10, UpTo
  <1>12. v = e
    <2> HIDE DEF p, w
    <2>1. v \in Seq(STRING) /\ Len(v) = Len(e)
      BY <1>8, <1>11 DEF Paths
    <2>2. ASSUME NEW k \in 1..Len(e) PROVE v[k] = e[k]
      <3>1. CASE k <= Len(root)
        BY <1>8, <1>9, <1>11, <3>1 DEF Paths
      <3>2. CASE k > Len(root)
        <4>1. k - Len(root) \in 1..n /\ (k - Len(root)) + Len(root) = k
          BY <1>8, <3>2
        <4>2. v[k] = p[k - Len(root)]
          BY <1>8, <1>11, <3>2, <4>1 DEF Paths
        <4>3. k - Len(root) \in 1..Len(q)
          BY <1>8, <1>10, <4>1
        <4>4. w[k] = q[k - Len(root)]
          BY <1>8, <4>1, <4>3
        <4> QED BY <1>9, <1>11, <4>1, <4>2, <4>4
      <3>3. k <= Len(root) \/ k > Len(root)
        BY <1>8
      <3> HIDE DEF v
      <3> QED BY <3>1, <3>2, <3>3
    <2> HIDE DEF v
    <2> QED BY <1>6, <2>1, <2>2, SeqEqual DEF Paths
  <1> DEFINE rule(x) == RuleAt(sets, none, x)
             R == {x \in RulesFor(sets, none) : Inside(rule(x).pattern, root)}
             named == {x \in R : Names(rule(x).pattern, root, p)}
             wins(x) == \A y \in named : y = x \/ Precedes(sets, none, x, y)
  <1>13. MeantAt(sets, none, root, p) <=>
            IF named # {} THEN \E x \in named : wins(x) /\ rule(x).action = "include"
            ELSE R = {} \/ \E x \in R : rule(x).action = "exclude"
    BY DEF MeantAt
  <1>14. <<i, j>> \in named
    <2> DEFINE x == <<i, j>>
    <2>1. x \in RulesFor(sets, none)
      BY <1>3, <1>4, <1>5 DEF RulesFor
    <2>2. rule(x) = r
      BY <1>3, <1>4 DEF RuleAt
    <2>3. Inside(r.pattern, root)
      BY <1>2, <1>7 DEF Inside
    <2>4. Names(r.pattern, root, p)
      BY <1>2, <1>12 DEF Names
    <2> HIDE DEF x, rule, p
    <2>5. x \in named
      BY <2>1, <2>2, <2>3, <2>4
    <2> QED BY <2>5 DEF x
  <1>15. ASSUME NEW x \in named, rule(x).action = "include" PROVE FALSE
    <2>1. x \in RulesFor(sets, none) /\ Names(rule(x).pattern, root, p)
      BY <1>15
    <2>2. x \notin {0} \X DOMAIN none
      OBVIOUS
    <2>3. PICK k \in DOMAIN sets : x \in {k} \X DOMAIN sets[k].rules
      BY <2>1, <2>2 DEF RulesFor
    <2>4. k \in 1..Len(sets) /\ k # 0 /\ sets[k].rules \in Seq(Rules)
      BY <2>3, RulesOfSets
    <2>5. x[1] = k /\ x[2] \in DOMAIN sets[k].rules
      BY <2>3
    <2> DEFINE s == sets[k].rules[x[2]]
    <2>6. rule(x) = s /\ s \in ToSet(sets[k].rules)
      BY <2>4, <2>5 DEF RuleAt, ToSet
    <2> HIDE DEF s, rule, p, v
    <2>7. s.pattern.abs /\ ~s.pattern.wild /\ s.action = "include"
      BY <1>15, <2>3, <2>6 DEF PlainSets
    <2>8. s.pattern.segs = e
      BY <1>12, <2>1, <2>6, <2>7 DEF Names, v
    <2>9. e \in literal("include")
      BY <2>3, <2>6, <2>7, <2>8
    <2>10. IsPrefix(e, e)
      BY <1>6, <1>8, PrefixMeans
    <2> HIDE DEF literal
    <2> QED BY <1>1, <2>9, <2>10
  <1>16. ~MeantAt(sets, none, root, p)
    <2> HIDE DEF rule, R, named, wins, p, none
    <2> QED BY <1>13, <1>14, <1>15
  <1>17. ~Meant(sets, none, root, q)
    <2> HIDE DEF n, none
    <2> QED BY <1>10, <1>16 DEF Meant
  <1>18. none \in Seq(Rules)
    OBVIOUS
  <1> HIDE DEF p, n, w, v
  <1> QED BY <1>17, <1>18, RenderMeans

-----------------------------------------------------------------------------
(* FilterRender: the rules of a repo.                                      *)

\* There is one handler beside the loop: no two requests overlap.
OneRequest == \A g, h \in Handlers : g = h

\* What a file can hold that is whole.
BytesOf(f) == CASE f = "sets" -> Contents [] f = "own" -> RulesOf [] OTHER -> Sources

Writing == {"open", "write", "rename"}
Steps == {"idle", "store", "save", "merge", "loadPerRepo"} \union Writing

\* What an actor is doing, one field after the other.
ActorType(x) ==
    /\ x = [step |-> x.step, op |-> x.op, file |-> x.file, rules |-> x.rules,
            held |-> x.held, fd |-> x.fd]
    /\ x.step \in Steps /\ x.op \in {"none", "pull", "refresh", "put"}
    /\ x.file \in Files \union {"none"} /\ x.rules \in RulesOf
    /\ x.fd \in {None, "tmp", "dest", "gone"}

\* What an actor has in hand belongs to the step it is at and to the file it
\* writes; the rules' file is written for a PUT.
Hand(a, x) ==
    /\ x.fd = None <=> x.step # "write"
    /\ x.step \in {"store", "loadPerRepo"} => x.held \in Contents
    /\ x.step \in Writing => x.file \in Files /\ x.held \in BytesOf(x.file)
    /\ x.step \notin Writing => x.file = "none"
    /\ x.file = "own" => x.op = "put"
    /\ x.op = "put" => a \in Handlers

\* A PUT beside no other finds in the temporary file what it put there, and
\* goes on to render once its rules are in place.  d and t are the bytes under
\* the two names of the rules' file, out the rules that were sent.
Own(x, d, t, out) ==
    OneRequest /\ x.op = "put" =>
        /\ x.rules \in out
        /\ x.file = "own" =>
              /\ x.held = x.rules
              /\ x.step = "write" => x.fd = "tmp" /\ t = Blank
              /\ x.step = "rename" => t = x.rules
        /\ x.file # "own" => d = x.rules

\* The bytes under a name are of the file's kind, or none, or not whole.
Kind(f, b) == b \notin {None, Blank, Torn} => b \in BytesOf(f)

FileTypes ==
    /\ dest = [f \in Files |-> dest[f]] /\ tmp = [f \in Files |-> tmp[f]]
    /\ \A f \in Files : Kind(f, dest[f]) /\ Kind(f, tmp[f])
OtherTypes ==
    /\ ctl \in DOMAIN SetsFamily /\ mem \in Contents
    /\ acked \in RulesOf /\ sent \subseteq RulesOf
ActorInv ==
    /\ act = [a \in Actors |-> act[a]]
    /\ \A a \in Actors : ActorType(act[a]) /\ Hand(a, act[a])
OwnInv == \A a \in Actors : Own(act[a], dest["own"], tmp["own"], sent)
RulesInv == OneRequest =>
    /\ dest["own"] \notin {Blank, Torn}
    /\ IF dest["own"] = None THEN 0 \in {acked} \union sent ELSE dest["own"] \in {acked} \union sent

\* The inductive invariant of the filters: what every file and every actor
\* holds is of its kind, and where PUTs do not overlap, it is what was put there.
RenderInv == FileTypes /\ OtherTypes /\ ActorInv /\ OwnInv /\ RulesInv

\* The lists are numbered from 1, and 0 is the empty one.
LEMMA Numbers ==
    /\ DOMAIN SetsFamily \subseteq Contents /\ 1 \in DOMAIN SetsFamily /\ 0 \in Contents
    /\ DOMAIN OwnFamily \subseteq RulesOf /\ 0 \in RulesOf
    /\ \A n \in Contents \union RulesOf : n \notin {None, Blank, Torn}
    /\ BytesOf("sets") = Contents /\ BytesOf("own") = RulesOf /\ BytesOf("filters") = Sources
    /\ None \notin {"tmp", "dest", "gone"}
  <1>1. /\ Len(SetsFamily) \in Nat /\ DOMAIN SetsFamily = 1..Len(SetsFamily) /\ SetsFamily # <<>>
        /\ Len(OwnFamily) \in Nat /\ DOMAIN OwnFamily = 1..Len(OwnFamily)
    BY FilterAssumption
  <1>2. Len(SetsFamily) >= 1
    BY <1>1, FilterAssumption, EmptySeq
  <1>3. \A n \in Contents \union RulesOf : n \in Nat
    BY <1>1 DEF Contents, RulesOf
  <1>4. \A n \in Contents \union RulesOf : n \notin {None, Blank, Torn}
    BY <1>3, FilterAssumption
  <1> QED BY <1>1, <1>2, <1>4, FilterAssumption DEF Contents, RulesOf, BytesOf

\* An actor that does nothing.
LEMMA IdleIsIdle ==
    ASSUME NEW a
    PROVE  ActorType(Idle) /\ Hand(a, Idle) /\ \A d, t, out : Own(Idle, d, t, out)
  BY Numbers DEF Idle, ActorType, Hand, Own, Steps, Writing, Files

\* An actor moves on: the others are as they were.
LEMMA OneMoves ==
    ASSUME ActorInv, NEW a \in Actors, NEW x, ActorType(x), Hand(a, x), act' = [act EXCEPT ![a] = x]
    PROVE  ActorInv' /\ act'[a] = x /\ \A b \in Actors \ {a} : act'[b] = act[b]
  <1>1. act'[a] = x /\ \A b \in Actors \ {a} : act'[b] = act[b]
    BY DEF ActorInv
  <1>2. act' = [b \in Actors |-> act'[b]]
    BY DEF ActorInv
  <1> QED BY <1>1, <1>2 DEF ActorInv

\* A step of one actor that touches no file and answers no PUT.
LEMMA StepInMemory ==
    ASSUME RenderInv, NEW a \in Actors, NEW x, ActorType(x), Hand(a, x),
           Own(x, dest["own"], tmp["own"], sent'),
           act' = [act EXCEPT ![a] = x], OtherTypes', sent \subseteq sent',
           UNCHANGED <<dest, tmp, acked>>
    PROVE  RenderInv'
  <1>1. ActorInv' /\ act'[a] = x /\ \A b \in Actors \ {a} : act'[b] = act[b]
    BY OneMoves DEF RenderInv
  <1>2. FileTypes' /\ RulesInv'
    BY DEF RenderInv, FileTypes, RulesInv
  <1>3. OwnInv'
    BY <1>1 DEF RenderInv, OwnInv, Own
  <1> QED BY <1>1, <1>2, <1>3 DEF RenderInv

(* An EXCEPT of several fields is taken apart, one field after the other.    *)

\* What an actor is doing, from its six fields.
Doing(s, o, f, r, h, d) ==
    [step |-> s, op |-> o, file |-> f, rules |-> r, held |-> h, fd |-> d]

\* One field changes, or several.
LEMMA Changed ==
    ASSUME NEW s, NEW o, NEW f, NEW r, NEW h, NEW d, NEW x, x = Doing(s, o, f, r, h, d)
    PROVE  /\ \A t : [x EXCEPT !.step = t] = Doing(t, o, f, r, h, d)
           /\ \A t : [x EXCEPT !.op = t] = Doing(s, t, f, r, h, d)
           /\ \A t : [x EXCEPT !.file = t] = Doing(s, o, t, r, h, d)
           /\ \A t : [x EXCEPT !.rules = t] = Doing(s, o, f, t, h, d)
           /\ \A t : [x EXCEPT !.held = t] = Doing(s, o, f, r, t, d)
           /\ \A t : [x EXCEPT !.fd = t] = Doing(s, o, f, r, h, t)
  <1>1. \A t : [x EXCEPT !.step = t] = Doing(t, o, f, r, h, d)
    BY DEF Doing
  <1>2. \A t : [x EXCEPT !.op = t] = Doing(s, t, f, r, h, d)
    BY DEF Doing
  <1>3. \A t : [x EXCEPT !.file = t] = Doing(s, o, t, r, h, d)
    BY DEF Doing
  <1>4. \A t : [x EXCEPT !.rules = t] = Doing(s, o, f, t, h, d)
    BY DEF Doing
  <1>5. \A t : [x EXCEPT !.held = t] = Doing(s, o, f, r, t, d)
    BY DEF Doing
  <1>6. \A t : [x EXCEPT !.fd = t] = Doing(s, o, f, r, h, t)
    BY DEF Doing
  <1> QED BY <1>1, <1>2, <1>3, <1>4, <1>5, <1>6

\* Step and held change, in this order.
LEMMA StepHeldChange ==
    ASSUME NEW x, x = Doing(x.step, x.op, x.file, x.rules, x.held, x.fd),
           NEW s, NEW h
    PROVE  [x EXCEPT !.step = s, !.held = h] = Doing(s, x.op, x.file, x.rules, h, x.fd)
  <1> DEFINE x1 == [x EXCEPT !.step = s]
             x2 == [x1 EXCEPT !.held = h]
  <1>1. x1 = Doing(s, x.op, x.file, x.rules, x.held, x.fd)
    BY Changed
  <1> HIDE DEF x1
  <1>2. x2 = Doing(s, x.op, x.file, x.rules, h, x.fd)
    BY <1>1, Changed
  <1>3. x2 = [x EXCEPT !.step = s, !.held = h]
    BY DEF x2, x1
  <1> QED BY <1>2, <1>3

\* Step, file and held change, in this order.
LEMMA StepFileHeldChange ==
    ASSUME NEW x, x = Doing(x.step, x.op, x.file, x.rules, x.held, x.fd),
           NEW s, NEW f, NEW h
    PROVE  [x EXCEPT !.step = s, !.file = f, !.held = h] = Doing(s, x.op, f, x.rules, h, x.fd)
  <1> DEFINE x1 == [x EXCEPT !.step = s]
             x2 == [x1 EXCEPT !.file = f]
             x3 == [x2 EXCEPT !.held = h]
  <1>1. x1 = Doing(s, x.op, x.file, x.rules, x.held, x.fd)
    BY Changed
  <1> HIDE DEF x1
  <1>2. x2 = Doing(s, x.op, f, x.rules, x.held, x.fd)
    BY <1>1, Changed
  <1> HIDE DEF x2
  <1>3. x3 = Doing(s, x.op, f, x.rules, h, x.fd)
    BY <1>2, Changed
  <1>4. x3 = [x EXCEPT !.step = s, !.file = f, !.held = h]
    BY DEF x3, x2, x1
  <1> QED BY <1>3, <1>4

\* Step and fd change, in this order.
LEMMA StepFdChange ==
    ASSUME NEW x, x = Doing(x.step, x.op, x.file, x.rules, x.held, x.fd),
           NEW s, NEW d
    PROVE  [x EXCEPT !.step = s, !.fd = d] = Doing(s, x.op, x.file, x.rules, x.held, d)
  <1> DEFINE x1 == [x EXCEPT !.step = s]
             x2 == [x1 EXCEPT !.fd = d]
  <1>1. x1 = Doing(s, x.op, x.file, x.rules, x.held, x.fd)
    BY Changed
  <1> HIDE DEF x1
  <1>2. x2 = Doing(s, x.op, x.file, x.rules, x.held, d)
    BY <1>1, Changed
  <1>3. x2 = [x EXCEPT !.step = s, !.fd = d]
    BY DEF x2, x1
  <1> QED BY <1>2, <1>3

\* Step, op and held change, in this order.
LEMMA StepOpHeldChange ==
    ASSUME NEW x, x = Doing(x.step, x.op, x.file, x.rules, x.held, x.fd),
           NEW s, NEW o, NEW h
    PROVE  [x EXCEPT !.step = s, !.op = o, !.held = h] = Doing(s, o, x.file, x.rules, h, x.fd)
  <1> DEFINE x1 == [x EXCEPT !.step = s]
             x2 == [x1 EXCEPT !.op = o]
             x3 == [x2 EXCEPT !.held = h]
  <1>1. x1 = Doing(s, x.op, x.file, x.rules, x.held, x.fd)
    BY Changed
  <1> HIDE DEF x1
  <1>2. x2 = Doing(s, o, x.file, x.rules, x.held, x.fd)
    BY <1>1, Changed
  <1> HIDE DEF x2
  <1>3. x3 = Doing(s, o, x.file, x.rules, h, x.fd)
    BY <1>2, Changed
  <1>4. x3 = [x EXCEPT !.step = s, !.op = o, !.held = h]
    BY DEF x3, x2, x1
  <1> QED BY <1>3, <1>4

\* An actor whose file is done goes on.
Turned(x, s, f, h, d) ==
    [x EXCEPT !.step = s, !.file = f, !.held = h, !.fd = d]

\* Step, file, held and fd change, in this order.
LEMMA StepFileHeldFdChange ==
    ASSUME NEW x, x = Doing(x.step, x.op, x.file, x.rules, x.held, x.fd),
           NEW s, NEW f, NEW h, NEW d
    PROVE  Turned(x, s, f, h, d) = Doing(s, x.op, f, x.rules, h, d)
  <1> DEFINE x1 == [x EXCEPT !.step = s]
             x2 == [x1 EXCEPT !.file = f]
             x3 == [x2 EXCEPT !.held = h]
             x4 == [x3 EXCEPT !.fd = d]
  <1>1. x1 = Doing(s, x.op, x.file, x.rules, x.held, x.fd)
    BY Changed
  <1> HIDE DEF x1
  <1>2. x2 = Doing(s, x.op, f, x.rules, x.held, x.fd)
    BY <1>1, Changed
  <1> HIDE DEF x2
  <1>3. x3 = Doing(s, x.op, f, x.rules, h, x.fd)
    BY <1>2, Changed
  <1> HIDE DEF x3
  <1>4. x4 = Doing(s, x.op, f, x.rules, h, d)
    BY <1>3, Changed
  <1>5. x4 = Turned(x, s, f, h, d)
    BY DEF Turned, x4, x3, x2, x1
  <1> QED BY <1>4, <1>5

\* An actor begins with a request.
Began(x, s, o, f, r, h) ==
    [x EXCEPT !.step = s, !.op = o, !.file = f, !.rules = r, !.held = h]

\* Step, op, file, rules and held change, in this order.
LEMMA RequestChange ==
    ASSUME NEW x, x = Doing(x.step, x.op, x.file, x.rules, x.held, x.fd),
           NEW s, NEW o, NEW f, NEW r, NEW h
    PROVE  Began(x, s, o, f, r, h) = Doing(s, o, f, r, h, x.fd)
  <1> DEFINE x1 == [x EXCEPT !.step = s]
             x2 == [x1 EXCEPT !.op = o]
             x3 == [x2 EXCEPT !.file = f]
             x4 == [x3 EXCEPT !.rules = r]
             x5 == [x4 EXCEPT !.held = h]
  <1>1. x1 = Doing(s, x.op, x.file, x.rules, x.held, x.fd)
    BY Changed
  <1> HIDE DEF x1
  <1>2. x2 = Doing(s, o, x.file, x.rules, x.held, x.fd)
    BY <1>1, Changed
  <1> HIDE DEF x2
  <1>3. x3 = Doing(s, o, f, x.rules, x.held, x.fd)
    BY <1>2, Changed
  <1> HIDE DEF x3
  <1>4. x4 = Doing(s, o, f, r, x.held, x.fd)
    BY <1>3, Changed
  <1> HIDE DEF x4
  <1>5. x5 = Doing(s, o, f, r, h, x.fd)
    BY <1>4, Changed
  <1>6. x5 = Began(x, s, o, f, r, h)
    BY DEF Began, x5, x4, x3, x2, x1
  <1> QED BY <1>5, <1>6

\* A pull is answered; the sets are stored, and taken again to be saved.
LEMMA PullSteps ==
    ASSUME RenderInv, NEW a \in Actors,
           \/ pull(a, "pull") \/ pull(a, "refresh") \/ StoreSets(a) \/ saveCache(a)
           \/ MergeSets(a) \/ loadPerRepo(a)
    PROVE  RenderInv'
  <1> DEFINE x == act[a]
  <1>0. ActorType(x) /\ Hand(a, x) /\ Own(x, dest["own"], tmp["own"], sent)
    BY DEF RenderInv, ActorInv, OwnInv
  <1>00. x = Doing(x.step, x.op, x.file, x.rules, x.held, x.fd)
    BY <1>0 DEF ActorType, Doing
  <1>1. ASSUME NEW op \in {"pull", "refresh"}, pull(a, op) PROVE RenderInv'
    <2> DEFINE y == [step |-> "store", op |-> op, file |-> "none", rules |-> 0,
                     held |-> ctl, fd |-> None]
    <2>1. act' = [act EXCEPT ![a] = y] /\ UNCHANGED <<ctl, mem, dest, tmp, acked, sent>>
      <3>1. [Idle EXCEPT !.step = "store", !.op = op, !.held = ctl] = y
        <4>1. Idle = Doing(Idle.step, Idle.op, Idle.file, Idle.rules, Idle.held, Idle.fd)
          BY DEF Idle, Doing
        <4>2. [Idle EXCEPT !.step = "store", !.op = op, !.held = ctl]
                 = Doing("store", op, Idle.file, Idle.rules, ctl, Idle.fd)
          BY <4>1, StepOpHeldChange
        <4>3. Idle.file = "none" /\ Idle.rules = 0 /\ Idle.fd = None
          BY DEF Idle
        <4> QED BY <4>2, <4>3 DEF Doing
      <3> QED BY <1>1, <3>1 DEF pull
    <2>2. ctl \in Contents
      BY Numbers DEF RenderInv, OtherTypes
    <2>3. ActorType(y) /\ Hand(a, y) /\ Own(y, dest["own"], tmp["own"], sent')
      BY <2>2, Numbers DEF Doing, ActorType, Hand, Own, Steps, Writing, Files
    <2>4. OtherTypes' /\ sent \subseteq sent'
      BY <2>1 DEF RenderInv, OtherTypes
    <2> HIDE DEF y
    <2> QED BY <2>1, <2>3, <2>4, StepInMemory
  <1>2. CASE StoreSets(a)
    <2> DEFINE y == [x EXCEPT !.step = "save"]
    <2>1. /\ act' = [act EXCEPT ![a] = y] /\ mem' = x.held /\ x.step = "store"
          /\ UNCHANGED <<ctl, dest, tmp, acked, sent>>
      BY <1>2 DEF StoreSets
    <2>2. ActorType(y) /\ Hand(a, y) /\ Own(y, dest["own"], tmp["own"], sent')
      <3>1. y = Doing("save", x.op, x.file, x.rules, x.held, x.fd)
        <4> HIDE DEF x
        <4> QED BY <1>00, Changed
      <3> HIDE DEF x, y
      <3> QED BY <1>0, <2>1, <3>1 DEF Doing, ActorType, Hand, Own, Steps, Writing, Files
    <2>3. OtherTypes' /\ sent \subseteq sent'
      BY <1>0, <2>1 DEF RenderInv, OtherTypes, Hand
    <2> HIDE DEF y
    <2> QED BY <2>1, <2>2, <2>3, StepInMemory
  <1>3. CASE saveCache(a)
    <2> DEFINE y == [x EXCEPT !.step = "open", !.file = "sets", !.held = mem]
    <2>1. /\ act' = [act EXCEPT ![a] = y] /\ x.step = "save"
          /\ UNCHANGED <<ctl, mem, dest, tmp, acked, sent>>
      BY <1>3 DEF saveCache
    <2>2. ActorType(y) /\ Hand(a, y) /\ Own(y, dest["own"], tmp["own"], sent')
      <3>1. y = Doing("open", x.op, "sets", x.rules, mem, x.fd)
        <4> HIDE DEF x
        <4> QED BY <1>00, StepFileHeldChange
      <3>2. mem \in Contents
        BY DEF RenderInv, OtherTypes
      <3>3. x.file = "none"
        BY <1>0, <2>1 DEF Hand, Writing
      <3> HIDE DEF x, y
      <3> QED BY <1>0, <2>1, <3>1, <3>2, <3>3, Numbers
              DEF Doing, ActorType, Hand, Own, Steps, Writing, Files
    <2>3. OtherTypes' /\ sent \subseteq sent'
      BY <2>1 DEF RenderInv, OtherTypes
    <2> HIDE DEF y
    <2> QED BY <2>1, <2>2, <2>3, StepInMemory
  <1>4. CASE MergeSets(a)
    <2> DEFINE y == [x EXCEPT !.step = "loadPerRepo", !.held = mem]
    <2>1. /\ act' = [act EXCEPT ![a] = y] /\ x.step = "merge"
          /\ UNCHANGED <<ctl, mem, dest, tmp, acked, sent>>
      BY <1>4 DEF MergeSets
    <2>2. ActorType(y) /\ Hand(a, y) /\ Own(y, dest["own"], tmp["own"], sent')
      <3>1. y = Doing("loadPerRepo", x.op, x.file, x.rules, mem, x.fd)
        <4> HIDE DEF x
        <4> QED BY <1>00, StepHeldChange
      <3>2. mem \in Contents
        BY DEF RenderInv, OtherTypes
      <3>3. x.file = "none"
        BY <1>0, <2>1 DEF Hand, Writing
      <3> HIDE DEF x, y
      <3> QED BY <1>0, <2>1, <3>1, <3>2, <3>3 DEF Doing, ActorType, Hand, Own, Steps, Writing, Files
    <2>3. OtherTypes' /\ sent \subseteq sent'
      BY <2>1 DEF RenderInv, OtherTypes
    <2> HIDE DEF y
    <2> QED BY <2>1, <2>2, <2>3, StepInMemory
  <1>5. CASE loadPerRepo(a)
    <2> DEFINE c == [sets |-> x.held, own |-> Parsed("own", 0)]
               y == [x EXCEPT !.step = "open", !.file = "filters", !.held = c]
    <2>1. /\ act' = [act EXCEPT ![a] = y] /\ x.step = "loadPerRepo"
          /\ UNCHANGED <<ctl, mem, dest, tmp, acked, sent>>
      BY <1>5 DEF loadPerRepo
    <2>2. ActorType(y) /\ Hand(a, y) /\ Own(y, dest["own"], tmp["own"], sent')
      <3>1. y = Doing("open", x.op, "filters", x.rules, c, x.fd)
        <4> HIDE DEF x
        <4> QED BY <1>00, StepFileHeldChange
      <3>2. c \in Sources
        <4>1. Parsed("own", 0) \in RulesOf
          BY Numbers DEF Parsed, RenderInv, FileTypes, Kind, Files
        <4> QED BY <1>0, <2>1, <4>1 DEF Hand, Sources
      <3>3. x.file = "none"
        BY <1>0, <2>1 DEF Hand, Writing
      <3> HIDE DEF x, y, c
      <3> QED BY <1>0, <2>1, <3>1, <3>2, <3>3, Numbers
              DEF Doing, ActorType, Hand, Own, Steps, Writing, Files
    <2>3. OtherTypes' /\ sent \subseteq sent'
      BY <2>1 DEF RenderInv, OtherTypes
    <2> HIDE DEF y
    <2> QED BY <2>1, <2>2, <2>3, StepInMemory
  <1> QED BY <1>1, <1>2, <1>3, <1>4, <1>5

\* A PUT arrives.
LEMMA PutStep ==
    ASSUME RenderInv, NEW h \in Handlers, NEW rules \in DOMAIN OwnFamily, handlePutFilters(h, rules)
    PROVE  RenderInv'
  <1> DEFINE y == Doing("open", "put", "own", rules, rules, None)
  <1>1. [Idle EXCEPT !.step = "open", !.op = "put", !.file = "own", !.rules = rules,
                     !.held = rules] = y
    <2>1. Idle = Doing(Idle.step, Idle.op, Idle.file, Idle.rules, Idle.held, Idle.fd)
      BY DEF Idle, Doing
    <2>2. Idle.fd = None
      BY DEF Idle
    <2> DEFINE step == "open"
               op == "put"
               file == "own"
    <2> HIDE DEF step, op, file
    <2>3. Began(Idle, step, op, file, rules, rules) = Doing(step, op, file, rules, rules, Idle.fd)
      BY <2>1, RequestChange
    <2> QED BY <2>2, <2>3 DEF Began, step, op, file
  <1>2. /\ act' = [act EXCEPT ![h] = y] /\ sent' = sent \union {rules}
        /\ UNCHANGED <<ctl, mem, dest, tmp, acked>>
    BY <1>1 DEF handlePutFilters
  <1>3. rules \in RulesOf /\ h \in Actors
    BY Numbers DEF Actors
  <1>4. ActorType(y) /\ Hand(h, y) /\ Own(y, dest["own"], tmp["own"], sent')
    BY <1>2, <1>3, Numbers DEF Doing, ActorType, Hand, Own, Steps, Writing, Files
  <1>5. OtherTypes' /\ sent \subseteq sent'
    BY <1>2, <1>3 DEF RenderInv, OtherTypes
  <1> HIDE DEF y
  <1> QED BY <1>2, <1>3, <1>4, <1>5, StepInMemory

\* What follows a write that failed.
LEMMA FailStep ==
    ASSUME RenderInv, NEW a \in Actors, act[a].step \in Writing, AfterWrite(a, FALSE, act),
           UNCHANGED <<ctl, mem, dest, tmp>>
    PROVE  RenderInv'
  <1> DEFINE x == act[a]
             z == [x EXCEPT !.step = "merge", !.file = "none", !.held = Blank, !.fd = None]
             y == IF x.file = "sets" THEN z ELSE Idle
  <1>0. /\ ActorType(x) /\ Hand(a, x) /\ Own(x, dest["own"], tmp["own"], sent)
    BY DEF RenderInv, ActorInv, OwnInv
  <1>00. x = Doing(x.step, x.op, x.file, x.rules, x.held, x.fd)
    BY <1>0 DEF ActorType, Doing
  <1>1. act' = [act EXCEPT ![a] = y] /\ UNCHANGED <<acked, sent>>
    BY DEF AfterWrite
  <1>2. z = Doing("merge", x.op, "none", x.rules, Blank, None)
    <2> DEFINE step == "merge"
               file == "none"
    <2> HIDE DEF x, step, file
    <2>1. Turned(x, step, file, Blank, None) = Doing(step, x.op, file, x.rules, Blank, None)
      BY <1>00, StepFileHeldFdChange
    <2> QED BY <2>1 DEF Turned, step, file
  <1>3. OtherTypes' /\ sent \subseteq sent'
    BY <1>1 DEF RenderInv, OtherTypes
  <1> HIDE DEF x, z
  <1>4. x.file = "sets" => ActorType(z) /\ Hand(a, z) /\ Own(z, dest["own"], tmp["own"], sent)
    BY <1>0, <1>2, Numbers DEF Doing, ActorType, Hand, Own, Steps, Writing, Files
  <1>5. ActorType(y) /\ Hand(a, y) /\ Own(y, dest["own"], tmp["own"], sent')
    BY <1>1, <1>4, IdleIsIdle
  <1> HIDE DEF y
  <1> QED BY <1>1, <1>3, <1>5, StepInMemory

\* The temporary file is opened, and empty.
LEMMA OpenStep ==
    ASSUME RenderInv, NEW a \in Actors, OpenTmp(a)
    PROVE  RenderInv'
  <1> DEFINE x == act[a]
             y == [x EXCEPT !.step = "write", !.fd = "tmp"]
  <1>0. /\ ActorType(x) /\ Hand(a, x) /\ Own(x, dest["own"], tmp["own"], sent)
    BY DEF RenderInv, ActorInv, OwnInv
  <1>00. x = Doing(x.step, x.op, x.file, x.rules, x.held, x.fd)
    BY <1>0 DEF ActorType, Doing
  <1>1. /\ x.step = "open" /\ tmp' = [tmp EXCEPT ![x.file] = Blank]
        /\ act' = [act EXCEPT ![a] = y]
        /\ UNCHANGED <<ctl, mem, dest, acked, sent>>
    BY DEF OpenTmp
  <1>2. y = Doing("write", x.op, x.file, x.rules, x.held, "tmp")
    <2> DEFINE step == "write"
               fd == "tmp"
    <2> HIDE DEF x, step, fd
    <2>1. [x EXCEPT !.step = step, !.fd = fd] = Doing(step, x.op, x.file, x.rules, x.held, fd)
      BY ZenonT(30), <1>00, StepFdChange
    <2> QED BY <2>1 DEF step, fd
  <1> HIDE DEF x
  <1>3. x.file \in Files /\ x.held \in BytesOf(x.file)
    BY <1>0, <1>1 DEF Hand, Writing
  <1>4. tmp'[x.file] = Blank /\ \A f \in Files : f # x.file => tmp'[f] = tmp[f]
    BY <1>1, <1>3 DEF RenderInv, FileTypes
  <1>5. ActorType(y) /\ Hand(a, y) /\ Own(y, dest["own"], tmp'["own"], sent)
    BY <1>0, <1>1, <1>2, <1>3, <1>4, Numbers
       DEF Doing, ActorType, Hand, Own, Steps, Writing, Files
  <1> HIDE DEF y
  <1>6. ActorInv' /\ act'[a] = y /\ \A b \in Actors \ {a} : act'[b] = act[b]
    BY <1>1, <1>5, OneMoves DEF RenderInv
  <1>7. OwnInv'
    <2> SUFFICES ASSUME NEW b \in Actors PROVE Own(act'[b], dest["own"], tmp'["own"], sent)
      BY <1>1 DEF OwnInv
    <2>1. CASE b = a
      BY <1>5, <1>6, <2>1
    <2>2. CASE b # a
      <3>1. act'[b] = act[b] /\ Own(act[b], dest["own"], tmp["own"], sent) /\ Hand(b, act[b])
        BY <1>6, <2>2 DEF RenderInv, OwnInv, ActorInv
      <3>2. OneRequest /\ act[b].op = "put" => x.file # "own"
        BY <1>0, <2>2, <3>1 DEF Hand, OneRequest
      <3>3. OneRequest /\ act[b].op = "put" => tmp'["own"] = tmp["own"]
        BY <1>4, <3>2 DEF Files
      <3> QED BY <3>1, <3>3 DEF Own
    <2> QED BY <2>1, <2>2
  <1>8. FileTypes'
    <2>1. tmp' = [f \in Files |-> tmp'[f]]
      BY <1>1, <1>3 DEF RenderInv, FileTypes
    <2>2. \A f \in Files : Kind(f, tmp'[f])
      BY <1>4 DEF RenderInv, FileTypes, Kind
    <2> QED BY <1>1, <2>1, <2>2 DEF RenderInv, FileTypes
  <1>9. OtherTypes' /\ RulesInv'
    BY <1>1 DEF RenderInv, OtherTypes, RulesInv
  <1> QED BY <1>6, <1>7, <1>8, <1>9 DEF RenderInv

\* The bytes are written to wherever the file is by now.
LEMMA WriteStep ==
    ASSUME RenderInv, NEW a \in Actors, WriteTmp(a)
    PROVE  RenderInv'
  <1> DEFINE x == act[a]
             y == [x EXCEPT !.step = "rename", !.fd = None]
             cur == IF x.fd = "tmp" THEN tmp[x.file] ELSE IF x.fd = "dest" THEN dest[x.file] ELSE Blank
  <1>0. /\ ActorType(x) /\ Hand(a, x) /\ Own(x, dest["own"], tmp["own"], sent)
    BY DEF RenderInv, ActorInv, OwnInv
  <1>00. x = Doing(x.step, x.op, x.file, x.rules, x.held, x.fd)
    BY <1>0 DEF ActorType, Doing
  <1>1. PICK bytes \in Overlaid(cur, x.held) :
           /\ tmp' = IF x.fd = "tmp" THEN [tmp EXCEPT ![x.file] = bytes] ELSE tmp
           /\ dest' = IF x.fd = "dest" THEN [dest EXCEPT ![x.file] = bytes] ELSE dest
    BY DEF WriteTmp
  <1>2. /\ x.step = "write" /\ act' = [act EXCEPT ![a] = y]
        /\ UNCHANGED <<ctl, mem, acked, sent>>
    BY DEF WriteTmp
  <1>3. y = Doing("rename", x.op, x.file, x.rules, x.held, None)
    <2> DEFINE step == "rename"
    <2> HIDE DEF x, step
    <2>1. [x EXCEPT !.step = step, !.fd = None] = Doing(step, x.op, x.file, x.rules, x.held, None)
      BY ZenonT(30), <1>00, StepFdChange
    <2> QED BY <2>1 DEF step
  <1> HIDE DEF x
  <1>4. x.file \in Files /\ x.held \in BytesOf(x.file)
    BY <1>0, <1>2 DEF Hand, Writing
  <1>5. bytes \in {x.held, Torn} /\ (cur = Blank => bytes = x.held)
    BY <1>1 DEF Overlaid
  <1>6. /\ \A f \in Files : f # x.file => tmp'[f] = tmp[f] /\ dest'[f] = dest[f]
        /\ tmp'[x.file] = (IF x.fd = "tmp" THEN bytes ELSE tmp[x.file])
        /\ dest'[x.file] = (IF x.fd = "dest" THEN bytes ELSE dest[x.file])
        /\ tmp' = [f \in Files |-> tmp'[f]] /\ dest' = [f \in Files |-> dest'[f]]
    BY <1>1, <1>4 DEF RenderInv, FileTypes
  <1>7. /\ OneRequest => dest'["own"] = dest["own"]
        /\ x.file # "own" => tmp'["own"] = tmp["own"] /\ dest'["own"] = dest["own"]
        /\ OneRequest /\ x.file = "own" => tmp'["own"] = x.held
    <2>1. OneRequest /\ x.file = "own" => x.fd = "tmp" /\ cur = Blank
      BY <1>0, <1>2 DEF Hand, Own
    <2> QED BY <1>5, <1>6, <2>1 DEF Files
  <1> HIDE DEF cur
  <1>8. ActorType(y) /\ Hand(a, y) /\ Own(y, dest'["own"], tmp'["own"], sent)
    BY <1>0, <1>2, <1>3, <1>4, <1>7, Numbers
       DEF Doing, ActorType, Hand, Own, Steps, Writing, Files
  <1> HIDE DEF y
  <1>9. ActorInv' /\ act'[a] = y /\ \A b \in Actors \ {a} : act'[b] = act[b]
    BY <1>2, <1>8, OneMoves DEF RenderInv
  <1>10. OwnInv'
    <2> SUFFICES ASSUME NEW b \in Actors PROVE Own(act'[b], dest'["own"], tmp'["own"], sent)
      BY <1>2 DEF OwnInv
    <2>1. CASE b = a
      BY <1>8, <1>9, <2>1
    <2>2. CASE b # a
      <3>1. act'[b] = act[b] /\ Own(act[b], dest["own"], tmp["own"], sent) /\ Hand(b, act[b])
        BY <1>9, <2>2 DEF RenderInv, OwnInv, ActorInv
      <3>2. OneRequest /\ act[b].op = "put" => x.file # "own"
        BY <1>0, <2>2, <3>1 DEF Hand, OneRequest
      <3> QED BY <1>7, <3>1, <3>2 DEF Own
    <2> QED BY <2>1, <2>2
  <1>11. FileTypes'
    <2>1. Kind(x.file, bytes)
      BY <1>4, <1>5 DEF Kind
    <2>2. \A f \in Files : Kind(f, tmp'[f]) /\ Kind(f, dest'[f])
      BY <1>6, <2>1 DEF RenderInv, FileTypes
    <2> QED BY <1>6, <2>2 DEF RenderInv, FileTypes
  <1>12. OtherTypes' /\ RulesInv'
    BY <1>2, <1>7 DEF RenderInv, OtherTypes, RulesInv
  <1> QED BY <1>9, <1>10, <1>11, <1>12 DEF RenderInv

\* The descriptors move with the file; nothing else of an actor does.
LEMMA MovedKeeps ==
    ASSUME RenderInv, NEW f \in Files, NEW b \in Actors
    PROVE  /\ ActorType(Moved(f)[b]) /\ Hand(b, Moved(f)[b])
           /\ Moved(f)[b].op = act[b].op
           /\ f # "own" \/ act[b].op # "put" => Own(Moved(f)[b], dest["own"], tmp["own"], sent)
  <1> DEFINE x == act[b]
             d == IF x.fd = "tmp" THEN "dest" ELSE IF x.fd = "dest" THEN "gone" ELSE x.fd
  <1>0. ActorType(x) /\ Hand(b, x) /\ Own(x, dest["own"], tmp["own"], sent)
    BY DEF RenderInv, ActorInv, OwnInv
  <1>00. x = Doing(x.step, x.op, x.file, x.rules, x.held, x.fd)
    BY <1>0 DEF ActorType, Doing
  <1>1. Moved(f)[b] = IF x.file # f THEN x ELSE [x EXCEPT !.fd = d]
    BY DEF Moved
  <1>2. [x EXCEPT !.fd = d] = Doing(x.step, x.op, x.file, x.rules, x.held, d)
    <2> HIDE DEF x, d
    <2> QED BY <1>00, Changed
  <1>3. CASE x.file # f
    BY <1>0, <1>1, <1>3
  <1>4. CASE x.file = f
    <2>1. Moved(f)[b] = Doing(x.step, x.op, x.file, x.rules, x.held, d)
      BY <1>1, <1>2, <1>4
    <2>2. d \in {None, "tmp", "dest", "gone"} /\ (d = None <=> x.fd = None)
      BY <1>0, Numbers DEF ActorType
    <2> HIDE DEF x, d
    <2> DEFINE m == Doing(x.step, x.op, x.file, x.rules, x.held, d)
    <2>3. /\ m.step = x.step /\ m.op = x.op /\ m.file = x.file /\ m.rules = x.rules
          /\ m.held = x.held /\ m.fd = d
          /\ m = [step |-> m.step, op |-> m.op, file |-> m.file, rules |-> m.rules,
                  held |-> m.held, fd |-> m.fd]
      BY DEF Doing
    <2> HIDE DEF m
    <2>4. ActorType(m) /\ Hand(b, m) /\ m.op = x.op
      BY <1>0, <2>2, <2>3 DEF ActorType, Hand
    <2>5. f # "own" \/ x.op # "put" => Own(m, dest["own"], tmp["own"], sent)
      BY <1>0, <1>4, <2>3 DEF Own
    <2> QED BY <2>1, <2>4, <2>5 DEF m, x
  <1> QED BY <1>3, <1>4

\* The temporary file takes the place of the file.
LEMMA RenameStep ==
    ASSUME RenderInv, NEW a \in Actors, RenameTmp(a)
    PROVE  RenderInv'
  <1> DEFINE x == act[a]
             f == x.file
             z == [x EXCEPT !.step = "merge", !.file = "none", !.held = Blank, !.fd = None]
             y == IF f = "sets" \/ f = "own" THEN z ELSE Idle
  <1>0. ActorType(x) /\ Hand(a, x) /\ Own(x, dest["own"], tmp["own"], sent)
    BY DEF RenderInv, ActorInv, OwnInv
  <1>00. x = Doing(x.step, x.op, x.file, x.rules, x.held, x.fd)
    BY <1>0 DEF ActorType, Doing
  <1>1. x.step = "rename" /\ UNCHANGED <<ctl, mem>>
    BY DEF RenameTmp
  <1>2. f \in Files /\ x.held \in BytesOf(f)
    BY <1>0, <1>1 DEF Hand, Writing
  <1>3. CASE tmp[f] = None
    <2>1. AfterWrite(a, FALSE, act) /\ UNCHANGED <<ctl, mem, dest, tmp>>
      BY <1>3 DEF RenameTmp
    <2>2. x.step \in Writing
      BY <1>1 DEF Writing
    <2> QED BY <2>1, <2>2, FailStep
  <1>4. CASE tmp[f] # None
    <2>1. /\ AfterWrite(a, TRUE, Moved(f))
          /\ dest' = [dest EXCEPT ![f] = tmp[f]] /\ tmp' = [tmp EXCEPT ![f] = None]
      BY <1>4 DEF RenameTmp
    <2>2. act' = [Moved(f) EXCEPT ![a] = y]
      BY <2>1 DEF AfterWrite
    <2>3. z = Doing("merge", x.op, "none", x.rules, Blank, None)
      <3> DEFINE step == "merge"
                 file == "none"
      <3> HIDE DEF x, step, file
      <3>1. Turned(x, step, file, Blank, None) = Doing(step, x.op, file, x.rules, Blank, None)
        BY <1>00, StepFileHeldFdChange
      <3> QED BY <3>1 DEF Turned, step, file
    <2>4. /\ act' = [b \in Actors |-> act'[b]] /\ act'[a] = y
          /\ \A b \in Actors \ {a} : act'[b] = Moved(f)[b]
      BY <2>2 DEF Moved
    <2>5. IF x.op = "put" /\ f = "filters"
          THEN acked' = x.rules
               /\ sent' = {act[h].rules : h \in {k \in Handlers \ {a} : act[k].op = "put"}}
          ELSE UNCHANGED <<acked, sent>>
      BY <2>1 DEF AfterWrite
    <2>6. /\ \A g \in Files : g # f => dest'[g] = dest[g] /\ tmp'[g] = tmp[g]
          /\ dest'[f] = tmp[f] /\ tmp'[f] = None
          /\ dest' = [g \in Files |-> dest'[g]] /\ tmp' = [g \in Files |-> tmp'[g]]
      BY <1>2, <2>1 DEF RenderInv, FileTypes
    <2>7. OneRequest /\ x.op = "put" => \A b \in Actors \ {a} : act[b].op # "put"
      <3>1. \A b \in Actors : Hand(b, act[b])
        BY DEF RenderInv, ActorInv
      <3> QED BY <1>0, <3>1 DEF Hand, OneRequest
    <2>8. f = "own" => /\ x.op = "put" /\ x.rules \in RulesOf
                       /\ OneRequest => tmp["own"] = x.rules /\ x.rules \in sent
      BY <1>0, <1>1 DEF Hand, Own, ActorType
    <2>9. OneRequest /\ x.op = "put" /\ f # "own" => dest["own"] = x.rules
      BY <1>0 DEF Own
    <2>10. {act[h].rules : h \in {k \in Handlers \ {a} : act[k].op = "put"}} \subseteq RulesOf
      <3>1. \A h \in Handlers : act[h].rules \in RulesOf
        BY DEF RenderInv, ActorInv, ActorType, Actors
      <3> QED BY <3>1
    <2> HIDE DEF x, f, z
    <2>11. f = "sets" \/ f = "own" =>
              ActorType(z) /\ Hand(a, z) /\ Own(z, dest'["own"], tmp'["own"], sent')
      <3>1. ActorType(z) /\ Hand(a, z)
        BY <1>0, <2>3, Numbers DEF Doing, ActorType, Hand, Steps, Writing, Files
      <3>2. f = "sets" \/ f = "own" => sent' = sent /\ (OneRequest /\ x.op = "put" => x.rules \in sent)
        BY <1>0, <2>5 DEF Own
      <3>3. f = "sets" \/ f = "own" => (OneRequest /\ x.op = "put" => dest'["own"] = x.rules)
        BY <2>6, <2>8, <2>9 DEF Files
      <3>4. z.op = x.op /\ z.file = "none" /\ z.rules = x.rules
        BY <2>3 DEF Doing
      <3> QED BY <3>1, <3>2, <3>3, <3>4 DEF Own
    <2>12. ActorType(y) /\ Hand(a, y) /\ Own(y, dest'["own"], tmp'["own"], sent')
      BY <2>11, IdleIsIdle
    <2>13. ActorInv'
      <3>1. ASSUME NEW b \in Actors PROVE ActorType(act'[b]) /\ Hand(b, act'[b])
        BY <1>2, <2>4, <2>12, MovedKeeps
      <3> QED BY <2>4, <3>1 DEF ActorInv
    <2>14. OwnInv'
      <3> SUFFICES ASSUME NEW b \in Actors PROVE Own(act'[b], dest'["own"], tmp'["own"], sent')
        BY DEF OwnInv
      <3>1. CASE b = a
        BY <2>4, <2>12, <3>1
      <3>2. CASE b # a
        <4>1. /\ act'[b] = Moved(f)[b] /\ act'[b].op = act[b].op
              /\ f # "own" => Own(act'[b], dest["own"], tmp["own"], sent)
          BY <1>2, <2>4, <3>2, MovedKeeps
        <4>2. CASE ~(OneRequest /\ act[b].op = "put")
          BY <4>1, <4>2 DEF Own
        <4>3. CASE OneRequest /\ act[b].op = "put"
          <5>1. x.op # "put"
            BY <2>7, <3>2, <4>3
          <5>2. f # "own" /\ sent' = sent
            BY <2>5, <2>8, <5>1
          <5>3. dest'["own"] = dest["own"] /\ tmp'["own"] = tmp["own"]
            BY <2>6, <5>2 DEF Files
          <5> QED BY <4>1, <5>2, <5>3
        <4> QED BY <4>2, <4>3
      <3> QED BY <3>1, <3>2
    <2>15. FileTypes'
      <3>1. \A g \in Files : Kind(g, dest'[g]) /\ Kind(g, tmp'[g])
        BY <1>2, <2>6 DEF RenderInv, FileTypes, Kind
      <3> QED BY <2>6, <3>1 DEF FileTypes
    <2>16. OtherTypes'
      <3>1. acked' \in RulesOf /\ sent' \subseteq RulesOf
        BY <1>0, <2>5, <2>10 DEF RenderInv, OtherTypes, ActorType
      <3> QED BY <1>1, <3>1 DEF RenderInv, OtherTypes
    <2>17. RulesInv'
      <3> SUFFICES ASSUME OneRequest PROVE RulesInv'
        BY DEF RulesInv
      <3>1. CASE f = "own"
        <4>1. dest'["own"] = x.rules /\ x.rules \in sent /\ sent' = sent
          BY <2>5, <2>6, <2>8, <3>1
        <4>2. x.rules \notin {None, Blank, Torn}
          BY <2>8, <3>1, Numbers
        <4> QED BY <4>1, <4>2 DEF RulesInv
      <3>2. CASE f # "own"
        <4>1. dest'["own"] = dest["own"]
          BY <2>6, <3>2 DEF Files
        <4>2. CASE x.op = "put" /\ f = "filters"
          <5>1. dest["own"] = x.rules /\ acked' = x.rules
            BY <2>5, <2>9, <3>2, <4>2
          <5>2. x.rules \notin {None, Blank, Torn}
            BY <1>0, Numbers DEF ActorType
          <5> QED BY <4>1, <5>1, <5>2 DEF RulesInv
        <4>3. CASE ~(x.op = "put" /\ f = "filters")
          BY <2>5, <4>1, <4>3 DEF RenderInv, RulesInv
        <4> QED BY <4>2, <4>3
      <3> QED BY <3>1, <3>2
    <2> QED BY <2>13, <2>14, <2>15, <2>16, <2>17 DEF RenderInv
  <1> QED BY <1>3, <1>4

\* The invariant holds in every state: every file, whole, is of its kind, and
\* what a PUT beside no other put into the temporary file is what it renames, so
\* that its rules are in place when they are rendered.
THEOREM RenderInvariant == Spec => []RenderInv
  <1>1. Init => RenderInv
    <2> SUFFICES ASSUME Init PROVE RenderInv
      OBVIOUS
    <2>1. /\ ctl = 1 /\ mem = 0 /\ acked = 0 /\ sent = {}
          /\ dest = [f \in Files |-> None] /\ tmp = [f \in Files |-> None]
          /\ act = [a \in Actors |-> Idle]
      BY DEF Init
    <2>2. FileTypes /\ OtherTypes
      BY <2>1, Numbers DEF FileTypes, OtherTypes, Kind
    <2>3. ActorInv /\ OwnInv
      BY <2>1, IdleIsIdle DEF ActorInv, OwnInv
    <2>4. RulesInv
      <3>1. dest["own"] = None
        BY <2>1 DEF Files
      <3> QED BY <2>1, <3>1, FilterAssumption DEF RulesInv
    <2> QED BY <2>2, <2>3, <2>4 DEF RenderInv
  <1>2. RenderInv /\ [Next]_vars => RenderInv'
    <2> SUFFICES ASSUME RenderInv, [Next]_vars PROVE RenderInv'
      OBVIOUS
    <2>0. Loop \in Actors /\ Handlers \subseteq Actors
      BY DEF Actors
    <2>1. CASE LoopPulls
      BY <2>0, <2>1, PullSteps DEF LoopPulls
    <2>2. ASSUME NEW h \in Handlers, handleGlobalFiltersRefresh(h) PROVE RenderInv'
      BY <2>0, <2>2, PullSteps DEF handleGlobalFiltersRefresh
    <2>3. ASSUME NEW h \in Handlers, NEW rules \in DOMAIN OwnFamily, handlePutFilters(h, rules)
          PROVE  RenderInv'
      BY <2>3, PutStep
    <2>4. ASSUME NEW a \in Actors, WriteFails(a) PROVE RenderInv'
      BY <2>4, FailStep DEF WriteFails, Writing
    <2>5. ASSUME NEW a \in Actors, Step(a) PROVE RenderInv'
      BY <2>5, PullSteps, OpenStep, WriteStep, RenameStep DEF Step
    <2>6. CASE EditSets
      <3>1. ctl' \in DOMAIN SetsFamily /\ UNCHANGED <<mem, dest, tmp, act, acked, sent>>
        BY <2>6 DEF EditSets
      <3> QED BY <3>1 DEF RenderInv, FileTypes, OtherTypes, ActorInv, OwnInv, RulesInv
    <2>7. CASE Crash
      <3>1. /\ mem' = 0 /\ act' = [a \in Actors |-> Idle]
            /\ UNCHANGED <<ctl, dest, tmp, acked, sent>>
        BY <2>7 DEF Crash
      <3>2. ActorInv' /\ OwnInv'
        BY <3>1, IdleIsIdle DEF ActorInv, OwnInv
      <3> QED BY <3>1, <3>2, Numbers DEF RenderInv, FileTypes, OtherTypes, RulesInv
    <2>8. CASE Boot
      <3>1. mem' = Parsed("sets", 0) /\ UNCHANGED <<ctl, dest, tmp, act, acked, sent>>
        BY <2>8 DEF Boot
      <3>2. Parsed("sets", 0) \in Contents
        BY Numbers DEF Parsed, RenderInv, FileTypes, Kind, Files
      <3> QED BY <3>1, <3>2 DEF RenderInv, FileTypes, OtherTypes, ActorInv, OwnInv, RulesInv
    <2>9. CASE UNCHANGED vars
      BY <2>9 DEF vars, RenderInv, FileTypes, OtherTypes, ActorInv, OwnInv, RulesInv
    <2> QED BY <2>1, <2>2, <2>3, <2>4, <2>5, <2>6, <2>7, <2>8, <2>9 DEF Next
  <1> QED BY <1>1, <1>2, PTL DEF Spec

\* Rules that a PUT was told are saved stay on disk, or rules sent after them
\* replace them, whatever fails and wherever the process dies, while the PUTs
\* of a repo come one at a time (savePerRepo, handlePutFilters).
THEOREM AckedIsKept == ASSUME OneRequest PROVE Spec => []AckedRulesSurvive
  <1>1. RenderInv => AckedRulesSurvive
    <2> SUFFICES ASSUME RenderInv PROVE AckedRulesSurvive
      OBVIOUS
    <2>1. TypeOK
      <3>1. ASSUME NEW f \in Files, NEW bytes \in {dest[f], tmp[f]} \ {None, Blank, Torn}
            PROVE  \/ f = "sets" /\ bytes \in Contents
                   \/ f = "own" /\ bytes \in RulesOf
                   \/ f = "filters" /\ bytes \in Sources
        <4>1. bytes \in BytesOf(f)
          BY DEF RenderInv, FileTypes, Kind
        <4> QED BY <4>1, Numbers DEF Files
      <3>2. \A a \in Actors : act[a].fd = None <=> act[a].step # "write"
        BY DEF RenderInv, ActorInv, Hand
      <3> QED BY <3>1, <3>2 DEF RenderInv, OtherTypes, TypeOK
    <2>2. Parsed("own", 0) \in {acked} \union sent
      BY DEF RenderInv, RulesInv, Parsed
    <2> QED BY <2>1, <2>2 DEF RenderInv, RulesInv, AckedRulesSurvive
  <1> QED BY <1>1, RenderInvariant, PTL

-----------------------------------------------------------------------------
(* FilterRules and FilterRender together.                                  *)

\* Whatever the families, none of their rules is the directory / alone.
FamiliesNameSomething ==
    \A n \in Contents, o \in RulesOf : AllName(SetsOf(n), OwnOf(o))

LEMMA FamiliesTyped ==
    /\ \A n \in Contents : SetsOf(n) \in Seq(RuleSets)
    /\ \A o \in RulesOf : OwnOf(o) \in Seq(Rules)
  <1>1. <<>> \in Seq(RuleSets) /\ <<>> \in Seq(Rules)
    OBVIOUS
  <1>2. \A n \in Contents : n # 0 => SetsFamily[n] \in Seq(RuleSets)
    BY FilterAssumption DEF Contents
  <1>3. \A o \in RulesOf : o # 0 => OwnFamily[o] \in Seq(Rules)
    BY FilterAssumption DEF RulesOf
  <1> QED BY <1>1, <1>2, <1>3 DEF SetsOf, OwnOf

\* Every file that may be rendered means what its rules mean.
LEMMA AllFaithful == ASSUME FamiliesNameSomething PROVE Sources \subseteq Faithful
  <1> SUFFICES ASSUME NEW c \in Sources PROVE c \in Faithful
    OBVIOUS
  <1>1. c.sets \in Contents /\ c.own \in RulesOf
    BY DEF Sources
  <1>2. SetsOf(c.sets) \in Seq(RuleSets) /\ OwnOf(c.own) \in Seq(Rules)
        /\ AllName(SetsOf(c.sets), OwnOf(c.own))
    BY <1>1, FamiliesTyped DEF FamiliesNameSomething
  <1>3. ASSUME NEW root \in Roots, NEW q \in Places
        PROVE  BackedUp(computeMerged(SetsOf(c.sets), OwnOf(c.own), root), q)
                 <=> Meant(SetsOf(c.sets), OwnOf(c.own), root, q)
    BY <1>2, RenderMeans, FilterAssumption
  <1>4. RendersAsMeant(c)
    BY <1>3 DEF RendersAsMeant
  <1> QED BY <1>4 DEF Faithful

\* Whatever the rules and the roots, and however the pulls, the requests, the
\* failed writes and the crashes overlap, duplicacy backs up from the file it
\* finds exactly what the rules mean that this file was rendered from, those of
\* the repo before those of the site and those before the organisation's
\* (computeMerged, writeRules, anchorPattern).
THEOREM FileIsMeant == ASSUME FamiliesNameSomething PROVE Spec => []RenderedAsWritten
  <1>1. RenderInv => RenderedAsWritten
    <2> SUFFICES ASSUME RenderInv, Parsed("filters", Blank) # Blank
                 PROVE  Parsed("filters", Blank) \in Faithful
      BY DEF RenderedAsWritten
    <2>1. Parsed("filters", Blank) \in Sources
      BY Numbers DEF Parsed, RenderInv, FileTypes, Kind, Files
    <2> QED BY <2>1, AllFaithful
  <1> QED BY <1>1, RenderInvariant, PTL

\* Whatever the rules, the gatherer that goes by the sets in memory skips no
\* directory that a backup of a repo without rules of its own walks into
\* (AbsoluteExcludePrefixes).
THEOREM SkipIsRight == ASSUME FamiliesNameSomething PROVE Spec => []SkipIsConservative
  <1>1. ASSUME NEW n \in Contents PROVE n \in Conservative
    <2>1. SetsOf(n) \in Seq(RuleSets) /\ AllName(SetsOf(n), <<>>)
      <3>1. 0 \in RulesOf /\ OwnOf(0) = <<>>
        BY Numbers DEF OwnOf
      <3>2. AllName(SetsOf(n), OwnOf(0))
        BY <3>1 DEF FamiliesNameSomething
      <3> QED BY <3>1, <3>2, FamiliesTyped
    <2>2. PlainSets(SetsOf(n)) => SkipsWhatIsLeftOut(SetsOf(n))
      BY <2>1, SkipsLeftOut, FilterAssumption DEF SkipsWhatIsLeftOut
    <2> QED BY <2>2 DEF Conservative
  <1>2. RenderInv => SkipIsConservative
    BY <1>1 DEF RenderInv, OtherTypes, SkipIsConservative
  <1> QED BY <1>2, RenderInvariant, PTL

-----------------------------------------------------------------------------
(* TreePush: the trees of the repos and of the backup roots.               *)

\* The items of the lane under way, and those that have no directory in common
\* with another one of it.
LaneItems == IF lane = 0 THEN {} ELSE Range(Lanes[lane])
Isolated(i) == \A k \in LaneItems \ {i}, e \in Dirs : ~(Tree!Covers(i, e) /\ Tree!Covers(k, e))

\* A walked tree is its lists and its sizes.
Shaped(n) == n = [tree |-> n.tree, size |-> [e \in Dirs |-> n.size[e]]]

CacheTyped == \A d \in Dirs : cache[d] # None => cache[d].tree \in [Dirs -> Nat]

\* What is walked, asked for and seen are items, of the lane that is under way.
LaneInv ==
    /\ version \in [Dirs -> Nat] /\ sizes \in [Dirs -> Nat] /\ blind \subseteq Dirs
    /\ lane \in 0..Len(Lanes) /\ reported \in BOOLEAN /\ seen \subseteq Items
    /\ todo \in Seq(LaneItems)
    /\ want \subseteq Items /\ (lane = 0 => want = {})

\* The nodes of a tree with no directory of another are still what was hashed.
NodesInv ==
    /\ DOMAIN sum = Items
    /\ \A i \in Items : nodes[i] # None => Shaped(nodes[i])
    /\ \A i \in Items : Isolated(i) => nodes[i] = sum[i]

TreeInv == LaneInv /\ CacheTyped /\ NodesInv

LEMMA LaneTyped ==
    ASSUME NEW n \in 1..Len(Lanes)
    PROVE  Range(Lanes[n]) \subseteq Items /\ Lanes[n] \in Seq(Range(Lanes[n]))
  <1>1. Lanes[n] \in Seq(Items)
    BY TreeConstantsFit DEF Tree!TreeConstants
  <1>2. \A m \in 1..Len(Lanes[n]) : Lanes[n][m] \in Range(Lanes[n])
    BY <1>1 DEF Range
  <1>3. Lanes[n] \in Seq(Range(Lanes[n]))
    BY <1>1, <1>2
  <1>4. Range(Lanes[n]) \subseteq Items
    BY <1>1 DEF Range
  <1> QED BY <1>3, <1>4

LEMMA LanesCounted == Len(Lanes) \in Nat /\ 1 <= Len(Lanes)
  BY TreeConstantsFit DEF Tree!TreeConstants

\* Sets of directories are finite, and what TreePush counts are numbers.
LEMMA DirsCounted ==
    ASSUME NEW S \in SUBSET Dirs
    PROVE  IsFiniteSet(S) /\ Tree!Cardinality(S) \in Nat
  <1>1. IsFiniteSet(Dirs)
    <2>1. Tree!IsFiniteSet(Dirs)
      BY TreeConstantsFit DEF Tree!TreeConstants
    <2> QED BY <2>1 DEF Tree!IsFiniteSet, IsFiniteSet
  <1>2. Tree!Cardinality(S) = Cardinality(S)
    BY DEF Tree!Cardinality, Cardinality
  <1> QED BY <1>1, <1>2, FS_Subset, FS_CardinalityType

LEMMA AboveTyped == \A d \in Dirs : Above[d] \subseteq Dirs
  BY TreeConstantsFit DEF Tree!TreeConstants

\* Where the walk does not go on by itself there is a first such directory.
LEMMA FirstStopStops ==
    ASSUME NEW t \in Dirs, NEW e \in Dirs, Tree!Stops(t, e) # {}
    PROVE  Tree!FirstStop(t, e) \in Tree!Stops(t, e)
  <1> DEFINE S == Tree!Stops(t, e)
             How(d) == Tree!Depth(t, d)
             Before(d) == {x \in S : How(x) < How(d)}
             F == {Before(d) : d \in S}
  <1>1. S \in SUBSET Dirs /\ \A d \in S : How(d) \in Int
    <2>1. S \in SUBSET Dirs
      BY AboveTyped DEF Tree!Stops
    <2>2. \A d \in Dirs : Tree!Cardinality(Above[d]) \in Nat
      BY AboveTyped, DirsCounted
    <2> QED BY <2>1, <2>2 DEF Tree!Depth
  <1>2. F \subseteq FiniteSubsetsOf(S) /\ F # {}
    <2>1. \A d \in S : Before(d) \in SUBSET S
      OBVIOUS
    <2>2. F \subseteq SUBSET S
      BY <2>1
    <2>3. F # {}
      OBVIOUS
    <2> HIDE DEF F, S
    <2> QED BY <1>1, <2>2, <2>3, DirsCounted, FS_FiniteSubsetsOfFinite
  <1> HIDE DEF S
  <1>3. PICK A \in F : \A B \in F : <<B, A>> \notin StrictSubsetOrdering(S)
    <2> HIDE DEF F
    <2>1. IsFiniteSet(S)
      BY <1>1, DirsCounted
    <2>2. IsWellFoundedOn(StrictSubsetOrdering(S), FiniteSubsetsOf(S))
      BY FS_StrictSubsetOrderingWellFounded
    <2> QED BY <1>2, <2>2, WFMin
  <1>4. PICK d \in S : A = Before(d)
    BY <1>3
  <1>5. \A x \in S : How(d) <= How(x)
    <2> HIDE DEF How
    <2> SUFFICES ASSUME NEW x \in S, How(x) < How(d) PROVE FALSE
      BY <1>1
    <2>1. x \in A /\ x \notin Before(x)
      BY <1>1, <1>4
    <2>2. Before(x) \subseteq A
      BY <1>1, <1>4
    <2>3. <<Before(x), A>> \in StrictSubsetOrdering(S)
      BY <2>1, <2>2, <1>4 DEF StrictSubsetOrdering
    <2> QED BY <2>3, <1>3
  <1>6. \E y \in S : \A x \in S : How(y) <= How(x)
    BY <1>5
  <1> QED BY <1>6 DEF Tree!FirstStop, S

\* A walk finds a version for every directory, 0 where there is none.
LEMMA WalkFinds ==
    ASSUME NEW t \in Dirs, NEW e \in Dirs, version \in [Dirs -> Nat], CacheTyped
    PROVE  Tree!walkDir(t, e) \in Nat
  <1>1. CASE Tree!Stops(t, e) = {}
    BY <1>1 DEF Tree!walkDir
  <1>2. CASE Tree!Stops(t, e) # {}
    <2> DEFINE d == Tree!FirstStop(t, e)
    <2>1. d \in Dirs
      BY <1>2, FirstStopStops, AboveTyped DEF Tree!Stops
    <2>2. Tree!Hit(d) => cache[d].tree[e] \in Nat
      BY <2>1 DEF Tree!Hit, CacheTyped
    <2> QED BY <1>2, <2>2 DEF Tree!walkDir
  <1> QED BY <1>1, <1>2

\* What a walk remembers is typed like what it found in the cache.
LEMMA WalkRemembers ==
    ASSUME NEW t \in Dirs, NEW d \in Dirs, version \in [Dirs -> Nat], CacheTyped,
           Tree!Remembered(t)[d] # None
    PROVE  Tree!Remembered(t)[d].tree \in [Dirs -> Nat]
  <1> DEFINE found == [e \in Dirs |-> IF d \in Above[e] THEN Tree!walkDir(t, e) ELSE 0]
  <1>1. found \in [Dirs -> Nat]
    BY WalkFinds
  <1>2. \/ Tree!Remembered(t)[d] = [mtime |-> version[d], tree |-> found]
        \/ Tree!Remembered(t)[d] = cache[d]
    BY DEF Tree!Remembered
  <1> HIDE DEF found
  <1> QED BY <1>1, <1>2 DEF CacheTyped

\* A tree with no directory of the walked one is not annotated again.
LEMMA NotRestamped ==
    ASSUME NEW k \in Items, NEW i \in LaneItems, NEW tree, k # i,
           Isolated(k), Shaped(nodes[k])
    PROVE  Tree!Restamped(k, i, tree) = nodes[k]
  <1> DEFINE n == nodes[k]
             stamped == [e \in Dirs |-> IF Tree!SharedNode(i, tree, k, e) THEN sizes[e] ELSE n.size[e]]
  <1>1. \A e \in Dirs : ~Tree!SharedNode(i, tree, k, e)
    BY DEF Isolated, Tree!SharedNode
  <1>2. stamped = [e \in Dirs |-> n.size[e]]
    BY <1>1
  <1>3. Tree!Restamped(k, i, tree) = [n EXCEPT !.size = stamped]
    BY DEF Tree!Restamped
  <1> QED BY <1>2, <1>3 DEF Shaped

LEMMA RestampedShaped ==
    ASSUME NEW k, NEW i, NEW tree, Shaped(nodes[k])
    PROVE  Shaped(Tree!Restamped(k, i, tree))
  <1> DEFINE n == nodes[k]
             stamped == [e \in Dirs |-> IF Tree!SharedNode(i, tree, k, e) THEN sizes[e] ELSE n.size[e]]
  <1>1. Tree!Restamped(k, i, tree) = [n EXCEPT !.size = stamped]
    BY DEF Tree!Restamped
  <1>2. stamped = [e \in Dirs |-> stamped[e]]
    OBVIOUS
  <1> HIDE DEF stamped
  <1> QED BY <1>1, <1>2 DEF Shaped

\* The walk of the next item.
LEMMA WalkKeeps == ASSUME TreeInv, Tree!walk PROVE TreeInv'
  <1> DEFINE i == Head(todo)
             TopOf(e) == CHOOSE t \in Tops[i] : t \in Above[e]
             tree == [e \in Dirs |-> IF Tree!Covers(i, e) THEN Tree!walkDir(TopOf(e), e) ELSE 0]
             size == Tree!annotateSizes(i, tree)
             new == [tree |-> tree, size |-> size]
  <1>1. /\ nodes' = [k \in Items |-> IF k = i THEN new
                                     ELSE IF nodes[k] = None THEN None ELSE Tree!Restamped(k, i, tree)]
        /\ sum' = [sum EXCEPT ![i] = new]
        /\ cache' = [d \in Dirs |-> IF Tree!Covers(i, d) THEN Tree!Remembered(TopOf(d))[d] ELSE cache[d]]
    BY DEF Tree!walk, Tree!treeSum
  <1>2. /\ todo # <<>> /\ todo' = Tail(todo)
        /\ UNCHANGED <<version, sizes, blind, lane, reported, want, seen>>
    BY DEF Tree!walk, Tree!disk
  <1>3. i \in LaneItems /\ i \in Items /\ todo' \in Seq(LaneItems)
    <2>1. i \in LaneItems /\ todo' \in Seq(LaneItems)
      BY <1>2, HeadTailProperties DEF TreeInv, LaneInv
    <2>2. LaneItems \subseteq Items
      BY LaneTyped DEF TreeInv, LaneInv, LaneItems
    <2> QED BY <2>1, <2>2
  <1>4. LaneInv' /\ LaneItems' = LaneItems
    BY <1>2, <1>3 DEF TreeInv, LaneInv, LaneItems
  <1>5. CacheTyped'
    <2> SUFFICES ASSUME NEW d \in Dirs, cache'[d] # None PROVE cache'[d].tree \in [Dirs -> Nat]
      BY DEF CacheTyped
    <2>1. CASE Tree!Covers(i, d)
      <3>1. TopOf(d) \in Dirs
        <4>1. \E t \in Tops[i] : t \in Above[d]
          BY <2>1 DEF Tree!Covers
        <4> QED BY <4>1, AboveTyped
      <3>2. cache'[d] = Tree!Remembered(TopOf(d))[d]
        BY <1>1, <2>1
      <3> HIDE DEF TopOf
      <3> QED BY <3>1, <3>2, WalkRemembers DEF TreeInv, LaneInv
    <2>2. CASE ~Tree!Covers(i, d)
      <3>1. cache'[d] = cache[d]
        BY <1>1, <2>2
      <3> QED BY <3>1 DEF TreeInv, CacheTyped
    <2> QED BY <2>1, <2>2
  <1>6. NodesInv'
    <2>1. Shaped(new)
      <3>1. size = [e \in Dirs |-> size[e]]
        BY DEF Tree!annotateSizes
      <3> HIDE DEF tree, size
      <3> QED BY <3>1 DEF Shaped
    <2> HIDE DEF new, tree, i
    <2>2. DOMAIN sum' = Items
      BY <1>1 DEF TreeInv, NodesInv
    <2>3. nodes'[i] = new /\ sum'[i] = new
      BY <1>1, <1>3 DEF TreeInv, NodesInv
    <2>4. ASSUME NEW k \in Items, k # i
          PROVE  /\ sum'[k] = sum[k]
                 /\ nodes[k] = None => nodes'[k] = None
                 /\ nodes[k] # None => nodes'[k] = Tree!Restamped(k, i, tree)
      BY <1>1, <2>4 DEF TreeInv, NodesInv
    <2>5. ASSUME NEW k \in Items, nodes'[k] # None PROVE Shaped(nodes'[k])
      <3>1. CASE k = i
        BY <2>1, <2>3, <3>1
      <3>2. CASE k # i
        <4>1. nodes'[k] = Tree!Restamped(k, i, tree) /\ Shaped(nodes[k])
          BY <2>4, <2>5, <3>2 DEF TreeInv, NodesInv
        <4> QED BY <4>1, RestampedShaped
      <3> QED BY <3>1, <3>2
    <2>6. ASSUME NEW k \in Items, Isolated(k) PROVE nodes'[k] = sum'[k]
      <3>1. CASE k = i
        BY <2>3, <3>1
      <3>2. CASE k # i /\ nodes[k] = None
        BY <2>4, <2>6, <3>2 DEF TreeInv, NodesInv
      <3>3. CASE k # i /\ nodes[k] # None
        <4>1. Tree!Restamped(k, i, tree) = nodes[k]
          BY <1>3, <2>6, <3>3, NotRestamped DEF TreeInv, NodesInv
        <4> QED BY <2>4, <2>6, <3>3, <4>1 DEF TreeInv, NodesInv
      <3> QED BY <3>1, <3>2, <3>3
    <2>7. \A k \in Items : Isolated(k)' => Isolated(k)
      BY <1>4 DEF Isolated, Tree!Covers
    <2> QED BY <2>2, <2>5, <2>6, <2>7 DEF NodesInv
  <1> QED BY <1>4, <1>5, <1>6 DEF TreeInv

\* The next lane begins with nothing in memory, and so does a tick.
LEMMA LaneChangeKeeps ==
    ASSUME TreeInv,
           /\ lane' \in 0..Len(Lanes)
           /\ todo' = IF lane' = 0 THEN <<>> ELSE Lanes[lane']
           /\ want' = {} /\ reported' \in BOOLEAN
           /\ nodes' = [i \in Items |-> None] /\ sum' = nodes'
           /\ UNCHANGED <<version, sizes, blind, seen>>
    PROVE  LaneInv' /\ NodesInv'
  <1>1. todo' \in Seq(LaneItems')
    <2>1. CASE lane' = 0
      BY <2>1 DEF LaneItems
    <2>2. CASE lane' # 0
      <3>1. lane' \in 1..Len(Lanes)
        BY <2>2, LanesCounted
      <3> QED BY <2>2, <3>1, LaneTyped DEF LaneItems
    <2> QED BY <2>1, <2>2
  <1>2. LaneInv'
    BY <1>1 DEF TreeInv, LaneInv
  <1>3. NodesInv'
    BY DEF NodesInv, Shaped
  <1> QED BY <1>2, <1>3

\* A step that leaves the trees and the lane alone.
LEMMA ElsewhereKeeps ==
    ASSUME TreeInv, UNCHANGED <<cache, lane, nodes, sum>>,
           LaneInv'
    PROVE  TreeInv'
  <1>1. CacheTyped'
    BY DEF TreeInv, CacheTyped
  <1>2. NodesInv'
    BY DEF TreeInv, NodesInv, Isolated, LaneItems, Shaped, Tree!Covers
  <1> QED BY <1>1, <1>2 DEF TreeInv

\* The walk and the push keep the trees that were announced, whatever changes
\* on disk, fails, comes late or is cut off by a restart.
THEOREM TreeInvariant == Tree!Spec => []TreeInv
  <1>1. Tree!Init => TreeInv
    <2> SUFFICES ASSUME Tree!Init PROVE TreeInv
      OBVIOUS
    <2>1. LaneInv
      <3>1. version \in [Dirs -> Nat] /\ sizes \in [Dirs -> Nat]
        BY DEF Tree!Init
      <3>2. lane = 0 /\ 0 \in 0..Len(Lanes)
        BY LanesCounted DEF Tree!Init
      <3>3. todo \in Seq(LaneItems)
        BY DEF Tree!Init
      <3> QED BY <3>1, <3>2, <3>3 DEF Tree!Init, LaneInv
    <2>2. CacheTyped
      BY DEF Tree!Init, CacheTyped
    <2>3. NodesInv
      BY DEF Tree!Init, NodesInv
    <2> QED BY <2>1, <2>2, <2>3 DEF TreeInv
  <1>2. TreeInv /\ [Tree!Next]_Tree!vars => TreeInv'
    <2> SUFFICES ASSUME TreeInv, [Tree!Next]_Tree!vars PROVE TreeInv'
      OBVIOUS
    <2>1. CASE Tree!tick
      <3>1. 1 \in 1..Len(Lanes)
        BY LanesCounted
      <3>2. lane' = 1 /\ todo' = Lanes[1] /\ lane = 0 /\ want' = {}
        BY <2>1 DEF Tree!tick, TreeInv, LaneInv
      <3>3. LaneInv'
        BY <2>1, <3>1, <3>2, LaneTyped DEF Tree!tick, Tree!disk, TreeInv, LaneInv, LaneItems
      <3>4. CacheTyped'
        BY <2>1 DEF Tree!tick, TreeInv, CacheTyped
      <3>5. \A i \in Items : Isolated(i)
        BY <3>2 DEF Isolated, LaneItems
      <3>6. NodesInv'
        BY <2>1, <3>5 DEF Tree!tick, TreeInv, NodesInv, Shaped
      <3> QED BY <3>3, <3>4, <3>6 DEF TreeInv
    <2>2. CASE Tree!walk
      BY <2>2, WalkKeeps
    <2>3. CASE Tree!walkFails
      <3>1. LaneInv'
        BY <2>3, HeadTailProperties DEF Tree!walkFails, Tree!disk, TreeInv, LaneInv, LaneItems
      <3> QED BY <2>3, <3>1, ElsewhereKeeps DEF Tree!walkFails
    <2>4. CASE Tree!manifest \/ Tree!manifestFails
      <3>1. LaneInv'
        <4>1. /\ UNCHANGED <<version, sizes, blind, lane, todo>> /\ lane # 0 /\ reported' = TRUE
          BY <2>4 DEF Tree!manifest, Tree!manifestFails, Tree!disk, TreeInv, LaneInv
        <4>2. seen' \subseteq Items
          BY <2>4 DEF Tree!manifest, Tree!manifestFails, Tree!Walked, TreeInv, LaneInv
        <4>3. want' \subseteq Items
          BY <2>4 DEF Tree!manifest, Tree!manifestFails, Tree!Walked, TreeInv, LaneInv
        <4> QED BY <4>1, <4>2, <4>3 DEF TreeInv, LaneInv, LaneItems
      <3> QED BY <2>4, <3>1, ElsewhereKeeps DEF Tree!manifest, Tree!manifestFails
    <2>5. CASE Tree!put \/ Tree!putFails
      <3>1. LaneInv'
        BY <2>5 DEF Tree!put, Tree!putFails, Tree!disk, TreeInv, LaneInv, LaneItems
      <3> QED BY <2>5, <3>1, ElsewhereKeeps DEF Tree!put, Tree!putFails
    <2>6. CASE Tree!laneEnds
      <3>1. CacheTyped'
        BY <2>6 DEF Tree!laneEnds, TreeInv, CacheTyped
      <3>2. lane' \in 0..Len(Lanes) /\ todo' = IF lane' = 0 THEN <<>> ELSE Lanes[lane']
        BY <2>6, LanesCounted DEF Tree!laneEnds, TreeInv, LaneInv
      <3>3. LaneInv' /\ NodesInv'
        BY <2>6, <3>2, LaneChangeKeeps DEF Tree!laneEnds, Tree!disk
      <3> QED BY <3>1, <3>3 DEF TreeInv
    <2>7. CASE Tree!restart
      <3>1. CacheTyped'
        BY <2>7 DEF Tree!restart, CacheTyped
      <3>2. lane' = 0 /\ 0 \in 0..Len(Lanes)
        BY <2>7, LanesCounted DEF Tree!restart
      <3>3. LaneInv' /\ NodesInv'
        BY <2>7, <3>2, LaneChangeKeeps DEF Tree!restart, Tree!disk
      <3> QED BY <3>1, <3>3 DEF TreeInv
    <2>8. CASE Tree!Late \/ Tree!Reaps
      <3>1. UNCHANGED <<version, sizes, blind, cache, lane, todo, nodes, sum, reported, want, seen>>
        BY <2>8 DEF Tree!Late, Tree!Reaps, Tree!arrives, Tree!reap, Tree!disk, Tree!progress
      <3>2. LaneInv'
        BY <3>1 DEF TreeInv, LaneInv, LaneItems
      <3> QED BY <3>1, <3>2, ElsewhereKeeps
    <2>9. CASE Tree!Changes \/ Tree!Readable
      <3>1. /\ UNCHANGED <<cache, lane, todo, nodes, sum, reported, want, seen>>
            /\ version' \in [Dirs -> Nat] /\ sizes' \in [Dirs -> Nat] /\ blind' \subseteq Dirs
        BY <2>9 DEF Tree!Changes, Tree!Readable, Tree!change, Tree!gathered, Tree!blinded,
                    Tree!readable, Tree!progress, TreeInv, LaneInv
      <3>2. LaneInv'
        BY <3>1 DEF TreeInv, LaneInv, LaneItems
      <3> QED BY <3>1, <3>2, ElsewhereKeeps
    <2>10. CASE UNCHANGED Tree!vars
      <3>1. UNCHANGED <<version, sizes, blind, cache, lane, todo, nodes, sum, reported, want, seen>>
        BY <2>10 DEF Tree!vars, Tree!disk, Tree!progress
      <3>2. LaneInv'
        BY <3>1 DEF TreeInv, LaneInv, LaneItems
      <3> QED BY <3>1, <3>2, ElsewhereKeeps
    <2> QED
      BY <2>1, <2>2, <2>3, <2>4, <2>5, <2>6, <2>7, <2>8, <2>9, <2>10
         DEF Tree!Next, Tree!Walker, Tree!Fails
  <1> QED BY <1>1, <1>2, PTL DEF Tree!Spec

\* A tree that has no directory in common with another of its lane is sent as
\* it was announced, byte for byte, whatever is cached, gathered or changes in
\* between (pushTreeLane, gzipTree); and the walk keeps its types.
THEOREM SentAsAnnounced == Tree!Spec => [](Tree!TypeOK /\ Tree!PutMatchesManifest)
  <1>1. TreeInv => Tree!TypeOK
    BY DEF TreeInv, LaneInv, CacheTyped, Tree!TypeOK
  <1>2. TreeInv => Tree!PutMatchesManifest
    <2> SUFFICES ASSUME TreeInv, NEW i \in want,
                        \A k \in Tree!Range(Lanes[lane]) \ {i}, e \in Dirs :
                            ~(Tree!Covers(i, e) /\ Tree!Covers(k, e))
                 PROVE  nodes[i] = sum[i]
      BY DEF Tree!PutMatchesManifest, Tree!gzipTree
    <2>1. LaneItems = Tree!Range(Lanes[lane])
      BY DEF TreeInv, LaneInv, LaneItems, Range, Tree!Range
    <2>2. Isolated(i)
      BY <2>1 DEF Isolated
    <2> QED BY <2>2 DEF TreeInv, LaneInv, NodesInv
  <1> QED BY <1>1, <1>2, TreeInvariant, PTL
=============================================================================
