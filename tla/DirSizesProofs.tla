--------------------------- MODULE DirSizesProofs ---------------------------
(***************************************************************************)
(* Proofs about DirSizes: the laws of sums over finite sets, the tree of   *)
(* directories, what an entry and a frame of the walk claim, and that every*)
(* step keeps these claims.  What is said of values (entries, frames,      *)
(* clocks) is stated with parameters, and applied to the state in the      *)
(* steps.                                                                  *)
(***************************************************************************)
EXTENDS DirSizes, FiniteSetTheorems, WellFoundedInduction, TLAPS

-----------------------------------------------------------------------------
(* Least and greatest.                                                     *)

\* A family of subsets of a finite set has a smallest.
LEMMA SmallestSubset ==
    ASSUME NEW S, IsFiniteSet(S), NEW F, F \subseteq SUBSET S, F # {}
    PROVE  \E A \in F : \A B \in F : B \subseteq A => B = A
  <1>1. F \subseteq FiniteSubsetsOf(S)
    BY FS_FiniteSubsetsOfFinite
  <1>2. PICK A \in F : \A B \in F : <<B, A>> \notin StrictSubsetOrdering(S)
    BY <1>1, FS_StrictSubsetOrderingWellFounded, WFMin
  <1> QED BY <1>2 DEF StrictSubsetOrdering

-----------------------------------------------------------------------------
(* Sums over finite sets, without an order.                                *)

\* A sum over the subsets of S, one element after the other.
Adds(f, S, g) ==
    g = [T \in SUBSET S |-> IF T = {} THEN 0
                            ELSE LET x == CHOOSE x \in T : TRUE IN f[x] + g[T \ {x}]]

LEMMA SumIsAdds ==
    ASSUME NEW f, NEW S
    PROVE  SumFunctionOnSet(f, S) = (CHOOSE g : Adds(f, S, g))[S]
  BY DEF SumFunctionOnSet, FoldFunctionOnSet, MapThenFoldSet, Adds

\* What the sums over the subsets of S are for those of U.
Cut(g, U) == [T \in SUBSET U |-> g[T]]

\* There is one such sum, and what it gives for a subset is the subset's.
LEMMA AddsBelow ==
    ASSUME NEW f, NEW S, NEW U \in SUBSET S, NEW g, Adds(f, S, g)
    PROVE  Adds(f, U, Cut(g, U))
  <1> DEFINE h == [T \in SUBSET U |-> g[T]]
  <1>1. ASSUME NEW T \in SUBSET U
        PROVE  h[T] = IF T = {} THEN 0 ELSE LET x == CHOOSE x \in T : TRUE IN f[x] + h[T \ {x}]
    <2>1. T \in SUBSET S /\ T \ {CHOOSE x \in T : TRUE} \in SUBSET U
      OBVIOUS
    <2>2. h[T] = g[T] /\ h[T \ {CHOOSE x \in T : TRUE}] = g[T \ {CHOOSE x \in T : TRUE}]
      BY <2>1
    <2> QED BY <2>1, <2>2 DEF Adds
  <1>2. h = [T \in SUBSET U |-> IF T = {} THEN 0
                                ELSE LET x == CHOOSE x \in T : TRUE IN f[x] + h[T \ {x}]]
    <2>1. h = [T \in SUBSET U |-> h[T]]
      OBVIOUS
    <2> HIDE DEF h
    <2> QED BY <1>1, <2>1
  <1> QED BY <1>2 DEF Adds, Cut

LEMMA AddsUnique ==
    ASSUME NEW f, NEW S, IsFiniteSet(S), NEW g, NEW h, Adds(f, S, g), Adds(f, S, h)
    PROVE  g = h
  <1> DEFINE F == {T \in SUBSET S : g[T] # h[T]}
  <1>1. /\ \A T \in SUBSET S : T # {} => g[T] = f[CHOOSE x \in T : TRUE] + g[T \ {CHOOSE x \in T : TRUE}]
        /\ \A T \in SUBSET S : T # {} => h[T] = f[CHOOSE x \in T : TRUE] + h[T \ {CHOOSE x \in T : TRUE}]
        /\ g[{}] = 0 /\ h[{}] = 0
    BY DEF Adds
  <1>2. F = {}
    <2> SUFFICES ASSUME F # {} PROVE FALSE
      OBVIOUS
    <2>1. PICK A \in F : \A B \in F : B \subseteq A => B = A
      <3>1. F \subseteq SUBSET S
        OBVIOUS
      <3> HIDE DEF F
      <3> QED BY <3>1, SmallestSubset
    <2> DEFINE c == CHOOSE x \in A : TRUE
    <2>2. A # {}
      BY <1>1
    <2>3. c \in A
      BY <2>2
    <2>4. A \ {c} \notin F
      BY <2>1, <2>3
    <2>5. A \in SUBSET S /\ A \ {c} \in SUBSET S /\ g[A] # h[A]
      OBVIOUS
    <2>6. g[A \ {c}] = h[A \ {c}]
      BY <2>4, <2>5
    <2>7. g[A] = f[c] + g[A \ {c}] /\ h[A] = f[c] + h[A \ {c}]
      BY <1>1, <2>2, <2>5
    <2> QED BY ONLY <2>5, <2>6, <2>7
  <1>3. g = [T \in SUBSET S |-> g[T]] /\ h = [T \in SUBSET S |-> h[T]]
    BY DEF Adds
  <1> QED BY <1>2, <1>3

LEMMA AddsExists ==
    ASSUME NEW f, NEW S, IsFiniteSet(S)
    PROVE  \E g : Adds(f, S, g)
  <1> DEFINE F == {T \in SUBSET S : ~ \E g : Adds(f, T, g)}
  <1> SUFFICES ASSUME F # {} PROVE FALSE
    OBVIOUS
  <1>1. PICK A \in F : \A B \in F : B \subseteq A => B = A
    <2>1. F \subseteq SUBSET S
      OBVIOUS
    <2> HIDE DEF F
    <2> QED BY <2>1, SmallestSubset
  <1> DEFINE h(T) == CHOOSE g : Adds(f, T, g)
             c(T) == CHOOSE x \in T : TRUE
             G == [T \in SUBSET A |-> IF T = {} THEN 0 ELSE f[c(T)] + h(T \ {c(T)})[T \ {c(T)}]]
  <1>2. \A T \in SUBSET A : T # A => Adds(f, T, h(T))
    BY <1>1
  <1>3. \A T \in SUBSET A : IsFiniteSet(T)
    BY FS_Subset
  <1>4. \A T : T # {} => c(T) \in T /\ T \ {c(T)} # T
    OBVIOUS
  <1>0. \A T \in SUBSET A : G[T] = IF T = {} THEN 0 ELSE f[c(T)] + h(T \ {c(T)})[T \ {c(T)}]
    <2> HIDE DEF h, c
    <2> QED OBVIOUS
  <1>5. ASSUME NEW T \in SUBSET A, T # A PROVE G[T] = h(T)[T]
    <2>1. Adds(f, T, h(T))
      BY <1>2, <1>5
    <2>2. CASE T = {}
      BY <1>0, <2>1, <2>2 DEF Adds
    <2>3. CASE T # {}
      <3> DEFINE U == T \ {c(T)}
      <3>1. U \in SUBSET T /\ U \in SUBSET A /\ U # A
        BY <1>4, <1>5, <2>3
      <3>2. Adds(f, U, h(U)) /\ Adds(f, U, Cut(h(T), U))
        <4>1. Adds(f, U, h(U))
          BY <1>2, <3>1
        <4> HIDE DEF h, U
        <4> QED BY <2>1, <3>1, <4>1, AddsBelow
      <3>3. h(U) = Cut(h(T), U)
        BY <1>3, <3>1, <3>2, AddsUnique
      <3>4. h(U)[U] = h(T)[U]
        <4> HIDE DEF h
        <4> QED BY <3>3 DEF Cut
      <3>5. h(T)[T] = f[c(T)] + h(T)[U]
        BY <2>1, <2>3 DEF Adds
      <3> HIDE DEF G, h, c
      <3> QED BY <1>0, <2>3, <3>4, <3>5
    <2> QED BY <2>2, <2>3
  <1>6. \A T \in SUBSET A : G[T] = IF T = {} THEN 0 ELSE f[c(T)] + G[T \ {c(T)}]
    <2> SUFFICES ASSUME NEW T \in SUBSET A
                 PROVE  G[T] = IF T = {} THEN 0 ELSE f[c(T)] + G[T \ {c(T)}]
      OBVIOUS
    <2>1. T # {} => T \ {c(T)} \in SUBSET A /\ T \ {c(T)} # A
      BY <1>4
    <2>2. T # {} => G[T \ {c(T)}] = h(T \ {c(T)})[T \ {c(T)}]
      BY <1>5, <2>1
    <2> HIDE DEF G, h, c
    <2> QED BY <1>0, <2>2
  <1>7. G = [T \in SUBSET A |-> G[T]]
    OBVIOUS
  <1>8. Adds(f, A, G)
    <2> HIDE DEF G
    <2> QED BY <1>6, <1>7 DEF Adds
  <1> QED BY <1>8

\* One element after the other: first the one that is chosen ...
LEMMA SumChosen ==
    ASSUME NEW f, NEW S, IsFiniteSet(S)
    PROVE  IF S = {} THEN SumFunctionOnSet(f, S) = 0
           ELSE LET x == CHOOSE x \in S : TRUE
                IN  SumFunctionOnSet(f, S) = f[x] + SumFunctionOnSet(f, S \ {x})
  <1> DEFINE g == CHOOSE g : Adds(f, S, g)
             x == CHOOSE x \in S : TRUE
             U == S \ {x}
             h == CHOOSE h : Adds(f, U, h)
  <1>1. Adds(f, S, g) /\ Adds(f, U, h) /\ IsFiniteSet(U)
    BY AddsExists, FS_Subset
  <1>2. SumFunctionOnSet(f, S) = g[S] /\ SumFunctionOnSet(f, U) = h[U]
    BY SumIsAdds
  <1>3. h = Cut(g, U)
    <2> HIDE DEF g, h
    <2>1. U \in SUBSET S
      OBVIOUS
    <2> HIDE DEF U
    <2>2. Adds(f, U, Cut(g, U))
      BY <1>1, <2>1, AddsBelow
    <2> QED BY <1>1, <2>2, AddsUnique
  <1>4. h[U] = g[U]
    <2> HIDE DEF g, h
    <2> QED BY <1>3 DEF Cut
  <1>5. S = {} => g[S] = 0
    <2> HIDE DEF g
    <2> QED BY <1>1 DEF Adds
  <1>6. S # {} => g[S] = f[x] + g[U]
    <2> HIDE DEF g
    <2> QED BY <1>1 DEF Adds
  <1> QED BY <1>2, <1>4, <1>5, <1>6

\* ... and so any.
LEMMA SumRemove ==
    ASSUME NEW D, NEW f \in [D -> Nat], NEW S \in SUBSET D, IsFiniteSet(S)
    PROVE  /\ SumFunctionOnSet(f, {}) = 0
           /\ SumFunctionOnSet(f, S) \in Nat
           /\ \A x \in S : SumFunctionOnSet(f, S) = f[x] + SumFunctionOnSet(f, S \ {x})
  <1> DEFINE sum(T) == SumFunctionOnSet(f, T)
             c(T) == CHOOSE x \in T : TRUE
  <1>1. \A T \in SUBSET S : IsFiniteSet(T)
    BY FS_Subset
  <1>0. sum({}) = 0
    BY FS_EmptySet, SumChosen
  <1>2. \A T \in SUBSET S : T # {} => sum(T) = f[c(T)] + sum(T \ {c(T)})
    BY <1>1, SumChosen
  <1>3. \A T : T # {} => c(T) \in T
    OBVIOUS
  <1> HIDE DEF sum, c
  <1>4. \A T \in SUBSET S : sum(T) \in Nat
    <2> DEFINE F == {T \in SUBSET S : sum(T) \notin Nat}
    <2> SUFFICES ASSUME F # {} PROVE FALSE
      OBVIOUS
    <2>1. PICK A \in F : \A B \in F : B \subseteq A => B = A
      <3>1. F \subseteq SUBSET S
        OBVIOUS
      <3> HIDE DEF F
      <3> QED BY <3>1, SmallestSubset
    <2>2. A # {} /\ c(A) \in A /\ A \ {c(A)} \notin F
      <3>1. A \in SUBSET S /\ sum(A) \notin Nat
        OBVIOUS
      <3>2. A # {}
        BY ONLY <1>0, <3>1
      <3> QED BY <1>3, <2>1, <3>2
    <2>3. sum(A \ {c(A)}) \in Nat /\ f[c(A)] \in Nat
      BY <2>2
    <2> QED BY <1>2, <2>2, <2>3
  <1>5. \A T \in SUBSET S : \A x \in T : sum(T) = f[x] + sum(T \ {x})
    <2> DEFINE F == {T \in SUBSET S : \E x \in T : sum(T) # f[x] + sum(T \ {x})}
    <2> SUFFICES ASSUME F # {} PROVE FALSE
      OBVIOUS
    <2>1. PICK A \in F : \A B \in F : B \subseteq A => B = A
      <3>1. F \subseteq SUBSET S
        OBVIOUS
      <3> HIDE DEF F
      <3> QED BY <3>1, SmallestSubset
    <2>2. PICK x \in A : sum(A) # f[x] + sum(A \ {x})
      OBVIOUS
    <2> DEFINE d == c(A)
    <2>3. d \in A /\ sum(A) = f[d] + sum(A \ {d})
      BY <1>2, <1>3, <2>2
    <2> HIDE DEF d
    <2>4. d # x
      BY <2>2, <2>3
    <2>5. A \ {d} \notin F /\ A \ {x} \notin F
      BY <2>1, <2>3
    <2>6. sum(A \ {d}) = f[x] + sum((A \ {d}) \ {x}) /\ sum(A \ {x}) = f[d] + sum((A \ {x}) \ {d})
      BY <2>3, <2>4, <2>5
    <2>7. (A \ {d}) \ {x} = (A \ {x}) \ {d}
      OBVIOUS
    <2>8. f[x] \in Nat /\ f[d] \in Nat /\ sum((A \ {x}) \ {d}) \in Nat
      BY <1>4, <2>3
    <2>9. sum(A) = f[d] + (f[x] + sum((A \ {x}) \ {d})) /\ sum(A \ {x}) = f[d] + sum((A \ {x}) \ {d})
      BY <2>3, <2>6, <2>7
    <2> QED BY ONLY <2>2, <2>8, <2>9
  <1> QED BY <1>0, <1>4, <1>5 DEF sum

\* The sum over one element, over two sets apart, and over a part.
LEMMA SumOne ==
    ASSUME NEW D, NEW f \in [D -> Nat], NEW x \in D
    PROVE  SumFunctionOnSet(f, {x}) = f[x]
  <1>1. IsFiniteSet({x}) /\ {x} \in SUBSET D /\ {x} \ {x} = {} /\ x \in {x} /\ f[x] \in Nat
    BY FS_Singleton
  <1> QED BY <1>1, SumRemove

LEMMA SumUnion ==
    ASSUME NEW D, IsFiniteSet(D), NEW f \in [D -> Nat], NEW R \in SUBSET D, NEW S \in SUBSET D,
           R \intersect S = {}
    PROVE  SumFunctionOnSet(f, R \union S) = SumFunctionOnSet(f, R) + SumFunctionOnSet(f, S)
  <1> DEFINE sum(T) == SumFunctionOnSet(f, T)
  <1>1. \A T \in SUBSET D : IsFiniteSet(T) /\ sum(T) \in Nat
    BY FS_Subset, SumRemove
  <1>2. \A T \in SUBSET D : \A x \in T : sum(T) = f[x] + sum(T \ {x})
    <2> SUFFICES ASSUME NEW T \in SUBSET D PROVE \A x \in T : sum(T) = f[x] + sum(T \ {x})
      OBVIOUS
    <2> QED BY <1>1, SumRemove
  <1>3. sum({}) = 0
    BY SumRemove, FS_EmptySet
  <1> HIDE DEF sum
  <1>4. \A T \in SUBSET S : sum(R \union T) = sum(R) + sum(T)
    <2> DEFINE F == {T \in SUBSET S : sum(R \union T) # sum(R) + sum(T)}
    <2> SUFFICES ASSUME F # {} PROVE FALSE
      OBVIOUS
    <2>1. PICK A \in F : \A B \in F : B \subseteq A => B = A
      <3>1. F \subseteq SUBSET S /\ IsFiniteSet(S)
        BY <1>1
      <3> HIDE DEF F
      <3> QED BY <3>1, SmallestSubset
    <2>2. A \in SUBSET S /\ sum(R \union A) # sum(R) + sum(A)
      OBVIOUS
    <2>3. CASE A = {}
      <3>1. R \union A = R /\ sum(R) \in Nat
        BY <1>1, <2>3
      <3> QED BY ONLY <1>3, <2>2, <2>3, <3>1
    <2>4. CASE A # {}
      <3>1. PICK x \in A : TRUE
        BY <2>4
      <3>2. A \ {x} \notin F
        BY <2>1
      <3>3. sum(R \union (A \ {x})) = sum(R) + sum(A \ {x})
        BY <2>2, <3>2
      <3>4. (R \union A) \ {x} = R \union (A \ {x})
        BY <2>2
      <3>5. R \union A \in SUBSET D /\ A \in SUBSET D /\ A \ {x} \in SUBSET D /\ x \in R \union A
        BY <2>2
      <3>6. sum(R \union A) = f[x] + sum(R \union (A \ {x})) /\ sum(A) = f[x] + sum(A \ {x})
        BY <1>2, <3>4, <3>5
      <3>7. sum(R) \in Nat /\ sum(A \ {x}) \in Nat /\ f[x] \in Nat
        BY <1>1, <3>5
      <3> QED BY ONLY <2>2, <3>3, <3>6, <3>7
    <2> QED BY <2>3, <2>4
  <1> QED BY <1>4 DEF sum

LEMMA SumPart ==
    ASSUME NEW D, IsFiniteSet(D), NEW f \in [D -> Nat], NEW S \in SUBSET D, NEW R \in SUBSET S
    PROVE  SumFunctionOnSet(f, R) <= SumFunctionOnSet(f, S)
  <1>1. R \in SUBSET D /\ S \ R \in SUBSET D /\ R \union (S \ R) = S /\ R \intersect (S \ R) = {}
    OBVIOUS
  <1>2. SumFunctionOnSet(f, S) = SumFunctionOnSet(f, R) + SumFunctionOnSet(f, S \ R)
    BY <1>1, SumUnion
  <1>3. SumFunctionOnSet(f, R) \in Nat /\ SumFunctionOnSet(f, S \ R) \in Nat
    BY <1>1, SumRemove, FS_Subset
  <1> QED BY <1>2, <1>3

\* The same number for each: a product.
LEMMA SumSame ==
    ASSUME NEW D, IsFiniteSet(D), NEW k \in Nat
    PROVE  SumFunctionOnSet([x \in D |-> k], D) = k * Cardinality(D)
  <1> DEFINE f == [x \in D |-> k]
             sum(T) == SumFunctionOnSet(f, T)
  <1>1. f \in [D -> Nat] /\ \A x \in D : f[x] = k
    OBVIOUS
  <1> HIDE DEF f
  <1>2. sum({}) = 0 /\ \A T \in SUBSET D : \A x \in T : sum(T) = f[x] + sum(T \ {x})
    BY <1>1, FS_Subset, FS_EmptySet, SumRemove
  <1> HIDE DEF sum
  <1>3. \A T \in SUBSET D : sum(T) = k * Cardinality(T)
    <2> DEFINE F == {T \in SUBSET D : sum(T) # k * Cardinality(T)}
    <2> SUFFICES ASSUME F # {} PROVE FALSE
      OBVIOUS
    <2>1. PICK A \in F : \A B \in F : B \subseteq A => B = A
      <3>1. F \subseteq SUBSET D
        OBVIOUS
      <3> HIDE DEF F
      <3> QED BY <3>1, SmallestSubset
    <2>2. A \in SUBSET D /\ sum(A) # k * Cardinality(A)
      OBVIOUS
    <2>3. A # {}
      <3>1. Cardinality({}) = 0 /\ k * 0 = 0
        BY FS_EmptySet
      <3> QED BY ONLY <1>2, <2>2, <3>1
    <2>4. PICK x \in A : TRUE
      BY <2>3
    <2>5. sum(A \ {x}) = k * Cardinality(A \ {x})
      <3>1. A \ {x} \notin F
        BY <2>1
      <3> QED BY <2>2, <3>1
    <2>6. sum(A) = k + sum(A \ {x})
      BY <1>1, <1>2, <2>2
    <2>7. Cardinality(A) \in Nat /\ Cardinality(A \ {x}) = Cardinality(A) - 1
      BY <2>2, FS_Subset, FS_CardinalityType, FS_RemoveElement
    <2>8. \A n \in Nat : k + k * (n - 1) = k * n
      OBVIOUS
    <2> QED BY ONLY <2>2, <2>5, <2>6, <2>7, <2>8
  <1> QED BY <1>3 DEF sum, f

-----------------------------------------------------------------------------
(* The tree of directories.                                                *)

\* What goes up from d.
Closed(S) == \A x \in S : Parent[x] \in S \union {"none"}

LEMMA AboveIs ==
    ASSUME NEW d \in Dirs
    PROVE  /\ Above[d] \subseteq Dirs /\ d \in Above[d] /\ Closed(Above[d])
           /\ \A S \in SUBSET Dirs : d \in S /\ Closed(S) => Above[d] \subseteq S
  <1>1. Above[d] = {e \in Dirs : \A S \in SUBSET Dirs : d \in S /\ Closed(S) => e \in S}
    BY DEF Above, Closed
  <1>2. ASSUME NEW x \in Above[d], Parent[x] # "none" PROVE Parent[x] \in Above[d]
    <2>1. x \in Dirs /\ Parent[x] \in Dirs
      BY <1>1, <1>2, DirSizesAssumption
    <2>2. ASSUME NEW S \in SUBSET Dirs, d \in S, Closed(S) PROVE Parent[x] \in S
      <3>1. x \in S
        BY <1>1, <2>2
      <3> QED BY <1>2, <2>2, <3>1 DEF Closed
    <2> QED BY <1>1, <2>1, <2>2
  <1>3. Closed(Above[d])
    BY <1>2 DEF Closed
  <1> QED BY <1>1, <1>3

\* d is above itself, and what is above its parent is above it.
LEMMA AboveKid ==
    ASSUME NEW d \in Dirs, NEW c \in Kids(d)
    PROVE  /\ c \in Dirs /\ Above[c] = {c} \union Above[d]
           /\ c \notin Above[d]
  <1>0. c \in Dirs /\ Parent[c] = d /\ d # "none"
    BY DirSizesAssumption DEF Kids
  <1>1. Above[c] \subseteq {c} \union Above[d]
    <2>1. Closed({c} \union Above[d]) /\ {c} \union Above[d] \in SUBSET Dirs
      BY <1>0, AboveIs DEF Closed
    <2> QED BY <1>0, <2>1, AboveIs
  <1>2. Above[d] \subseteq Above[c] /\ c \in Above[c]
    <2>1. d \in Above[c]
      BY <1>0, AboveIs DEF Closed
    <2> QED BY <1>0, <2>1, AboveIs
  <1>3. ASSUME c \in Above[d] PROVE FALSE
    <2> DEFINE S == {x \in Above[d] : c \in Above[x]}
    <2>1. c \in S /\ S \in SUBSET Dirs
      BY <1>0, <1>2, <1>3, AboveIs
    <2>2. ASSUME NEW x \in S PROVE Parent[x] \in S
      <3>1. x \in Dirs /\ x \in Above[d] /\ c \in Above[x]
        BY AboveIs
      <3>2. CASE x = c
        BY <1>0, <1>3, <3>2, AboveIs
      <3>3. CASE x # c
        <4>1. Parent[x] # "none"
          <5> SUFFICES ASSUME Parent[x] = "none" PROVE FALSE
            OBVIOUS
          <5>1. Closed({x}) /\ {x} \in SUBSET Dirs
            BY <3>1 DEF Closed
          <5> QED BY <3>1, <3>3, <5>1, AboveIs
        <4> DEFINE p == Parent[x]
        <4>2. p \in Above[d] /\ p \in Dirs
          BY <3>1, <4>1, AboveIs DEF Closed
        <4>3. Closed({x} \union Above[p]) /\ {x} \union Above[p] \in SUBSET Dirs
          BY <3>1, <4>2, AboveIs DEF Closed
        <4>4. c \in Above[p]
          BY <3>1, <3>3, <4>3, AboveIs
        <4> QED BY <4>2, <4>4
      <3> QED BY <3>2, <3>3
    <2> HIDE DEF S
    <2> QED BY <2>1, <2>2, DirSizesAssumption
  <1> QED BY <1>0, <1>1, <1>2, <1>3

\* Above is transitive, and of two above a third one is above the other.
LEMMA AboveOrders ==
    ASSUME NEW e \in Dirs, NEW d \in Above[e]
    PROVE  /\ Above[d] \subseteq Above[e]
           /\ \A x \in Above[e] : x \in Above[d] \/ d \in Above[x]
  <1>1. Above[d] \subseteq Above[e]
    BY AboveIs
  <1> DEFINE S == {x \in Above[e] : \A y \in Above[e] : x \in Above[y] \/ y \in Above[x]}
  <1>2. e \in S /\ S \in SUBSET Dirs
    BY AboveIs
  <1>3. Closed(S)
    <2> SUFFICES ASSUME NEW x \in S, Parent[x] # "none" PROVE Parent[x] \in S
      BY DEF Closed
    <2> DEFINE p == Parent[x]
    <2>1. x \in Above[e] /\ x \in Dirs /\ p \in Above[e] /\ p \in Dirs
      BY AboveIs DEF Closed
    <2>2. x \in Kids(p)
      BY <2>1 DEF Kids
    <2>3. Above[x] = {x} \union Above[p] /\ p \in Above[p]
      BY <2>1, <2>2, AboveKid, AboveIs
    <2>4. ASSUME NEW y \in Above[e] PROVE p \in Above[y] \/ y \in Above[p]
      <3>1. y \in Dirs /\ (x \in Above[y] \/ y \in Above[x])
        BY AboveIs
      <3>2. x \in Above[y] => Above[x] \subseteq Above[y]
        BY <2>1, <3>1, AboveIs
      <3> QED BY <2>3, <3>1, <3>2
    <2> QED BY <2>1, <2>4
  <1> HIDE DEF S
  <1>4. Above[e] \subseteq S
    BY <1>2, <1>3, AboveIs
  <1> QED BY <1>1, <1>4 DEF S

\* Two directories are not above each other.
LEMMA AboveApart ==
    ASSUME NEW e \in Dirs, NEW d \in Dirs, d \in Above[e], e \in Above[d]
    PROVE  d = e
  <1> SUFFICES ASSUME d # e PROVE FALSE
    OBVIOUS
  <1>1. Parent[e] # "none"
    <2> SUFFICES ASSUME Parent[e] = "none" PROVE FALSE
      OBVIOUS
    <2>1. Closed({e}) /\ {e} \in SUBSET Dirs
      BY DEF Closed
    <2> QED BY <2>1, AboveIs
  <1>2. Parent[e] \in Dirs /\ e \in Kids(Parent[e])
    BY <1>1, DirSizesAssumption DEF Kids
  <1>3. Above[e] = {e} \union Above[Parent[e]] /\ e \notin Above[Parent[e]]
    BY <1>2, AboveKid
  <1> QED BY <1>2, <1>3, AboveOrders

\* The way down from d to e goes by one of the kids of d.
LEMMA WayDown ==
    ASSUME NEW e \in Dirs, NEW d \in Above[e], d # e
    PROVE  \E c \in Kids(d) : c \in Above[e]
  <1> SUFFICES ASSUME \A c \in Kids(d) : c \notin Above[e] PROVE FALSE
    OBVIOUS
  <1>1. e \in Above[e] \ {d} /\ Above[e] \ {d} \in SUBSET Dirs
    BY AboveIs
  <1>2. Closed(Above[e] \ {d})
    <2> SUFFICES ASSUME NEW x \in Above[e], x # d, Parent[x] # "none"
                 PROVE  Parent[x] \in Above[e] /\ Parent[x] # d
      BY DEF Closed
    <2> QED BY AboveIs DEF Closed, Kids
  <1> QED BY <1>1, <1>2, AboveIs

\* The subtree of d: d, and those of its kids, which lie apart.
LEMMA SubtreeSplits ==
    ASSUME NEW d \in Dirs
    PROVE  /\ d \in Subtree(d) /\ Subtree(d) \subseteq Dirs /\ Kids(d) \subseteq Subtree(d)
           /\ Subtree(d) = {d} \union UNION {Subtree(c) : c \in Kids(d)}
           /\ \A c \in Kids(d) : d \notin Subtree(c) /\ c \in Dirs
           /\ \A b, c \in Kids(d) : b # c => Subtree(b) \intersect Subtree(c) = {}
  <1>1. d \in Subtree(d) /\ Subtree(d) \subseteq Dirs
    BY AboveIs DEF Subtree
  <1>2. ASSUME NEW c \in Kids(d)
        PROVE  c \in Dirs /\ d \notin Subtree(c) /\ Subtree(c) \subseteq Subtree(d) /\ c \in Subtree(d)
    <2>1. c \in Dirs /\ Above[c] = {c} \union Above[d] /\ c \notin Above[d] /\ d \in Above[d]
      BY AboveKid, AboveIs
    <2>2. \A e \in Dirs : c \in Above[e] => d \in Above[e]
      BY <2>1, AboveOrders
    <2> QED BY <2>1, <2>2 DEF Subtree
  <1>3. \A e \in Subtree(d) : e # d => \E c \in Kids(d) : e \in Subtree(c)
    BY WayDown DEF Subtree
  <1>4. ASSUME NEW b \in Kids(d), NEW c \in Kids(d), b # c, NEW e \in Subtree(b), e \in Subtree(c)
        PROVE  FALSE
    <2>1. e \in Dirs /\ b \in Above[e] /\ c \in Above[e]
      BY <1>4 DEF Subtree
    <2>2. b \in Above[c] \/ c \in Above[b]
      BY <2>1, AboveOrders
    <2>3. /\ Above[b] = {b} \union Above[d] /\ b \notin Above[d]
          /\ Above[c] = {c} \union Above[d] /\ c \notin Above[d]
      BY AboveKid
    <2> QED BY <1>4, <2>2, <2>3
  <1> QED BY <1>1, <1>2, <1>3, <1>4

\* What a walk goes on with in d, and what it sums when todo is left.
Wanted(d) == Visible(d) \ guard
SoFar(d, todo) == {d} \union UNION {Reached(c) : c \in Wanted(d) \ todo}
Passed(d, todo) == {d} \union UNION {Subtree(c) : c \in Kids(d) \ todo}

\* What a walk of d reads: nothing if it cannot be opened; else d, and what
\* the walks of the kids it goes on with read.
LEMMA ReachedSplits ==
    ASSUME NEW d \in Dirs
    PROVE  /\ Reached(d) \subseteq Subtree(d)
           /\ ~opens(d) => Reached(d) = {}
           /\ opens(d) => Reached(d) = {d} \union UNION {Reached(c) : c \in Wanted(d)}
  <1>1. Reached(d) \subseteq Subtree(d)
    BY DEF Reached
  <1>2. ASSUME ~opens(d) PROVE Reached(d) = {}
    <2>1. \A e \in Subtree(d) : d \in Above[e] \intersect Subtree(d)
      BY SubtreeSplits DEF Subtree
    <2> QED BY <1>2, <2>1 DEF Reached
  <1>3. ASSUME NEW e \in Reached(d), e # d PROVE \E c \in Wanted(d) : e \in Reached(c)
    <2>1. e \in Dirs /\ d \in Above[e]
      BY DEF Reached, Subtree
    <2>2. PICK c \in Kids(d) : c \in Above[e]
      BY <1>3, <2>1, WayDown
    <2>3. c \in Dirs /\ d \notin Subtree(c) /\ Above[c] = {c} \union Above[d] /\ d \in Above[d] /\ c # d
      BY AboveKid, AboveIs, SubtreeSplits
    <2>4. c \in Above[e] \intersect Subtree(d)
      BY <2>2, <2>3 DEF Subtree
    <2>5. opens(c) /\ ~Under(c, rules) /\ c \notin guard
      BY <2>3, <2>4 DEF Reached
    <2>6. c \notin gone
      BY <2>3, <2>5 DEF opens, Under
    <2>7. ASSUME NEW x \in Above[e] \intersect Subtree(c)
          PROVE  opens(x) /\ (x # c => ~Under(x, rules) /\ x \notin guard)
      <3>1. x \in Dirs /\ c \in Above[x] /\ x # d
        BY <2>3 DEF Subtree
      <3>2. d \in Above[x]
        BY <2>3, <3>1, AboveOrders
      <3>3. x \in Above[e] \intersect Subtree(d)
        BY <3>1, <3>2 DEF Subtree
      <3> QED BY <3>1, <3>3 DEF Reached
    <2>8. e \in Reached(c)
      BY <2>1, <2>2, <2>7 DEF Reached, Subtree
    <2> QED BY <2>2, <2>5, <2>6, <2>8 DEF Wanted, Visible
  <1>4. ASSUME opens(d), NEW c \in Wanted(d), NEW e \in Reached(c) PROVE e \in Reached(d)
    <2>1. c \in Kids(d) /\ ~Under(c, rules) /\ c \notin guard
      BY DEF Wanted, Visible
    <2>2. c \in Dirs /\ Above[c] = {c} \union Above[d] /\ d \in Above[d] /\ c \notin Above[d]
      BY <2>1, AboveKid, AboveIs
    <2>3. e \in Dirs /\ c \in Above[e]
      BY DEF Reached, Subtree
    <2>4. d \in Above[e]
      BY <2>2, <2>3, AboveOrders
    <2>5. ASSUME NEW x \in Above[e] \intersect Subtree(d)
          PROVE  opens(x) /\ (x # d => ~Under(x, rules) /\ x \notin guard)
      <3>1. x \in Dirs /\ d \in Above[x] /\ x \in Above[e]
        BY DEF Subtree
      <3>2. x \in Above[c] \/ c \in Above[x]
        BY <2>3, <3>1, AboveOrders
      <3>3. CASE x = d
        BY <1>4, <3>3
      <3>4. CASE c \in Above[x]
        <4>1. x \in Above[e] \intersect Subtree(c)
          BY <3>1, <3>4 DEF Subtree
        <4> QED BY <2>1, <4>1 DEF Reached
      <3>5. CASE x \in Above[c] /\ x # d
        <4>1. x = c
          BY <2>2, <3>1, <3>5, AboveApart
        <4>2. c \in Above[c]
          BY <2>2
        <4> QED BY <3>4, <4>1, <4>2
      <3> QED BY <3>2, <3>3, <3>4, <3>5
    <2> QED BY <2>3, <2>4, <2>5 DEF Reached, Subtree
  <1>5. ASSUME opens(d) PROVE d \in Reached(d)
    <2>1. \A x \in Above[d] \intersect Subtree(d) : x = d
      BY AboveApart DEF Subtree
    <2> QED BY <1>5, <2>1, SubtreeSplits DEF Reached
  <1> QED BY <1>1, <1>2, <1>3, <1>4, <1>5

\* One kid more.
LEMMA OneMore ==
    ASSUME NEW d \in Dirs, NEW todo \in SUBSET Kids(d), NEW c \in todo
    PROVE  /\ Passed(d, todo \ {c}) = Passed(d, todo) \union Subtree(c)
           /\ Passed(d, todo) \intersect Subtree(c) = {}
           /\ Passed(d, todo) \subseteq Dirs /\ SoFar(d, todo) \subseteq Dirs
           /\ c \in Wanted(d) =>
                /\ SoFar(d, todo \ {c}) = SoFar(d, todo) \union Reached(c)
                /\ SoFar(d, todo) \intersect Reached(c) = {}
           /\ c \notin Wanted(d) => SoFar(d, todo \ {c}) = SoFar(d, todo)
  <1>1. /\ c \in Kids(d) /\ Wanted(d) \subseteq Kids(d) /\ \A b \in Kids(d) : Reached(b) \subseteq Subtree(b)
        /\ \A b \in Kids(d) : Subtree(b) \subseteq Dirs
    BY SubtreeSplits, ReachedSplits DEF Wanted, Visible
  <1>2. /\ d \notin Subtree(c)
        /\ \A b \in Kids(d) : b # c => Subtree(b) \intersect Subtree(c) = {}
    BY <1>1, SubtreeSplits
  <1>3. Passed(d, todo) \subseteq Dirs /\ SoFar(d, todo) \subseteq Dirs
    BY <1>1 DEF Passed, SoFar
  <1>4. Passed(d, todo) \intersect Subtree(c) = {}
    BY <1>1, <1>2 DEF Passed
  <1>5. Passed(d, todo \ {c}) = Passed(d, todo) \union Subtree(c)
    BY <1>1 DEF Passed
  <1>6. c \in Wanted(d) => SoFar(d, todo \ {c}) = SoFar(d, todo) \union Reached(c)
    BY <1>1 DEF SoFar
  <1>7. SoFar(d, todo) \intersect Reached(c) = {}
    BY <1>1, <1>2 DEF SoFar
  <1>8. c \notin Wanted(d) => SoFar(d, todo \ {c}) = SoFar(d, todo)
    BY DEF SoFar
  <1> QED BY <1>3, <1>4, <1>5, <1>6, <1>7, <1>8

\* What of T is from n on, and what is up to n.
From(T, n) == {m \in T : n <= m}
UpTo(T, n) == {m \in T : m <= n}
Froms(T) == {From(T, n) : n \in T}
UpTos(T) == {UpTo(T, n) : n \in T}

\* A finite set of integers has a greatest and a least.
LEMMA Greatest ==
    ASSUME NEW T \in SUBSET Int, T # {}, IsFiniteSet(T)
    PROVE  Max(T) \in T /\ \A n \in T : n <= Max(T)
  <1>1. Froms(T) \subseteq SUBSET T /\ Froms(T) # {}
    BY DEF Froms, From
  <1>2. PICK A \in Froms(T) : \A B \in Froms(T) : B \subseteq A => B = A
    BY <1>1, SmallestSubset
  <1>3. PICK n \in T : A = From(T, n)
    BY DEF Froms
  <1>4. ASSUME NEW m \in T PROVE m <= n
    <2> SUFFICES ASSUME n < m PROVE FALSE
      OBVIOUS
    <2>0. n \in Int /\ m \in Int /\ n <= n /\ ~(m <= n) /\ \A x \in T : m <= x => n <= x
      BY T \subseteq Int, <1>4
    <2>1. From(T, m) \subseteq From(T, n) /\ n \in From(T, n) /\ n \notin From(T, m)
      BY <2>0, Zenon DEF From
    <2>2. From(T, m) \in Froms(T)
      BY DEF Froms
    <2> QED BY <1>2, <1>3, <2>1, <2>2
  <1> QED BY <1>4 DEF Max

LEMMA Least ==
    ASSUME NEW T \in SUBSET Int, T # {}, IsFiniteSet(T)
    PROVE  Min(T) \in T /\ \A n \in T : Min(T) <= n
  <1>1. UpTos(T) \subseteq SUBSET T /\ UpTos(T) # {}
    BY DEF UpTos, UpTo
  <1>2. PICK A \in UpTos(T) : \A B \in UpTos(T) : B \subseteq A => B = A
    BY <1>1, SmallestSubset
  <1>3. PICK n \in T : A = UpTo(T, n)
    BY DEF UpTos
  <1>4. ASSUME NEW m \in T PROVE n <= m
    <2> SUFFICES ASSUME m < n PROVE FALSE
      OBVIOUS
    <2>0. n \in Int /\ m \in Int /\ n <= n /\ ~(n <= m) /\ \A x \in T : x <= m => x <= n
      BY T \subseteq Int, <1>4
    <2>1. UpTo(T, m) \subseteq UpTo(T, n) /\ n \in UpTo(T, n) /\ n \notin UpTo(T, m)
      BY <2>0, Zenon DEF UpTo
    <2>2. UpTo(T, m) \in UpTos(T)
      BY DEF UpTos
    <2> QED BY <1>2, <1>3, <2>1, <2>2
  <1> QED BY <1>4 DEF Min

\* The height of a directory is above those of its kids.
LEMMA HeightIs ==
    ASSUME NEW d \in Dirs
    PROVE  Height(d) \in Nat /\ \A c \in Kids(d) : Height(c) \in Nat /\ Height(c) + 1 <= Height(d)
  <1> DEFINE deep(e) == Cardinality(Above[e])
             T(x) == {deep(e) - deep(x) : e \in Subtree(x)}
  <1>1. \A e \in Dirs : IsFiniteSet(Above[e]) /\ deep(e) \in Nat /\ deep(e) <= Cardinality(Dirs)
    BY AboveIs, FS_Subset, FS_CardinalityType, DirSizesAssumption
  <1>2. ASSUME NEW x \in Dirs
        PROVE  Height(x) \in T(x) /\ Height(x) \in Nat /\ \A n \in T(x) : n <= Height(x)
    <2>1. \A e \in Subtree(x) : e \in Dirs /\ deep(e) - deep(x) \in Nat /\ deep(e) - deep(x) <= Cardinality(Dirs)
      <3> SUFFICES ASSUME NEW e \in Subtree(x)
                   PROVE  e \in Dirs /\ deep(e) - deep(x) \in Nat /\ deep(e) - deep(x) <= Cardinality(Dirs)
        OBVIOUS
      <3>1. e \in Dirs /\ Above[x] \subseteq Above[e]
        BY AboveOrders DEF Subtree
      <3>2. deep(x) <= deep(e)
        BY <1>1, <3>1, FS_Subset
      <3>3. Cardinality(Dirs) \in Nat
        BY FS_CardinalityType, DirSizesAssumption
      <3> HIDE DEF deep
      <3> QED BY <1>1, <3>1, <3>2, <3>3
    <2>2. T(x) \subseteq Nat /\ T(x) # {} /\ T(x) \subseteq 0..Cardinality(Dirs)
      <3>1. x \in Subtree(x)
        BY SubtreeSplits
      <3>2. Cardinality(Dirs) \in Nat
        BY FS_CardinalityType, DirSizesAssumption
      <3> HIDE DEF deep
      <3> QED BY <2>1, <3>1, <3>2
    <2>3. Height(x) = Max(T(x))
      BY DEF Height
    <2>4. IsFiniteSet(0..Cardinality(Dirs))
      BY FS_CardinalityType, FS_Interval, DirSizesAssumption
    <2> HIDE DEF T
    <2>5. IsFiniteSet(T(x))
      BY <2>2, <2>4, FS_Subset
    <2>6. T(x) \in SUBSET Int
      BY <2>2
    <2> QED BY <2>2, <2>3, <2>5, <2>6, Greatest
  <1>3. ASSUME NEW c \in Kids(d) PROVE c \in Dirs /\ Height(c) + 1 <= Height(d)
    <2>1. c \in Dirs /\ Above[c] = {c} \union Above[d] /\ c \notin Above[d]
      BY AboveKid
    <2>2. deep(c) = deep(d) + 1
      <3>1. IsFiniteSet(Above[d]) /\ Above[c] = Above[d] \union {c}
        BY <1>1, <2>1
      <3> QED BY <2>1, <3>1, FS_AddElement
    <2>3. PICK e \in Subtree(c) : Height(c) = deep(e) - deep(c)
      BY <1>2, <2>1
    <2>4. e \in Dirs /\ e \in Subtree(d)
      BY SubtreeSplits, <2>1
    <2>5. deep(e) - deep(d) <= Height(d)
      BY <1>2, <2>4
    <2> HIDE DEF deep
    <2> QED BY <1>1, <1>2, <2>1, <2>2, <2>3, <2>4, <2>5
  <1> QED BY <1>2, <1>3

-----------------------------------------------------------------------------
(* What the parts of the invariant say, of values.                         *)

\* Every file counted once: MaxFiles in each directory of a set.
Full == [d \in Dirs |-> MaxFiles]
Most(S) == SumFunctionOnSet(Full, S)

\* The tree at rest (for q) since long before something of this age about d.
Calm(q, d, age) == age < AgeCap /\ q > age + Height(d) * Large

\* What the walk would find: the directories it can open, the kids it goes on
\* with, the totals, and the sums of d when todo is left.
Openable == {d \in Dirs : opens(d)}
Wants == [d \in Dirs |-> Wanted(d)]
Totals == [d \in Dirs |-> Total(d)]
Sums == [d \in Dirs |-> [t \in SUBSET Dirs |-> SumFunctionOnSet(files, SoFar(d, t))]]

LEMMA Smaller ==
    ASSUME NEW a \in Int, NEW b \in Int
    PROVE  Min({a, b}) = (IF a <= b THEN a ELSE b) /\ Max({a, b}) = (IF a <= b THEN b ELSE a)
  <1> DEFINE T == {a, b}
  <1>1. T = {a} \union {b} /\ IsFiniteSet({a}) /\ T \in SUBSET Int /\ T # {}
    BY FS_Singleton
  <1>2. IsFiniteSet(T)
    BY <1>1, FS_AddElement
  <1>3. \A n \in T : n \in {a, b}
    OBVIOUS
  <1>4. a \in T /\ b \in T
    OBVIOUS
  <1> HIDE DEF T
  <1>5. Min(T) \in {a, b} /\ Min(T) <= a /\ Min(T) <= b
    BY <1>1, <1>2, <1>3, <1>4, Least
  <1>6. Max(T) \in {a, b} /\ a <= Max(T) /\ b <= Max(T)
    BY <1>1, <1>2, <1>3, <1>4, Greatest
  <1>7. Min(T) = (IF a <= b THEN a ELSE b) /\ Max(T) = (IF a <= b THEN b ELSE a)
    BY <1>5, <1>6
  <1> QED BY <1>7 DEF T

\* Ages stay within their bound.
LEMMA OlderIs ==
    ASSUME NEW a \in 0..AgeCap, NEW t \in Nat
    PROVE  /\ Older(a, t) = (IF AgeCap <= a + t THEN AgeCap ELSE a + t)
           /\ Older(a, t) \in 0..AgeCap /\ a <= Older(a, t)
  <1>1. AgeCap \in Nat /\ a \in Nat /\ a <= AgeCap /\ a + t \in Nat
    BY DirSizesAssumption
  <1>2. Older(a, t) = (IF AgeCap <= a + t THEN AgeCap ELSE a + t)
    BY <1>1, Smaller DEF Older
  <1> QED BY <1>1, <1>2

\* A file count is at most that of every directory full.
LEMMA MostIs ==
    ASSUME NEW S \in SUBSET Dirs
    PROVE  /\ Most(S) \in Nat /\ Most(S) <= MaxFiles * Cardinality(Dirs)
           /\ \A R \in SUBSET S : Most(R) <= Most(S)
           /\ \A d \in S : MaxFiles <= Most(S)
  <1>1. IsFiniteSet(Dirs) /\ MaxFiles \in Nat
    BY DirSizesAssumption
  <1>2. Full \in [Dirs -> Nat] /\ IsFiniteSet(S)
    BY <1>1, FS_Subset DEF Full
  <1>3. Most(Dirs) = MaxFiles * Cardinality(Dirs)
    BY <1>1, SumSame DEF Most, Full
  <1>4. Most(S) \in Nat
    BY <1>2, SumRemove DEF Most
  <1>5. ASSUME NEW T \in SUBSET Dirs, NEW R \in SUBSET T PROVE Most(R) <= Most(T)
    BY <1>1, <1>2, SumPart DEF Most
  <1>6. ASSUME NEW d \in S PROVE MaxFiles <= Most(S)
    <2>1. Most({d}) = Full[d] /\ Full[d] = MaxFiles
      BY <1>2, SumOne DEF Most, Full
    <2> QED BY <1>5, <2>1
  <1>7. Most(S) <= Most(Dirs)
    BY <1>5
  <1> QED BY <1>3, <1>4, <1>5, <1>6, <1>7

\* What has been passed of d, one kid after the other.
LEMMA PassedIs ==
    ASSUME NEW d \in Dirs, NEW todo \in SUBSET Kids(d)
    PROVE  /\ Passed(d, todo) \in SUBSET Dirs /\ d \in Passed(d, todo)
           /\ Passed(d, {}) = Subtree(d)
           /\ \A c \in todo : Most(Passed(d, todo \ {c})) = Most(Passed(d, todo)) + Most(Subtree(c))
  <1>1. /\ Subtree(d) = {d} \union UNION {Subtree(c) : c \in Kids(d)}
        /\ Subtree(d) \subseteq Dirs
    BY SubtreeSplits
  <1>2. Passed(d, todo) \in SUBSET Dirs /\ d \in Passed(d, todo) /\ Passed(d, {}) = Subtree(d)
    BY <1>1 DEF Passed
  <1>3. ASSUME NEW c \in todo
        PROVE  Most(Passed(d, todo \ {c})) = Most(Passed(d, todo)) + Most(Subtree(c))
    <2>1. /\ Passed(d, todo \ {c}) = Passed(d, todo) \union Subtree(c)
          /\ Passed(d, todo) \intersect Subtree(c) = {}
      BY OneMore
    <2>2. Subtree(c) \in SUBSET Dirs /\ IsFiniteSet(Dirs) /\ Full \in [Dirs -> Nat]
      BY <1>1, DirSizesAssumption DEF Full
    <2> DEFINE P == Passed(d, todo)
               S == Subtree(c)
    <2>3. P \in SUBSET Dirs /\ S \in SUBSET Dirs /\ P \intersect S = {}
      BY <1>2, <2>1, <2>2
    <2> HIDE DEF P, S
    <2>4. Most(P \union S) = Most(P) + Most(S)
      BY <2>2, <2>3, SumUnion DEF Most
    <2> QED BY <2>1, <2>4 DEF P, S
  <1> QED BY <1>2, <1>3

LEMMA Times ==
    ASSUME NEW h \in Nat, NEW k \in Nat, NEW l \in Nat, h + 1 <= k
    PROVE  h * l \in Nat /\ k * l \in Nat /\ h * l + l <= k * l
  <1> DEFINE m == k - (h + 1)
  <1>1. m \in Nat /\ k = h + 1 + m
    OBVIOUS
  <1> HIDE DEF m
  <1>2. (h + 1 + m) * l = h * l + l + m * l /\ m * l \in Nat /\ h * l \in Nat
    BY <1>1
  <1> QED BY <1>1, <1>2

\* The longer ago, the calmer; a change ends it; and where it is calm about a
\* directory it is calm about what is as young, or fresh, in one of its kids.
LEMMA CalmIs ==
    ASSUME NEW d \in Dirs, NEW q \in 0..QuietCap, NEW a \in 0..AgeCap
    PROVE  /\ \A t \in Nat : Calm(Min({QuietCap, q + t}), d, Older(a, t)) => Calm(q, d, a)
           /\ ~Calm(0, d, a)
           /\ \A c \in Kids(d), b \in 0..AgeCap :
                Calm(q, d, a) /\ (b <= a \/ b < Large) => Calm(q, c, b)
  <1>1. QuietCap \in Nat /\ AgeCap \in Nat /\ Large \in Nat /\ Large < AgeCap
    BY DirSizesAssumption
  <1>2. Height(d) \in Nat /\ \A c \in Kids(d) : Height(c) \in Nat /\ Height(c) + 1 <= Height(d)
    BY HeightIs
  <1>3. Height(d) * Large \in Nat
    BY <1>1, <1>2
  <1>4. ASSUME NEW t \in Nat, Calm(Min({QuietCap, q + t}), d, Older(a, t)) PROVE Calm(q, d, a)
    <2>1. Min({QuietCap, q + t}) <= q + t /\ Min({QuietCap, q + t}) \in Int
      BY <1>1, Smaller
    <2>2. Older(a, t) = a + t
      BY <1>1, <1>4, OlderIs DEF Calm
    <2>3. Min({QuietCap, q + t}) > a + t + Height(d) * Large /\ a + t < AgeCap
      BY <1>4, <2>2 DEF Calm
    <2> HIDE DEF Min
    <2>4. a < AgeCap /\ q > a + Height(d) * Large
      BY <1>1, <1>3, <2>1, <2>3
    <2> QED BY <2>4 DEF Calm
  <1>5. ~Calm(0, d, a)
    BY <1>1, <1>3 DEF Calm
  <1>6. ASSUME NEW c \in Kids(d), NEW b \in 0..AgeCap, Calm(q, d, a), b <= a \/ b < Large
        PROVE  Calm(q, c, b)
    <2>1. /\ Height(c) * Large \in Nat
          /\ Height(c) * Large + Large <= Height(d) * Large
      BY <1>1, <1>2, Times
    <2>2. a < AgeCap /\ q > a + Height(d) * Large
      BY <1>6 DEF Calm
    <2>3. b < AgeCap /\ q > b + Height(c) * Large
      BY <1>1, <1>3, <1>6, <2>1, <2>2
    <2> QED BY <2>3 DEF Calm
  <1> QED BY <1>4, <1>5, <1>6

\* What the walk wants of a directory, and what it sums.
LEMMA WantsIs ==
    ASSUME NEW d \in Dirs
    PROVE  /\ Wants[d] \subseteq Kids(d) /\ Wants[d] \intersect gone = {}
           /\ \A c \in Kids(d) :
                c \in Wants[d] <=> ~Under(c, rules) /\ c \notin gone /\ c \notin guard
           /\ d \in Openable <=> opens(d)
  BY DEF Wants, Wanted, Visible, Openable

LEMMA SumsAre ==
    ASSUME files \in [Dirs -> 0..MaxFiles], NEW d \in Dirs, NEW todo \in SUBSET Kids(d)
    PROVE  /\ Totals[d] \in Nat /\ Sums[d][todo] \in Nat
           /\ d \notin Openable => Totals[d] = 0
           /\ d \in Openable => Totals[d] = Sums[d][{}]
           /\ Wants[d] \subseteq todo => Sums[d][todo] = files[d]
           /\ \A c \in todo : Sums[d][todo \ {c}] =
                (IF c \in Wants[d] THEN Sums[d][todo] + Totals[c] ELSE Sums[d][todo])
  <1>1. IsFiniteSet(Dirs) /\ files \in [Dirs -> Nat] /\ \A S \in SUBSET Dirs : IsFiniteSet(S)
    BY FS_Subset, DirSizesAssumption
  <1>2. Kids(d) \subseteq Dirs /\ todo \in SUBSET Dirs /\ {} \in SUBSET Dirs
    BY SubtreeSplits
  <1>3. \A x \in Dirs : Totals[x] = SumFunctionOnSet(files, Reached(x)) /\ Reached(x) \in SUBSET Dirs
    BY ReachedSplits, SubtreeSplits DEF Totals, Total
  <1>4. \A t \in SUBSET Dirs : Sums[d][t] = SumFunctionOnSet(files, SoFar(d, t)) /\ SoFar(d, t) \in SUBSET Dirs
    <2>1. \A t \in SUBSET Dirs : Sums[d][t] = SumFunctionOnSet(files, SoFar(d, t))
      BY DEF Sums
    <2>2. \A c \in Wanted(d) : c \in Dirs
      BY <1>2 DEF Wanted, Visible
    <2>3. \A t : SoFar(d, t) \subseteq Dirs
      BY <1>3, <2>2 DEF SoFar
    <2> QED BY <2>1, <2>3
  <1>5. Totals[d] \in Nat /\ Sums[d][todo] \in Nat
    BY <1>1, <1>2, <1>3, <1>4, SumRemove
  <1>6. ASSUME d \notin Openable PROVE Totals[d] = 0
    <2>1. Reached(d) = {}
      BY <1>6, ReachedSplits DEF Openable
    <2> QED BY <1>1, <1>2, <1>3, <2>1, SumRemove
  <1>7. ASSUME d \in Openable PROVE Totals[d] = Sums[d][{}]
    <2>1. Reached(d) = SoFar(d, {})
      BY <1>7, ReachedSplits DEF Openable, SoFar
    <2> QED BY <1>2, <1>3, <1>4, <2>1
  <1>8. ASSUME Wants[d] \subseteq todo PROVE Sums[d][todo] = files[d]
    <2>1. SoFar(d, todo) = {d}
      BY <1>8 DEF Wants, SoFar
    <2> QED BY <1>1, <1>2, <1>4, <2>1, SumOne
  <1>9. ASSUME NEW c \in todo
        PROVE  Sums[d][todo \ {c}] = (IF c \in Wants[d] THEN Sums[d][todo] + Totals[c] ELSE Sums[d][todo])
    <2>1. todo \ {c} \in SUBSET Dirs /\ c \in Dirs /\ (c \in Wants[d] <=> c \in Wanted(d))
      BY <1>2 DEF Wants
    <2>2. CASE c \in Wants[d]
      <3> DEFINE R == SoFar(d, todo)
                 S == Reached(c)
      <3>1. SoFar(d, todo \ {c}) = R \union S /\ R \intersect S = {}
        BY <2>1, <2>2, OneMore
      <3>2. R \in SUBSET Dirs /\ S \in SUBSET Dirs
        BY <1>2, <1>3, <1>4, <2>1
      <3>3. Sums[d][todo \ {c}] = SumFunctionOnSet(files, R \union S)
        BY <1>4, <2>1, <3>1
      <3>4. Sums[d][todo] = SumFunctionOnSet(files, R) /\ Totals[c] = SumFunctionOnSet(files, S)
        BY <1>2, <1>3, <1>4, <2>1
      <3> HIDE DEF R, S
      <3>5. SumFunctionOnSet(files, R \union S) = SumFunctionOnSet(files, R) + SumFunctionOnSet(files, S)
        BY <1>1, <3>1, <3>2, SumUnion
      <3> QED BY <2>2, <3>3, <3>4, <3>5
    <2>3. CASE c \notin Wants[d]
      <3>0. c \notin Wanted(d)
        BY <2>1, <2>3
      <3>1. SoFar(d, todo \ {c}) = SoFar(d, todo)
        BY <3>0 DEF SoFar
      <3> QED BY <1>2, <1>4, <2>1, <2>3, <3>1
    <2> QED BY <2>2, <2>3
  <1> QED BY <1>5, <1>6, <1>7, <1>8, <1>9

\* They depend on the tree and the guard only.
LEMMA TreeStays ==
    ASSUME UNCHANGED <<files, gone, closed, rules, guard>>
    PROVE  Openable' = Openable /\ Wants' = Wants /\ Totals' = Totals /\ Sums' = Sums
  <1>1. Openable' = Openable
    BY DEF Openable, opens
  <1>2. \A d : Wanted(d)' = Wanted(d)
    BY DEF Wanted, Visible
  <1>3. \A d : Reached(d)' = Reached(d)
    BY DEF Reached, opens
  <1>4. \A d : Total(d)' = Total(d)
    BY <1>3 DEF Total
  <1>5. \A d, t : SoFar(d, t)' = SoFar(d, t)
    BY <1>2, <1>3 DEF SoFar
  <1>6. Wants' = Wants
    BY <1>2 DEF Wants
  <1>7. Totals' = Totals
    BY <1>4 DEF Totals
  <1>8. Sums' = Sums
    BY <1>5 DEF Sums
  <1> QED BY <1>1, <1>6, <1>7, <1>8

-----------------------------------------------------------------------------
(* The entries of the cache and of the file.                               *)

\* A total is at most the files there can be, and true when it is calm.
TrueEntry(q, totals, d, e) ==
    /\ e.n <= Most(Subtree(d))
    /\ Calm(q, d, e.age) => e.n = totals[d]
TrueEntries(q, totals, c) ==
    /\ IsCache(c)
    /\ \A d \in DOMAIN c : TrueEntry(q, totals, d, c[d])

\* An entry, field by field.
LEMMA EntryIs ==
    ASSUME NEW e \in Entries
    PROVE  /\ e.n \in Nat /\ e.n <= MaxFiles * Cardinality(Dirs)
           /\ e.age \in 0..AgeCap /\ e.walk \in 0..AgeCap
           /\ cadence(e) \in {Small, Large}
  <1>1. MaxFiles * Cardinality(Dirs) \in Nat
    BY FS_CardinalityType, DirSizesAssumption
  <1> QED BY <1>1 DEF Entries, cadence

LEMMA NoEntries ==
    ASSUME NEW q, NEW totals
    PROVE  TrueEntries(q, totals, Empty)
  BY DEF TrueEntries, IsCache, Empty

\* Eviction, pruning and removal keep some entries as they are.
LEMMA SomeEntries ==
    ASSUME NEW q, NEW totals, NEW c, TrueEntries(q, totals, c), NEW K \in SUBSET DOMAIN c
    PROVE  TrueEntries(q, totals, Restrict(c, K))
  <1>1. DOMAIN Restrict(c, K) = K /\ \A d \in K : Restrict(c, K)[d] = c[d]
    BY DEF Restrict
  <1> QED BY <1>1 DEF TrueEntries, IsCache

LEMMA OneEntryMore ==
    ASSUME NEW q, NEW totals, TrueEntries(q, totals, cache),
           NEW d \in Dirs, NEW e \in Entries, TrueEntry(q, totals, d, e)
    PROVE  TrueEntries(q, totals, put(d, e))
  <1>1. DOMAIN put(d, e) = DOMAIN cache \union {d}
        /\ \A x \in DOMAIN put(d, e) : put(d, e)[x] = IF x = d THEN e ELSE cache[x]
    BY DEF put
  <1> HIDE DEF put
  <1>2. \A x \in DOMAIN cache : x \in Dirs /\ cache[x] \in Entries /\ TrueEntry(q, totals, x, cache[x])
    BY DEF TrueEntries, IsCache
  <1> QED BY <1>1, <1>2 DEF TrueEntries, IsCache

\* Time makes no entry false ...
LEMMA AgedEntries ==
    ASSUME NEW q \in 0..QuietCap, NEW totals, NEW c, TrueEntries(q, totals, c), NEW t \in Nat
    PROVE  TrueEntries(Min({QuietCap, q + t}), totals, Aged(c, t))
  <1>1. \A d \in DOMAIN c : d \in Dirs /\ c[d] \in Entries /\ TrueEntry(q, totals, d, c[d])
    BY DEF TrueEntries, IsCache
  <1>2. ASSUME NEW d \in DOMAIN c
        PROVE  /\ Aged(c, t)[d].n = c[d].n /\ Aged(c, t)[d].age = Older(c[d].age, t)
               /\ Aged(c, t)[d] \in Entries
    <2>1. Aged(c, t)[d] = [c[d] EXCEPT !.age = Older(@, t)]
      BY DEF Aged
    <2>2. c[d] \in Entries /\ c[d].age \in 0..AgeCap
      BY <1>1, EntryIs
    <2>3. Older(c[d].age, t) \in 0..AgeCap
      BY <2>2, OlderIs
    <2> QED BY <2>1, <2>2, <2>3 DEF Entries
  <1>3. ASSUME NEW d \in DOMAIN c PROVE TrueEntry(Min({QuietCap, q + t}), totals, d, Aged(c, t)[d])
    <2>1. c[d].age \in 0..AgeCap
      BY <1>1, EntryIs
    <2>2. Calm(Min({QuietCap, q + t}), d, Older(c[d].age, t)) => Calm(q, d, c[d].age)
      BY <1>1, <2>1, CalmIs
    <2> QED BY <1>1, <1>2, <2>2 DEF TrueEntry
  <1>4. DOMAIN Aged(c, t) = DOMAIN c
    BY DEF Aged
  <1> QED BY <1>1, <1>2, <1>3, <1>4 DEF TrueEntries, IsCache

\* ... and after a change nothing is claimed.
LEMMA StirredEntries ==
    ASSUME NEW q, NEW totals, NEW now, NEW c, TrueEntries(q, totals, c)
    PROVE  TrueEntries(0, now, c)
  <1>1. ASSUME NEW d \in DOMAIN c
        PROVE  d \in Dirs /\ TrueEntry(0, now, d, c[d])
    <2>1. d \in Dirs /\ c[d] \in Entries /\ c[d].n <= Most(Subtree(d))
      BY DEF TrueEntries, IsCache, TrueEntry
    <2>2. 0 \in 0..QuietCap /\ c[d].age \in 0..AgeCap
      BY <2>1, EntryIs, DirSizesAssumption
    <2>3. ~Calm(0, d, c[d].age)
      BY <2>1, <2>2, CalmIs
    <2> QED BY <2>1, <2>3 DEF TrueEntry
  <1> QED BY <1>1 DEF TrueEntries

\* What enforceCap and save leave.
LEMMA CappedEntries ==
    ASSUME NEW q, NEW totals, NEW c, TrueEntries(q, totals, c), NEW k \in enforceCap(c)
    PROVE  TrueEntries(q, totals, k)
  <1>1. k = c \/ \E K \in SUBSET DOMAIN c : k = Restrict(c, K)
    BY DEF enforceCap, kSubset
  <1> QED BY <1>1, SomeEntries

-----------------------------------------------------------------------------
(* The frames of the walk.                                                 *)

AnyFrame == [dir : Dirs \union {"pass"}, depth : Int, todo : SUBSET Dirs, sum : Nat,
             age : 0..AgeCap, read : BOOLEAN]

\* Below the first frame each is of a directory that its caller has still to
\* add; from the third one on it is as young as its caller.
WalkShape(s) ==
    /\ s \in Seq(AnyFrame) /\ s # <<>>
    /\ s[1].read /\ s[1].todo \subseteq RootSet
    /\ \A i \in 2..Len(s) :
         /\ s[i].dir \in Dirs /\ s[i].todo \subseteq Kids(s[i].dir)
         /\ s[i - 1].read /\ s[i].dir \in s[i - 1].todo
         /\ i > 2 => s[i].age <= s[i - 1].age

\* What a frame has summed is at most what it has passed; when it is calm, its
\* directory can be opened, and the sum is that of what was wanted so far.
TrueFrame(q, o, g, sums, f) ==
    /\ f.sum <= Most(Passed(f.dir, f.todo))
    /\ Calm(q, f.dir, f.age) =>
         /\ f.dir \in o
         /\ f.read => f.todo \intersect g = {} /\ f.sum = sums[f.dir][f.todo]

TrueFrames(q, o, g, sums, w, s) ==
    /\ \A i \in 2..Len(s) : TrueFrame(q, o, g, sums, s[i])
    /\ \A i \in 3..Len(s) : Calm(q, s[i - 1].dir, s[i - 1].age) => s[i].dir \in w[s[i - 1].dir]

\* A walk that only starts, or whose frames change in the last one only.
LEMMA FirstFrame ==
    ASSUME NEW q, NEW o, NEW g, NEW sums, NEW w, NEW f \in AnyFrame, f.read, f.todo \subseteq RootSet
    PROVE  WalkShape(<<f>>) /\ TrueFrames(q, o, g, sums, w, <<f>>)
  <1>1. <<f>> \in Seq(AnyFrame) /\ Len(<<f>>) = 1 /\ <<f>>[1] = f /\ <<f>> # <<>>
    OBVIOUS
  <1> QED BY <1>1 DEF WalkShape, TrueFrames

\* Frame by frame.
LEMMA FrameIs ==
    ASSUME NEW s, WalkShape(s), NEW i \in 1..Len(s)
    PROVE  /\ Len(s) \in Nat \ {0} /\ s[i] \in AnyFrame /\ s[i].todo \in SUBSET Dirs
           /\ s[i].age \in 0..AgeCap /\ s[i].sum \in Nat /\ s[i].depth \in Int /\ s[i].read \in BOOLEAN
           /\ i < Len(s) => s[i].read
           /\ i > 1 => /\ s[i].dir \in Dirs /\ s[i].todo \in SUBSET Kids(s[i].dir)
                       /\ i - 1 \in 1..Len(s) /\ s[i - 1].read /\ s[i].dir \in s[i - 1].todo
           /\ i > 2 => s[i].age <= s[i - 1].age /\ s[i - 1].dir \in Dirs
  <1>1. s \in Seq(AnyFrame) /\ s # <<>> /\ Len(s) \in Nat \ {0}
    BY DEF WalkShape
  <1>2. s[i] \in AnyFrame
    BY <1>1
  <1>3. /\ s[i].todo \in SUBSET Dirs /\ s[i].age \in 0..AgeCap /\ s[i].sum \in Nat
        /\ s[i].depth \in Int /\ s[i].read \in BOOLEAN
    BY <1>2 DEF AnyFrame
  <1>4. ASSUME i < Len(s) PROVE s[i].read
    <2>1. i + 1 \in 2..Len(s) /\ (i + 1) - 1 = i
      BY <1>1, <1>4
    <2> QED BY <2>1 DEF WalkShape
  <1>5. ASSUME i > 1
        PROVE  /\ s[i].dir \in Dirs /\ s[i].todo \in SUBSET Kids(s[i].dir)
               /\ i - 1 \in 1..Len(s) /\ s[i - 1].read /\ s[i].dir \in s[i - 1].todo
    <2>1. i \in 2..Len(s) /\ i - 1 \in 1..Len(s)
      BY <1>1, <1>5
    <2> QED BY <2>1 DEF WalkShape
  <1>6. ASSUME i > 2 PROVE s[i].age <= s[i - 1].age /\ s[i - 1].dir \in Dirs
    <2>1. i \in 2..Len(s) /\ i - 1 \in 2..Len(s)
      BY <1>1, <1>6
    <2> QED BY <1>6, <2>1 DEF WalkShape
  <1> QED BY <1>1, <1>2, <1>3, <1>4, <1>5, <1>6

\* The last frame returns: its caller is the last.
LEMMA BelowIs ==
    ASSUME NEW q, NEW o, NEW g, NEW sums, NEW w, NEW s,
           WalkShape(s), TrueFrames(q, o, g, sums, w, s), Len(s) > 1
    PROVE  LET b == SubSeq(s, 1, Len(s) - 1)
           IN  /\ WalkShape(b) /\ TrueFrames(q, o, g, sums, w, b)
               /\ Len(b) = Len(s) - 1 /\ b[Len(b)] = s[Len(s) - 1]
  <1> DEFINE n == Len(s) - 1
             b == SubSeq(s, 1, n)
  <1>1. s \in Seq(AnyFrame) /\ Len(s) \in Nat /\ n \in Nat /\ n >= 1 /\ n < Len(s)
    BY DEF WalkShape
  <1>2. b \in Seq(AnyFrame) /\ Len(b) = n /\ b # <<>> /\ \A i \in 1..n : b[i] = s[i]
    BY <1>1
  <1> HIDE DEF n, b
  <1>3. \A i \in 2..n : i \in 2..Len(s) /\ i \in 1..n /\ i - 1 \in 1..n
    BY <1>1
  <1>4. WalkShape(b)
    <2>1. 1 \in 1..n
      BY <1>1
    <2> QED BY <1>2, <1>3, <2>1 DEF WalkShape
  <1>5. TrueFrames(q, o, g, sums, w, b)
    <2>1. \A i \in 3..n : i \in 2..n /\ i \in 3..Len(s)
      BY <1>1
    <2> QED BY <1>2, <1>3, <2>1 DEF TrueFrames
  <1>6. n \in 1..n
    BY <1>1
  <1> QED BY <1>2, <1>4, <1>5, <1>6 DEF n, b

\* A child's total is added in the frame that called: it must be within the
\* bound, and right if the frame is calm.
LEMMA ReturnIs ==
    ASSUME NEW q, NEW o, NEW g, NEW sums, NEW w, NEW s,
           WalkShape(s), TrueFrames(q, o, g, sums, w, s),
           NEW f, f = s[Len(s)], f.read, NEW d \in f.todo, NEW n \in Nat,
           Len(s) > 1 =>
             /\ n <= Most(Subtree(d))
             /\ Calm(q, f.dir, f.age) => sums[f.dir][f.todo \ {d}] = sums[f.dir][f.todo] + n
    PROVE  WalkShape(Return(s, d, n)) /\ TrueFrames(q, o, g, sums, w, Return(s, d, n))
  <1> DEFINE k == Len(s)
             r == Return(s, d, n)
             h == [f EXCEPT !.todo = @ \ {d}, !.sum = @ + n]
  <1>1. s \in Seq(AnyFrame) /\ k \in Nat \ {0} /\ k \in 1..k /\ f \in AnyFrame
    BY FrameIs DEF WalkShape
  <1>2. /\ h.dir = f.dir /\ h.age = f.age /\ h.read = f.read
        /\ h.todo = f.todo \ {d} /\ h.sum = f.sum + n
        /\ h \in AnyFrame
    <2>1. f.todo \ {d} \in SUBSET Dirs /\ f.sum + n \in Nat
      BY <1>1, SMTT(30) DEF AnyFrame
    <2> QED BY <1>1, <2>1 DEF AnyFrame
  <1>3. r = [s EXCEPT ![k] = h]
    BY DEF Return
  <1> HIDE DEF h, r
  <1>4. r \in Seq(AnyFrame) /\ Len(r) = k /\ r # <<>> /\ r[k] = h /\ \A i \in 1..k : i # k => r[i] = s[i]
    BY <1>1, <1>2, <1>3
  <1>5. \A i \in 1..k : r[i].dir = s[i].dir /\ r[i].age = s[i].age /\ r[i].read = s[i].read /\ r[i].todo \subseteq s[i].todo
    BY <1>2, <1>4
  <1>6. \A i \in 2..k : i \in 1..k /\ i - 1 \in 1..k /\ i - 1 # k /\ r[i - 1] = s[i - 1]
    <2> SUFFICES ASSUME NEW i \in 2..k PROVE i \in 1..k /\ i - 1 \in 1..k /\ i - 1 # k
      BY <1>4
    <2> QED BY <1>1
  <1>7. WalkShape(r)
    <2>1. 1 \in 1..k
      BY <1>1
    <2>2. r[1].read /\ r[1].todo \subseteq RootSet
      BY <1>5, <2>1 DEF WalkShape
    <2>3. ASSUME NEW i \in 2..k
          PROVE  /\ r[i].dir \in Dirs /\ r[i].todo \subseteq Kids(r[i].dir)
                 /\ r[i - 1].read /\ r[i].dir \in r[i - 1].todo
                 /\ i > 2 => r[i].age <= r[i - 1].age
      BY <1>5, <1>6 DEF WalkShape
    <2> QED BY <1>4, <2>2, <2>3 DEF WalkShape
  <1>8. ASSUME NEW i \in 2..k PROVE TrueFrame(q, o, g, sums, r[i])
    <2>1. TrueFrame(q, o, g, sums, s[i])
      BY DEF TrueFrames
    <2>2. CASE i # k
      BY <1>4, <1>6, <2>1, <2>2
    <2>3. CASE i = k
      <3>1. TrueFrame(q, o, g, sums, f) /\ k > 1 /\ f.dir \in Dirs /\ f.todo \in SUBSET Kids(f.dir) /\ f.sum \in Nat
        BY <1>1, <2>1, <2>3, FrameIs
      <3>2. Most(Passed(f.dir, f.todo \ {d})) = Most(Passed(f.dir, f.todo)) + Most(Subtree(d))
        BY <3>1, PassedIs
      <3>3. Most(Passed(f.dir, f.todo)) \in Nat /\ Most(Subtree(d)) \in Nat
        <4>1. d \in Dirs
          BY <3>1, SubtreeSplits
        <4> QED BY <3>1, <4>1, PassedIs, SubtreeSplits, MostIs
      <3>4. f.sum <= Most(Passed(f.dir, f.todo)) /\ n <= Most(Subtree(d))
        BY <3>1 DEF TrueFrame
      <3>5. h.sum <= Most(Passed(h.dir, h.todo))
        BY <1>2, <3>1, <3>2, <3>3, <3>4
      <3>6. Calm(q, h.dir, h.age) => h.dir \in o /\ (h.read => h.todo \intersect g = {} /\ h.sum = sums[h.dir][h.todo])
        BY <1>2, <3>1 DEF TrueFrame
      <3> QED BY <1>4, <2>3, <3>5, <3>6 DEF TrueFrame
    <2> QED BY <2>2, <2>3
  <1>9. ASSUME NEW i \in 3..k, Calm(q, r[i - 1].dir, r[i - 1].age) PROVE r[i].dir \in w[r[i - 1].dir]
    <2>1. i \in 2..k
      BY <1>1
    <2> QED BY <1>5, <1>6, <1>9, <2>1 DEF TrueFrames
  <1> QED BY <1>4, <1>7, <1>8, <1>9 DEF TrueFrames, r

\* A directory is entered.
LEMMA EnterIs ==
    ASSUME NEW q, NEW o, NEW g, NEW sums, NEW w, NEW s,
           WalkShape(s), TrueFrames(q, o, g, sums, w, s),
           NEW f, f = s[Len(s)], f.read, NEW d \in f.todo, d \in Dirs, d \in o,
           Len(s) > 1 /\ Calm(q, f.dir, f.age) => d \in w[f.dir],
           NEW h \in AnyFrame, h.dir = d, h.todo = {}, h.sum = 0, h.age = 0, h.read = FALSE
    PROVE  WalkShape(Append(s, h)) /\ TrueFrames(q, o, g, sums, w, Append(s, h))
  <1> DEFINE k == Len(s)
             r == Append(s, h)
  <1>1. s \in Seq(AnyFrame) /\ k \in Nat \ {0} /\ k \in 1..k /\ f \in AnyFrame
    BY FrameIs DEF WalkShape
  <1>2. r \in Seq(AnyFrame) /\ Len(r) = k + 1 /\ r[k + 1] = h /\ r # <<>> /\ \A i \in 1..k : r[i] = s[i]
    BY <1>1
  <1> HIDE DEF r
  <1>3. \A i \in 2..k : i \in 1..k /\ i - 1 \in 1..k
    BY <1>1
  <1>4. f.age \in 0..AgeCap /\ 0 <= f.age
    BY <1>1 DEF AnyFrame
  <1>5. WalkShape(r)
    <2>1. 1 \in 1..k /\ r[1].read /\ r[1].todo \subseteq RootSet
      BY <1>1, <1>2 DEF WalkShape
    <2>2. ASSUME NEW i \in 2..k + 1
          PROVE  /\ r[i].dir \in Dirs /\ r[i].todo \subseteq Kids(r[i].dir)
                 /\ r[i - 1].read /\ r[i].dir \in r[i - 1].todo
                 /\ i > 2 => r[i].age <= r[i - 1].age
      <3>1. CASE i = k + 1
        <4>1. i - 1 = k /\ r[i - 1] = f /\ r[i] = h
          BY <1>1, <1>2, <3>1
        <4> QED BY <1>4, <4>1
      <3>2. CASE i # k + 1
        <4>1. i \in 2..k
          BY <1>1, <3>2
        <4> QED BY <1>2, <1>3, <4>1 DEF WalkShape
      <3> QED BY <3>1, <3>2
    <2> QED BY <1>2, <2>1, <2>2 DEF WalkShape
  <1>6. ASSUME NEW i \in 2..k + 1 PROVE TrueFrame(q, o, g, sums, r[i])
    <2>1. CASE i = k + 1
      <3>1. Most(Passed(d, {})) \in Nat
        BY PassedIs, MostIs
      <3>2. h.sum <= Most(Passed(h.dir, h.todo)) /\ h.dir \in o /\ ~h.read
        BY <3>1
      <3>3. TrueFrame(q, o, g, sums, h)
        BY ONLY <3>2 DEF TrueFrame
      <3> QED BY <1>2, <2>1, <3>3
    <2>2. CASE i # k + 1
      <3>1. i \in 2..k
        BY <1>1, <2>2
      <3> QED BY <1>2, <1>3, <3>1 DEF TrueFrames
    <2> QED BY <2>1, <2>2
  <1>7. ASSUME NEW i \in 3..k + 1, Calm(q, r[i - 1].dir, r[i - 1].age) PROVE r[i].dir \in w[r[i - 1].dir]
    <2>1. CASE i = k + 1
      <3>1. i - 1 = k /\ r[i - 1] = f /\ r[i] = h /\ k > 1
        BY <1>1, <1>2, <2>1
      <3> QED BY <1>7, <3>1
    <2>2. CASE i # k + 1
      <3>1. i \in 3..k /\ i \in 2..k
        BY <1>1, <2>2
      <3> QED BY <1>2, <1>3, <1>7, <3>1 DEF TrueFrames
    <2> QED BY <2>1, <2>2
  <1> QED BY <1>2, <1>5, <1>6, <1>7 DEF TrueFrames, r

\* A directory is read, which takes time; every frame grows older.
Read(s, t, n, g) ==
    [i \in 1..Len(s) |->
       LET f == [s[i] EXCEPT !.age = Older(@, t)]
       IN  IF i < Len(s) THEN f
           ELSE [f EXCEPT !.read = TRUE, !.sum = n, !.todo = Kids(f.dir) \ g]]

LEMMA ReadIs ==
    ASSUME NEW q \in 0..QuietCap, NEW o, NEW g, NEW sums, NEW w, NEW s,
           WalkShape(s), TrueFrames(q, o, g, sums, w, s), NEW t \in Nat,
           ~s[Len(s)].read, NEW d, d = s[Len(s)].dir,
           NEW n \in 0..MaxFiles, sums[d][Kids(d) \ g] = n
    PROVE  /\ WalkShape(Read(s, t, n, g))
           /\ TrueFrames(Min({QuietCap, q + t}), o, g, sums, w, Read(s, t, n, g))
  <1> DEFINE k == Len(s)
             p == Min({QuietCap, q + t})
             r == Read(s, t, n, g)
  <1>0. r = [i \in 1..k |->
               LET f == [s[i] EXCEPT !.age = Older(@, t)]
               IN  IF i < k THEN f
                   ELSE [f EXCEPT !.read = TRUE, !.sum = n, !.todo = Kids(f.dir) \ g]]
    BY DEF Read
  <1> HIDE DEF r
  <1>1. k \in Nat \ {0} /\ 1 \in 1..k /\ k \in 1..k /\ s \in Seq(AnyFrame) /\ s[1].read
    BY FrameIs DEF WalkShape
  <1>2. k > 1 /\ d \in Dirs /\ MaxFiles \in Nat /\ n \in Nat /\ n <= MaxFiles
    <2>1. k # 1
      BY <1>1
    <2>2. k > 1
      BY <1>1, <2>1
    <2>3. d \in Dirs
      BY <1>1, <2>2, FrameIs
    <2> QED BY <2>2, <2>3, DirSizesAssumption
  <1>3. Kids(d) \ g \in SUBSET Kids(d) /\ Kids(d) \subseteq Dirs
    BY <1>2, SubtreeSplits
  <1>4. ASSUME NEW i \in 1..k
        PROVE  /\ r[i] \in AnyFrame /\ r[i].dir = s[i].dir /\ r[i].age = Older(s[i].age, t)
               /\ s[i].age \in 0..AgeCap
               /\ i < k => r[i].todo = s[i].todo /\ r[i].sum = s[i].sum /\ r[i].read = s[i].read
               /\ i = k => r[i].todo = Kids(d) \ g /\ r[i].sum = n /\ r[i].read = TRUE
    <2> DEFINE f == [s[i] EXCEPT !.age = Older(@, t)]
    <2>1. s[i] \in AnyFrame /\ s[i].age \in 0..AgeCap
      BY FrameIs
    <2>2. Older(s[i].age, t) \in 0..AgeCap
      BY <2>1, OlderIs
    <2>3. /\ f \in AnyFrame /\ f.dir = s[i].dir /\ f.age = Older(s[i].age, t)
          /\ f.todo = s[i].todo /\ f.sum = s[i].sum /\ f.read = s[i].read
      BY <2>1, <2>2 DEF AnyFrame
    <2> HIDE DEF f
    <2>4. CASE i < k
      <3>1. r[i] = f
        BY <1>0, <2>4 DEF f
      <3>2. i # k
        BY <1>1, <2>4
      <3> QED BY <2>1, <2>3, <2>4, <3>1, <3>2
    <2>5. CASE i = k
      <3>1. f.dir = d /\ Kids(d) \ g \in SUBSET Dirs /\ ~(i < k)
        BY <1>1, <1>3, <2>3, <2>5
      <3> DEFINE h == [f EXCEPT !.read = TRUE, !.sum = n, !.todo = Kids(f.dir) \ g]
      <3>2. r[i] = h
        BY <1>0, <3>1 DEF f
      <3>3. /\ h \in AnyFrame /\ h.dir = f.dir /\ h.age = f.age
            /\ h.todo = Kids(d) \ g /\ h.sum = n /\ h.read = TRUE
        BY <1>2, <2>3, <3>1 DEF AnyFrame
      <3> HIDE DEF h
      <3> QED BY <2>1, <2>3, <3>1, <3>2, <3>3
    <2>6. i < k \/ i = k
      BY <1>1
    <2> QED BY <2>4, <2>5, <2>6
  <1>5. r \in Seq(AnyFrame) /\ Len(r) = k /\ r # <<>>
    <2>1. r = [i \in 1..k |-> r[i]]
      BY <1>0
    <2>2. r \in [1..k -> AnyFrame]
      BY <1>4, <2>1
    <2> QED BY <1>1, <2>2
  <1>6. \A i \in 2..k : i \in 1..k /\ i - 1 \in 1..k /\ i - 1 < k
    BY <1>1
  <1>7. \A i \in 1..k, j \in 1..k : s[i].age <= s[j].age => r[i].age <= r[j].age
    <2> SUFFICES ASSUME NEW i \in 1..k, NEW j \in 1..k, s[i].age <= s[j].age
                 PROVE  r[i].age <= r[j].age
      OBVIOUS
    <2>1. s[i].age \in 0..AgeCap /\ s[j].age \in 0..AgeCap /\ AgeCap \in Nat
      BY <1>4, DirSizesAssumption
    <2>2. r[i].age = Older(s[i].age, t) /\ r[j].age = Older(s[j].age, t)
      BY <1>4
    <2> DEFINE x == s[i].age
               y == s[j].age
    <2>3. x \in 0..AgeCap /\ y \in 0..AgeCap /\ x <= y
      BY <2>1
    <2> HIDE DEF x, y
    <2>4. Older(x, t) = (IF AgeCap <= x + t THEN AgeCap ELSE x + t)
      BY <2>3, OlderIs
    <2>5. Older(y, t) = (IF AgeCap <= y + t THEN AgeCap ELSE y + t)
      BY <2>3, OlderIs
    <2>6. t \in Nat /\ AgeCap \in Nat
      BY <2>1
    <2>7. Older(x, t) <= Older(y, t)
      BY ONLY <2>3, <2>4, <2>5, <2>6
    <2> QED BY <2>2, <2>7 DEF x, y
  <1>8. WalkShape(r)
    <2>1. r[1].read /\ r[1].todo \subseteq RootSet
      BY <1>1, <1>2, <1>4 DEF WalkShape
    <2>2. ASSUME NEW i \in 2..k
          PROVE  /\ r[i].dir \in Dirs /\ r[i].todo \subseteq Kids(r[i].dir)
                 /\ r[i - 1].read /\ r[i].dir \in r[i - 1].todo
                 /\ i > 2 => r[i].age <= r[i - 1].age
      <3>1. i \in 1..k /\ i - 1 \in 1..k /\ i - 1 < k
        BY <1>6
      <3>2. /\ s[i].dir \in Dirs /\ s[i].todo \subseteq Kids(s[i].dir)
            /\ s[i - 1].read /\ s[i].dir \in s[i - 1].todo
            /\ i > 2 => s[i].age <= s[i - 1].age
        BY DEF WalkShape
      <3>3. r[i].todo \subseteq Kids(r[i].dir)
        <4>1. CASE i < k
          BY <1>4, <3>1, <3>2, <4>1
        <4>2. CASE i = k
          BY <1>3, <1>4, <3>1, <4>2
        <4> QED BY <3>1, <4>1, <4>2
      <3> QED BY <1>4, <1>7, <3>1, <3>2, <3>3
    <2> QED BY <1>5, <2>1, <2>2 DEF WalkShape
  <1>9. \A i \in 2..k : Calm(p, r[i].dir, r[i].age) => Calm(q, s[i].dir, s[i].age)
    <2> SUFFICES ASSUME NEW i \in 2..k PROVE Calm(p, r[i].dir, r[i].age) => Calm(q, s[i].dir, s[i].age)
      OBVIOUS
    <2>1. i \in 1..k /\ s[i].dir \in Dirs
      BY <1>6 DEF WalkShape
    <2>2. r[i].dir = s[i].dir /\ r[i].age = Older(s[i].age, t) /\ s[i].age \in 0..AgeCap
      BY <1>4, <2>1
    <2> QED BY <2>1, <2>2, CalmIs
  <1> HIDE DEF p
  <1>10. ASSUME NEW i \in 2..k PROVE TrueFrame(p, o, g, sums, r[i])
    <2>1. TrueFrame(q, o, g, sums, s[i]) /\ i \in 1..k
      BY <1>6 DEF TrueFrames
    <2>2. CASE i < k
      BY <1>4, <1>9, <2>1, <2>2 DEF TrueFrame
    <2>3. CASE i = k
      <3>1. r[i].dir = d /\ r[i].todo = Kids(d) \ g /\ r[i].sum = n
        BY <1>4, <2>1, <2>3
      <3>2. n <= Most(Passed(d, Kids(d) \ g))
        <4>1. MaxFiles <= Most(Passed(d, Kids(d) \ g)) /\ Most(Passed(d, Kids(d) \ g)) \in Nat
          BY <1>2, <1>3, PassedIs, MostIs
        <4> QED BY <1>2, <4>1
      <3>3. Calm(p, r[i].dir, r[i].age) => d \in o
        BY <1>9, <2>1, <2>3 DEF TrueFrame
      <3>4. (Kids(d) \ g) \intersect g = {}
        OBVIOUS
      <3> QED BY <3>1, <3>2, <3>3, <3>4 DEF TrueFrame
    <2> QED BY <2>1, <2>2, <2>3
  <1>11. ASSUME NEW i \in 3..k, Calm(p, r[i - 1].dir, r[i - 1].age) PROVE r[i].dir \in w[r[i - 1].dir]
    <2>1. i \in 1..k /\ i - 1 \in 1..k /\ i - 1 \in 2..k
      BY <1>1
    <2>2. Calm(q, s[i - 1].dir, s[i - 1].age)
      BY <1>9, <1>11, <2>1
    <2> QED BY <1>4, <2>1, <2>2 DEF TrueFrames
  <1> QED BY <1>5, <1>8, <1>10, <1>11 DEF TrueFrames, p, r

\* The tree changes: the frames claim nothing more.
LEMMA StirredFrames ==
    ASSUME NEW q, NEW o, NEW g, NEW sums, NEW w, NEW s,
           WalkShape(s), TrueFrames(q, o, g, sums, w, s),
           NEW o2, NEW g2, NEW sums2, NEW w2
    PROVE  TrueFrames(0, o2, g2, sums2, w2, s)
  <1>1. \A i \in 2..Len(s) : ~Calm(0, s[i].dir, s[i].age)
    <2> SUFFICES ASSUME NEW i \in 2..Len(s) PROVE ~Calm(0, s[i].dir, s[i].age)
      OBVIOUS
    <2>1. i \in 1..Len(s) /\ s[i].dir \in Dirs
      BY DEF WalkShape
    <2>2. s[i].age \in 0..AgeCap /\ 0 \in 0..QuietCap
      BY <2>1, FrameIs, DirSizesAssumption
    <2> QED BY <2>1, <2>2, CalmIs
  <1>2. \A i \in 3..Len(s) : i - 1 \in 2..Len(s)
    BY DEF WalkShape
  <1> QED BY <1>1, <1>2 DEF TrueFrames, TrueFrame

-----------------------------------------------------------------------------
(* The inductive invariant.                                                *)

WalkInv ==
    IF pc = "walk"
    THEN /\ todoRoots # {}
         /\ WalkShape(stack) /\ TrueFrames(quiet, Openable, gone, Sums, Wants, stack)
    ELSE stack = <<>>

SizesInv ==
    /\ TypeOK
    /\ TrueEntries(quiet, Totals, cache) /\ TrueEntries(quiet, Totals, disk)
    /\ WalkInv

\* The roots come in the order of the configuration.
LEMMA RootsAre ==
    /\ RootSet \subseteq Dirs /\ IsFiniteSet(RootSet)
    /\ todoRoots \subseteq RootSet /\ todoRoots # {} => nextRoot \in todoRoots
  <1>1. Roots \in Seq(Dirs) /\ IsFiniteSet(Dirs)
    BY DirSizesAssumption
  <1>2. RootSet \subseteq Dirs
    BY <1>1 DEF RootSet, Range
  <1>3. ASSUME todoRoots \subseteq RootSet, todoRoots # {} PROVE nextRoot \in todoRoots
    <2> DEFINE T == {i \in DOMAIN Roots : Roots[i] \in todoRoots}
    <2>1. T \subseteq 1..Len(Roots) /\ T \in SUBSET Int
      BY <1>1
    <2>2. IsFiniteSet(1..Len(Roots))
      BY <1>1, FS_Interval
    <2>3. T # {}
      BY <1>3 DEF RootSet, Range
    <2>4. nextRoot = Roots[Min(T)]
      BY DEF nextRoot
    <2>5. \A i \in T : Roots[i] \in todoRoots
      OBVIOUS
    <2> HIDE DEF T
    <2>6. IsFiniteSet(T)
      BY <2>1, <2>2, FS_Subset
    <2>7. Min(T) \in T
      BY <2>1, <2>3, <2>6, Least
    <2> QED BY <2>4, <2>5, <2>7
  <1>4. IsFiniteSet(RootSet)
    BY <1>1, <1>2, FS_Subset
  <1> QED BY <1>2, <1>3, <1>4

\* The gatherer sleeps for a while.
LEMMA WaitIs ==
    ASSUME TypeOK
    PROVE  untilNextDue \in Nat
  <1> DEFINE wait(r) == IF r \notin DOMAIN attempt THEN 1
                        ELSE (IF r \in DOMAIN cache THEN cadence(cache[r]) ELSE Small) - attempt[r]
             R == {r \in RootSet : Allowed(r)}
             all == {Small} \union {wait(r) : r \in R}
  <1>1. Small \in Int /\ Large \in Int
    BY DirSizesAssumption
  <1>2. ASSUME NEW r \in R PROVE wait(r) \in Int
    <2>1. r \in DOMAIN attempt => attempt[r] \in Int
      BY DirSizesAssumption DEF TypeOK
    <2>2. cadence(cache[r]) \in {Small, Large}
      BY DEF cadence
    <2> QED BY <1>1, <2>1, <2>2
  <1>3. IsFiniteSet(R)
    BY RootsAre, FS_Subset
  <1> HIDE DEF R, wait
  <1> DEFINE g == [r \in R |-> wait(r)]
  <1>4. IsFiniteSet({wait(r) : r \in R})
    <2>1. {wait(r) : r \in R} = {g[r] : r \in R} /\ g \in [R -> {g[r] : r \in R}]
      OBVIOUS
    <2>2. g \in Surjection(R, {g[r] : r \in R})
      BY <2>1 DEF Surjection
    <2> HIDE DEF g
    <2>3. IsFiniteSet({g[r] : r \in R})
      BY <1>3, <2>2, FS_Surjection
    <2> QED BY <2>1, <2>3
  <1>5. all \in SUBSET Int /\ all # {}
    BY <1>1, <1>2
  <1>6. IsFiniteSet({Small}) /\ IsFiniteSet(all)
    BY <1>4, FS_Singleton, FS_Union
  <1> HIDE DEF all
  <1>7. Min(all) \in Int
    BY <1>5, <1>6, Least
  <1>8. Max({1, Min(all)}) \in Nat
    <2> DEFINE x == Min(all)
    <2> HIDE DEF x
    <2>1. x \in Int
      BY <1>7 DEF x
    <2>2. Max({1, x}) = IF 1 <= x THEN x ELSE 1
      BY <2>1, Smaller
    <2>3. Max({1, x}) \in Nat
      BY <2>1, <2>2
    <2> QED BY <2>3 DEF x
  <1> QED BY <1>8 DEF untilNextDue, all, wait, R

\* Time passes over entries and attempts.
LEMMA ElapseIs ==
    ASSUME SizesInv, NEW t \in Nat, Elapse(t), UNCHANGED <<files, gone, closed, rules, guard>>
    PROVE  /\ TrueEntries(quiet, Totals, cache)' /\ TrueEntries(quiet, Totals, disk)'
           /\ quiet' \in 0..QuietCap
           /\ DOMAIN attempt' \subseteq RootSet /\ \A r \in DOMAIN attempt' : attempt'[r] \in 0..AgeCap
  <1>1. Totals' = Totals /\ quiet \in 0..QuietCap /\ QuietCap \in Nat
    BY TreeStays, DirSizesAssumption DEF SizesInv, TypeOK
  <1>2. quiet' = Min({QuietCap, quiet + t}) /\ cache' = Aged(cache, t) /\ disk' = Aged(disk, t)
    BY DEF Elapse
  <1>3. TrueEntries(quiet', Totals, cache') /\ TrueEntries(quiet', Totals, disk')
    BY <1>1, <1>2, AgedEntries DEF SizesInv
  <1>4. quiet' \in 0..QuietCap
    <2>1. quiet + t \in Nat /\ QuietCap \in Int /\ quiet + t \in Int
      BY <1>1
    <2>2. Min({QuietCap, quiet + t}) = IF QuietCap <= quiet + t THEN QuietCap ELSE quiet + t
      BY <2>1, Smaller
    <2> QED BY <1>1, <1>2, <2>1, <2>2
  <1>5. \A r \in DOMAIN attempt : r \in RootSet /\ attempt[r] \in 0..AgeCap
    BY DEF SizesInv, TypeOK
  <1>6. \A r \in DOMAIN attempt : Older(attempt[r], t) \in 0..AgeCap
    BY <1>5, OlderIs
  <1>7. attempt' = [r \in DOMAIN attempt |-> Older(attempt[r], t)]
    BY DEF Elapse
  <1> QED BY <1>1, <1>3, <1>4, <1>5, <1>6, <1>7

-----------------------------------------------------------------------------
(* The invariant at the start, and over each step.                         *)

LEMMA SizesStart == Init => SizesInv
  <1> SUFFICES ASSUME Init PROVE SizesInv
    OBVIOUS
  <1>1. /\ AgeCap \in Nat /\ QuietCap \in Nat
        /\ 0 \in 0..AgeCap /\ 0 \in 0..QuietCap
    BY DirSizesAssumption
  <1>2. TypeOK
    BY <1>1 DEF Init, TypeOK, IsCache, Empty
  <1>3. WalkInv
    BY DEF Init, WalkInv
  <1> QED BY <1>2, <1>3, NoEntries DEF Init, SizesInv

\* Steps that leave the tree, the guard and the time alone.
LEMMA SizesQuiet ==
    ASSUME SizesInv, UNCHANGED <<files, gone, closed, rules, guard, quiet>>,
           TrueEntries(quiet, Totals, cache'), TrueEntries(quiet, Totals, disk'),
           DOMAIN attempt' \subseteq RootSet, \A r \in DOMAIN attempt' : attempt'[r] \in 0..AgeCap,
           pc' \in {"down", "idle", "pass", "walk", "sleep"},
           todoRoots' \subseteq RootSet, passAge' \in 0..AgeCap, walkAge' \in 0..AgeCap,
           dirty' \in BOOLEAN,
           IF pc' = "walk"
           THEN /\ todoRoots' # {}
                /\ WalkShape(stack') /\ TrueFrames(quiet, Openable, gone, Sums, Wants, stack')
           ELSE stack' = <<>>
    PROVE  SizesInv'
  <1>1. Openable' = Openable /\ Wants' = Wants /\ Totals' = Totals /\ Sums' = Sums
    BY TreeStays
  <1>2. TrueEntries(quiet', Totals', cache') /\ TrueEntries(quiet', Totals', disk')
    BY <1>1
  <1>3. IsCache(cache') /\ IsCache(disk')
    BY DEF TrueEntries
  <1>4. TypeOK'
    BY <1>3 DEF SizesInv, TypeOK
  <1>5. WalkInv'
    BY <1>1 DEF WalkInv
  <1> QED BY <1>2, <1>4, <1>5 DEF SizesInv

\* Steps that stir the tree, and nothing else.
LEMMA SizesStirred ==
    ASSUME SizesInv, quiet' = 0, UNCHANGED <<cache, disk, attempt, passAge, walkAge, dirty, stack>>,
           files' \in [Dirs -> 0..MaxFiles], gone' \subseteq Dirs, closed' \subseteq Dirs,
           rules' \subseteq Dirs, guard' \subseteq Dirs,
           pc' \in {"down", "idle", "pass", "walk", "sleep"}, pc' = "walk" <=> pc = "walk",
           todoRoots' \subseteq RootSet, pc = "walk" => todoRoots' = todoRoots
    PROVE  SizesInv'
  <1>1. TrueEntries(quiet', Totals', cache') /\ TrueEntries(quiet', Totals', disk')
    BY StirredEntries DEF SizesInv
  <1>2. 0 \in 0..QuietCap
    BY DirSizesAssumption
  <1>3. TypeOK'
    BY <1>2 DEF SizesInv, TypeOK
  <1>4. WalkInv'
    BY StirredFrames DEF SizesInv, WalkInv
  <1> QED BY <1>1, <1>3, <1>4 DEF SizesInv

\* Steps over which time passes.
LEMMA SizesElapsed ==
    ASSUME SizesInv, UNCHANGED <<files, gone, closed, rules, guard>>,
           TrueEntries(quiet', Totals, cache'), TrueEntries(quiet', Totals, disk'),
           quiet' \in 0..QuietCap,
           DOMAIN attempt' \subseteq RootSet, \A r \in DOMAIN attempt' : attempt'[r] \in 0..AgeCap,
           pc' \in {"down", "idle", "pass", "walk", "sleep"},
           UNCHANGED <<todoRoots, dirty>>, passAge' \in 0..AgeCap, walkAge' \in 0..AgeCap,
           IF pc' = "walk"
           THEN /\ todoRoots # {}
                /\ WalkShape(stack') /\ TrueFrames(quiet', Openable, gone, Sums, Wants, stack')
           ELSE stack' = <<>>
    PROVE  SizesInv'
  <1>1. Openable' = Openable /\ Wants' = Wants /\ Totals' = Totals /\ Sums' = Sums
    BY TreeStays
  <1>2. TrueEntries(quiet', Totals', cache') /\ TrueEntries(quiet', Totals', disk')
    BY <1>1
  <1>3. IsCache(cache') /\ IsCache(disk')
    BY DEF TrueEntries
  <1>4. TypeOK'
    BY <1>3 DEF SizesInv, TypeOK
  <1>5. WalkInv'
    BY <1>1 DEF WalkInv
  <1> QED BY <1>2, <1>4, <1>5 DEF SizesInv

LEMMA NoAge == 0 \in 0..AgeCap /\ 0 \in Nat
  BY DirSizesAssumption

\* The pass: its guard, its roots.
LEMMA StepBeginPass == SizesInv /\ beginPass => SizesInv'
  <1> SUFFICES ASSUME SizesInv, beginPass PROVE SizesInv'
    OBVIOUS
  <1>1. todoRoots' \subseteq RootSet /\ pc = "idle" /\ pc' = "pass" /\ stack = <<>>
    BY DEF beginPass, SizesInv, WalkInv
  <1>2. CASE UNCHANGED <<guard, quiet, changes>>
    <2>1. UNCHANGED <<files, gone, closed, rules, guard, quiet, cache, disk, attempt, passAge, walkAge, dirty, stack>>
      BY <1>2 DEF beginPass, tree
    <2> QED BY <1>1, <2>1, SizesQuiet DEF SizesInv, TypeOK
  <1>3. CASE quiet' = 0 /\ guard' \subseteq Dirs
    <2>1. UNCHANGED <<files, gone, closed, rules, cache, disk, attempt, passAge, walkAge, dirty, stack>>
      BY DEF beginPass, tree
    <2> QED BY <1>1, <1>3, <2>1, SizesStirred DEF SizesInv, TypeOK
  <1>4. UNCHANGED <<guard, quiet, changes>> \/ (quiet' = 0 /\ guard' \subseteq Dirs)
    BY DEF beginPass, Toggle, SizesInv, TypeOK
  <1> QED BY <1>2, <1>3, <1>4

LEMMA StepSkipRoot == SizesInv /\ skipRoot => SizesInv'
  <1> SUFFICES ASSUME SizesInv, skipRoot PROVE SizesInv'
    OBVIOUS
  <1>1. pc = "pass" /\ todoRoots' \subseteq RootSet
    BY DEF skipRoot, SizesInv, TypeOK
  <1>2. UNCHANGED <<files, gone, closed, rules, guard, quiet, cache, disk, attempt, pc, passAge, walkAge, dirty, stack>>
    BY DEF skipRoot, tree, history
  <1> QED BY <1>1, <1>2, SizesQuiet DEF SizesInv, TypeOK, WalkInv

LEMMA StepWalkRoot == SizesInv /\ walkRoot => SizesInv'
  <1> SUFFICES ASSUME SizesInv, walkRoot PROVE SizesInv'
    OBVIOUS
  <1>1. pc' = "walk" /\ walkAge' = 0 /\ todoRoots # {}
    BY DEF walkRoot
  <1>2. UNCHANGED <<files, gone, closed, rules, guard, quiet, cache, disk, attempt, todoRoots, passAge, dirty>>
    BY DEF walkRoot, tree, pass, history
  <1>3. nextRoot \in RootSet /\ nextRoot \in Dirs
    BY <1>1, RootsAre DEF SizesInv, TypeOK
  <1> DEFINE f == [dir |-> "pass", depth |-> -1, todo |-> {nextRoot}, sum |-> 0, age |-> 0, read |-> TRUE]
  <1>4. f \in AnyFrame /\ f.read /\ f.todo \subseteq RootSet
    BY <1>3, NoAge DEF AnyFrame
  <1>5. stack' = <<f>>
    BY DEF walkRoot
  <1> HIDE DEF f
  <1>6. WalkShape(stack') /\ TrueFrames(quiet, Openable, gone, Sums, Wants, stack')
    BY <1>4, <1>5, FirstFrame
  <1> QED BY <1>1, <1>2, <1>6, NoAge, SizesQuiet DEF SizesInv, TypeOK

\* The walk of a root is over.
LEMMA StepRootDone ==
    ASSUME SizesInv, pc = "walk", rootDone,
           UNCHANGED <<files, gone, closed, rules, guard, passAge, cache, disk, quiet>>
    PROVE  SizesInv'
  <1>1. nextRoot \in RootSet
    BY RootsAre DEF SizesInv, TypeOK, WalkInv
  <1>2. DOMAIN attempt' \subseteq RootSet /\ \A r \in DOMAIN attempt' : attempt'[r] \in 0..AgeCap
    BY <1>1, NoAge DEF rootDone, SizesInv, TypeOK
  <1>3. /\ todoRoots' \subseteq RootSet /\ pc' = "pass" /\ stack' = <<>> /\ walkAge' = 0 /\ dirty' = TRUE
    BY DEF rootDone, SizesInv, TypeOK
  <1> QED BY <1>2, <1>3, NoAge, SizesQuiet DEF SizesInv, TypeOK

LEMMA StepWalkEnds == SizesInv /\ (walkReturns \/ timeout) => SizesInv'
  <1> SUFFICES ASSUME SizesInv, walkReturns \/ timeout PROVE SizesInv'
    OBVIOUS
  <1>1. /\ pc = "walk" /\ rootDone
        /\ UNCHANGED <<files, gone, closed, rules, guard, passAge, cache, disk, quiet>>
    BY DEF walkReturns, timeout, tree, history
  <1> QED BY <1>1, StepRootDone

\* The pass is over; what is kept was there.
LEMMA StepPersist == SizesInv /\ persist => SizesInv'
  <1> SUFFICES ASSUME SizesInv, persist PROVE SizesInv'
    OBVIOUS
  <1>1. /\ pc = "pass" /\ pc' = "sleep" /\ passAge' = 0 /\ dirty' = FALSE
        /\ UNCHANGED <<files, gone, closed, rules, guard, quiet, attempt, todoRoots, walkAge, stack>>
    BY DEF persist, tree, history
  <1>2. cache' = cache \/ cache' \in enforceCap(cache)
    BY DEF persist
  <1>3. TrueEntries(quiet, Totals, cache')
    BY <1>2, CappedEntries DEF SizesInv
  <1>4. disk' = disk \/ disk' = cache'
    BY DEF persist, save
  <1>5. TrueEntries(quiet, Totals, disk')
    BY <1>3, <1>4 DEF SizesInv
  <1> QED BY <1>1, <1>3, <1>5, NoAge, SizesQuiet DEF SizesInv, TypeOK, WalkInv

LEMMA StepSleep == SizesInv /\ sleep => SizesInv'
  <1> SUFFICES ASSUME SizesInv, sleep PROVE SizesInv'
    OBVIOUS
  <1>1. /\ Elapse(untilNextDue) /\ pc = "sleep" /\ pc' = "idle"
        /\ UNCHANGED <<files, gone, closed, rules, guard, todoRoots, passAge, dirty, walkAge, stack>>
    BY DEF sleep, tree, pass
  <1>2. untilNextDue \in Nat
    BY WaitIs DEF SizesInv
  <1>3. Totals' = Totals
    BY <1>1, TreeStays
  <1>4. /\ TrueEntries(quiet', Totals, cache') /\ TrueEntries(quiet', Totals, disk')
        /\ quiet' \in 0..QuietCap
        /\ DOMAIN attempt' \subseteq RootSet /\ \A r \in DOMAIN attempt' : attempt'[r] \in 0..AgeCap
    BY <1>1, <1>2, <1>3, ElapseIs
  <1> QED BY <1>1, <1>4, SizesElapsed DEF SizesInv, TypeOK, WalkInv

\* The process ends; what was saved was true.
LEMMA StepForgets ==
    ASSUME SizesInv, forget, pc' = "down", TrueEntries(quiet, Totals, disk'),
           UNCHANGED <<files, gone, closed, rules, guard, quiet>>
    PROVE  SizesInv'
  <1>1. /\ cache' = Empty /\ DOMAIN attempt' = {} /\ stack' = <<>> /\ todoRoots' = {}
        /\ passAge' = 0 /\ walkAge' = 0 /\ dirty' = FALSE
    BY DEF forget, Empty
  <1>2. TrueEntries(quiet, Totals, cache')
    BY <1>1, NoEntries
  <1> QED BY <1>1, <1>2, NoAge, SizesQuiet

LEMMA StepCrash == SizesInv /\ crash => SizesInv'
  BY StepForgets DEF crash, tree, SizesInv

LEMMA StepShutdown == SizesInv /\ shutdown => SizesInv'
  <1> SUFFICES ASSUME SizesInv, shutdown PROVE SizesInv'
    OBVIOUS
  <1>1. /\ forget /\ pc' = "down" /\ UNCHANGED <<files, gone, closed, rules, guard, quiet>>
    BY DEF shutdown, tree
  <1>2. disk' = disk \/ disk' \in enforceCap(cache)
    BY DEF shutdown, save
  <1>3. TrueEntries(quiet, Totals, disk')
    BY <1>2, CappedEntries DEF SizesInv
  <1> QED BY <1>1, <1>3, StepForgets

LEMMA StepRestart == SizesInv /\ restart => SizesInv'
  <1> SUFFICES ASSUME SizesInv, restart PROVE SizesInv'
    OBVIOUS
  <1>1. /\ pc = "down" /\ pc' = "idle"
        /\ UNCHANGED <<files, gone, closed, rules, guard, attempt, todoRoots, passAge, dirty, walkAge, stack>>
    BY DEF restart, tree, pass
  <1>2. PICK t \in {0, Small} : /\ cache' = prune(load(t)) /\ disk' \in {load(t), prune(load(t))}
                                /\ quiet' = Min({QuietCap, quiet + t})
    BY DEF restart
  <1>3. t \in Nat /\ quiet \in 0..QuietCap /\ QuietCap \in Nat
    BY DirSizesAssumption DEF SizesInv, TypeOK
  <1>4. TrueEntries(quiet', Totals, load(t))
    BY <1>2, <1>3, AgedEntries DEF SizesInv, load
  <1>5. TrueEntries(quiet', Totals, prune(load(t)))
    BY <1>4, SomeEntries DEF prune
  <1>6. TrueEntries(quiet', Totals, cache') /\ TrueEntries(quiet', Totals, disk')
    BY <1>2, <1>4, <1>5
  <1>7. quiet' \in 0..QuietCap
    <2>1. quiet + t \in Nat /\ QuietCap \in Int /\ quiet + t \in Int
      BY <1>3
    <2>2. Min({QuietCap, quiet + t}) = IF QuietCap <= quiet + t THEN QuietCap ELSE quiet + t
      BY <2>1, Smaller
    <2> QED BY <1>2, <1>3, <2>1, <2>2
  <1> QED BY <1>1, <1>6, <1>7, SizesElapsed DEF SizesInv, TypeOK, WalkInv

LEMMA StepTreeChanges == SizesInv /\ treeChanges => SizesInv'
  <1> SUFFICES ASSUME SizesInv, treeChanges PROVE SizesInv'
    OBVIOUS
  <1>1. /\ quiet' = 0
        /\ UNCHANGED <<cache, disk, attempt, pc, guard, todoRoots, passAge, dirty, walkAge, stack>>
    BY DEF treeChanges, pass
  <1>2. /\ files' \in [Dirs -> 0..MaxFiles] /\ gone' \subseteq Dirs /\ closed' \subseteq Dirs
        /\ rules' \subseteq Dirs
    BY DEF treeChanges, Toggle, SizesInv, TypeOK
  <1> QED BY <1>1, <1>2, SizesStirred DEF SizesInv, TypeOK

-----------------------------------------------------------------------------
(* The steps of a walk.                                                    *)

\* The last frame, and a directory it has still to look at.
LEMMA TopIs ==
    ASSUME SizesInv, pc = "walk"
    PROVE  /\ WalkShape(stack) /\ TrueFrames(quiet, Openable, gone, Sums, Wants, stack)
           /\ Len(stack) \in 1..Len(stack) /\ Top \in AnyFrame
           /\ \A d \in Top.todo : d \in Dirs
           /\ Len(stack) > 1 =>
                /\ Top.dir \in Dirs /\ Top.todo \in SUBSET Kids(Top.dir) /\ Top.age \in 0..AgeCap
                /\ TrueFrame(quiet, Openable, gone, Sums, Top)
           /\ quiet \in 0..QuietCap /\ files \in [Dirs -> 0..MaxFiles]
  <1>1. WalkShape(stack) /\ TrueFrames(quiet, Openable, gone, Sums, Wants, stack)
    BY DEF SizesInv, WalkInv
  <1>2. Len(stack) \in Nat \ {0} /\ stack \in Seq(AnyFrame)
    BY <1>1 DEF WalkShape
  <1>3. Len(stack) \in 1..Len(stack)
    BY <1>2
  <1>4. Top \in AnyFrame /\ Top.todo \in SUBSET Dirs
    BY <1>1, <1>3, FrameIs DEF Top
  <1>5. ASSUME Len(stack) > 1
        PROVE  /\ Top.dir \in Dirs /\ Top.todo \in SUBSET Kids(Top.dir) /\ Top.age \in 0..AgeCap
               /\ TrueFrame(quiet, Openable, gone, Sums, Top)
    <2>1. Len(stack) \in 2..Len(stack)
      BY <1>2, <1>5
    <2> QED BY <1>1, <1>3, <1>5, <2>1, FrameIs DEF Top, TrueFrames
  <1> QED BY <1>1, <1>3, <1>4, <1>5 DEF SizesInv, TypeOK

\* A child that is called, in a calm frame, is one of the wanted.
LEMMA CallIs ==
    ASSUME SizesInv, NEW d, Calls(d), Len(stack) > 1, Calm(quiet, Top.dir, Top.age)
    PROVE  d \in Wants[Top.dir]
  <1>1. pc = "walk" /\ Top.read /\ d \in Top.todo /\ ~Under(d, rules) /\ d \notin guard
    BY DEF Calls, Skipped
  <1>2. d \in Kids(Top.dir) /\ Top.dir \in Dirs
    BY <1>1, TopIs
  <1>3. d \notin gone
    BY <1>1, TopIs DEF TrueFrame
  <1> QED BY <1>1, <1>2, <1>3, WantsIs

\* A child's total is added: the other parts of the state stay.
LEMMA StepReturn ==
    ASSUME SizesInv, pc = "walk",
           UNCHANGED <<files, gone, closed, rules, guard, quiet, disk, attempt, pc, todoRoots,
                       passAge, dirty, walkAge>>,
           TrueEntries(quiet, Totals, cache'),
           WalkShape(stack'), TrueFrames(quiet, Openable, gone, Sums, Wants, stack')
    PROVE  SizesInv'
  BY SizesQuiet DEF SizesInv, TypeOK, WalkInv

\* A fresh total: its age is less than a large cadence.
LEMMA StepReuse == ASSUME NEW d, SizesInv, reuse(d) PROVE SizesInv'
  <1>1. /\ pc = "walk" /\ Top.read /\ d \in Top.todo /\ Calls(d) /\ fresh(d)
        /\ stack' = Return(stack, d, cache[d].n) /\ cache' = cache
        /\ UNCHANGED <<files, gone, closed, rules, guard, quiet, disk, attempt, pc, todoRoots,
                       passAge, dirty, walkAge>>
    BY DEF reuse, Calls, tree, pass, history
  <1> DEFINE f == Top
             n == cache[d].n
  <1>2. /\ d \in Dirs /\ cache[d] \in Entries /\ cache[d].age \in 0..AgeCap /\ n \in Nat
        /\ TrueEntry(quiet, Totals, d, cache[d])
    BY <1>1, EntryIs DEF SizesInv, TrueEntries, IsCache, fresh
  <1>3. cache[d].age < Large
    <2>1. cache[d].age < cadence(cache[d]) /\ cadence(cache[d]) \in {Small, Large}
      BY <1>1 DEF fresh, cadence
    <2>2. Small \in Nat /\ Large \in Nat /\ Small <= Large /\ AgeCap \in Nat
      BY DirSizesAssumption
    <2> HIDE DEF fresh
    <2> QED BY ONLY <1>2, <2>1, <2>2
  <1>4. ASSUME Len(stack) > 1
        PROVE  /\ n <= Most(Subtree(d))
               /\ Calm(quiet, f.dir, f.age) => Sums[f.dir][f.todo \ {d}] = Sums[f.dir][f.todo] + n
    <2>1. /\ f.dir \in Dirs /\ f.todo \in SUBSET Kids(f.dir) /\ f.age \in 0..AgeCap
          /\ quiet \in 0..QuietCap /\ files \in [Dirs -> 0..MaxFiles] /\ d \in Kids(f.dir)
      BY <1>1, <1>4, TopIs
    <2>2. ASSUME Calm(quiet, f.dir, f.age)
          PROVE  Sums[f.dir][f.todo \ {d}] = Sums[f.dir][f.todo] + n
      <3>1. d \in Wants[f.dir]
        BY <1>1, <1>4, <2>2, CallIs
      <3>2. Calm(quiet, d, cache[d].age)
        BY <1>2, <1>3, <2>1, <2>2, CalmIs
      <3>3. n = Totals[d]
        BY <1>2, <3>2 DEF TrueEntry
      <3>4. Sums[f.dir][f.todo \ {d}] = Sums[f.dir][f.todo] + Totals[d]
        <4> DEFINE x == f.dir
                   todo == f.todo
        <4>1. /\ x \in Dirs /\ todo \in SUBSET Kids(x) /\ files \in [Dirs -> 0..MaxFiles]
              /\ d \in todo /\ d \in Wants[x]
          BY <1>1, <2>1, <3>1
        <4> HIDE DEF x, todo
        <4>2. Sums[x][todo \ {d}] = Sums[x][todo] + Totals[d]
          BY <4>1, SumsAre
        <4> QED BY <4>2 DEF x, todo
      <3> QED BY <3>3, <3>4
    <2> QED BY <1>2, <2>2 DEF TrueEntry
  <1>5. WalkShape(stack') /\ TrueFrames(quiet, Openable, gone, Sums, Wants, stack')
    BY <1>1, <1>2, <1>4, TopIs, ReturnIs DEF Top
  <1> QED BY <1>1, <1>5, StepReturn DEF SizesInv

\* A child that adds nothing: it cannot be opened, or is not wanted.
LEMMA NothingAdded ==
    ASSUME SizesInv, pc = "walk", Top.read, NEW d \in Top.todo,
           Len(stack) > 1 => d \notin Openable \/ d \notin Wants[Top.dir]
    PROVE  /\ WalkShape(Return(stack, d, 0))
           /\ TrueFrames(quiet, Openable, gone, Sums, Wants, Return(stack, d, 0))
  <1> DEFINE f == Top
  <1>1. d \in Dirs
    BY TopIs
  <1>2. ASSUME Len(stack) > 1
        PROVE  /\ 0 <= Most(Subtree(d))
               /\ Sums[f.dir][f.todo \ {d}] = Sums[f.dir][f.todo] + 0
    <2>1. /\ f.dir \in Dirs /\ f.todo \in SUBSET Kids(f.dir) /\ files \in [Dirs -> 0..MaxFiles]
      BY <1>2, TopIs
    <2>2. Most(Subtree(d)) \in Nat
      BY <1>1, SubtreeSplits, MostIs
    <2>3. /\ Sums[f.dir][f.todo] \in Nat
          /\ Sums[f.dir][f.todo \ {d}] =
               (IF d \in Wants[f.dir] THEN Sums[f.dir][f.todo] + Totals[d] ELSE Sums[f.dir][f.todo])
      <3> DEFINE x == f.dir
                 todo == f.todo
      <3>1. x \in Dirs /\ todo \in SUBSET Kids(x) /\ files \in [Dirs -> 0..MaxFiles] /\ d \in todo
        BY <2>1
      <3> HIDE DEF x, todo
      <3>2. /\ Sums[x][todo] \in Nat
            /\ Sums[x][todo \ {d}] =
                 (IF d \in Wants[x] THEN Sums[x][todo] + Totals[d] ELSE Sums[x][todo])
        BY <3>1, SumsAre
      <3> QED BY <3>2 DEF x, todo
    <2>4. d \notin Openable => Totals[d] = 0
      <3>1. {} \in SUBSET Kids(d)
        OBVIOUS
      <3> QED BY <1>1, <2>1, <3>1, SumsAre
    <2> QED BY <1>2, <2>2, <2>3, <2>4
  <1>3. 0 \in Nat
    OBVIOUS
  <1> QED BY <1>2, <1>3, TopIs, ReturnIs DEF Top

LEMMA StepOpenFails == ASSUME NEW d, SizesInv, openFails(d) PROVE SizesInv'
  <1>1. /\ pc = "walk" /\ Top.read /\ d \in Top.todo /\ ~opens(d)
        /\ stack' = Return(stack, d, 0) /\ cache' = put(d, [n |-> 0, age |-> 0, walk |-> 0])
        /\ UNCHANGED <<files, gone, closed, rules, guard, quiet, disk, attempt, pc, todoRoots,
                       passAge, dirty, walkAge>>
    BY DEF openFails, Calls, tree, pass, history
  <1> DEFINE e == [n |-> 0, age |-> 0, walk |-> 0]
  <1>2. d \in Dirs /\ d \notin Openable
    BY <1>1, TopIs DEF Openable
  <1>3. e \in Entries
    <2>1. MaxFiles * Cardinality(Dirs) \in Nat
      BY FS_CardinalityType, DirSizesAssumption
    <2> QED BY <2>1, NoAge DEF Entries
  <1>4. TrueEntry(quiet, Totals, d, e)
    <2>1. Totals[d] = 0
      <3>1. {} \in SUBSET Kids(d)
        OBVIOUS
      <3> QED BY <1>1, <1>2, <3>1, TopIs, SumsAre
    <2>2. Most(Subtree(d)) \in Nat
      BY <1>2, SubtreeSplits, MostIs
    <2> QED BY <2>1, <2>2 DEF TrueEntry
  <1> HIDE DEF e
  <1>5. TrueEntries(quiet, Totals, cache')
    BY <1>1, <1>2, <1>3, <1>4, OneEntryMore DEF SizesInv, e
  <1>6. WalkShape(stack') /\ TrueFrames(quiet, Openable, gone, Sums, Wants, stack')
    BY <1>1, <1>2, NothingAdded
  <1> QED BY <1>1, <1>5, <1>6, StepReturn

LEMMA StepSkipChild == ASSUME NEW d, SizesInv, skipChild(d) PROVE SizesInv'
  <1>1. /\ pc = "walk" /\ Top.read /\ d \in Top.todo /\ Skipped(d)
        /\ stack' = Return(stack, d, 0) /\ cache' = cache
        /\ UNCHANGED <<files, gone, closed, rules, guard, quiet, disk, attempt, pc, todoRoots,
                       passAge, dirty, walkAge>>
    BY DEF skipChild, tree, pass, history
  <1>2. Len(stack) > 1 => d \notin Wants[Top.dir]
    <2> SUFFICES ASSUME Len(stack) > 1 PROVE d \notin Wants[Top.dir]
      OBVIOUS
    <2>1. Under(d, rules) \/ d \in guard
      BY <1>1 DEF Skipped
    <2>2. Top.dir \in Dirs /\ d \in Kids(Top.dir)
      BY <1>1, TopIs
    <2> QED BY <2>1, <2>2, WantsIs
  <1>3. WalkShape(stack') /\ TrueFrames(quiet, Openable, gone, Sums, Wants, stack')
    BY <1>1, <1>2, NothingAdded
  <1> QED BY <1>1, <1>3, StepReturn DEF SizesInv

LEMMA StepOpenDir == ASSUME NEW d, SizesInv, openDir(d) PROVE SizesInv'
  <1> DEFINE h == [dir |-> d, depth |-> IF isAnchor(d) THEN 0 ELSE Top.depth + 1,
                   todo |-> {}, sum |-> 0, age |-> 0, read |-> FALSE]
  <1>1. /\ pc = "walk" /\ Top.read /\ d \in Top.todo /\ Calls(d) /\ opens(d)
        /\ stack' = Append(stack, h) /\ cache' = cache
        /\ UNCHANGED <<files, gone, closed, rules, guard, quiet, disk, attempt, pc, todoRoots,
                       passAge, dirty, walkAge>>
    BY DEF openDir, Calls, tree, pass, history
  <1>2. d \in Dirs /\ d \in Openable
    BY <1>1, TopIs DEF Openable
  <1>3. h \in AnyFrame /\ h.dir = d /\ h.todo = {} /\ h.sum = 0 /\ h.age = 0 /\ h.read = FALSE
    <2>1. Top.depth \in Int
      BY <1>1, TopIs DEF AnyFrame
    <2> QED BY <1>2, <2>1, NoAge DEF AnyFrame
  <1> HIDE DEF h
  <1>4. Len(stack) > 1 /\ Calm(quiet, Top.dir, Top.age) => d \in Wants[Top.dir]
    BY <1>1, CallIs
  <1>5. WalkShape(stack') /\ TrueFrames(quiet, Openable, gone, Sums, Wants, stack')
    BY <1>1, <1>2, <1>3, <1>4, TopIs, EnterIs DEF Top
  <1> QED BY <1>1, <1>5, StepReturn DEF SizesInv

LEMMA StepReadDir == SizesInv /\ readDir => SizesInv'
  <1> SUFFICES ASSUME SizesInv, readDir PROVE SizesInv'
    OBVIOUS
  <1> DEFINE d == Top.dir
             t == Cost[d]
  <1>1. /\ pc = "walk" /\ pc' = "walk" /\ ~Top.read /\ Elapse(t)
        /\ passAge' = Older(passAge, t) /\ walkAge' = Older(walkAge, t)
        /\ UNCHANGED <<files, gone, closed, rules, guard, todoRoots, dirty>>
    BY DEF readDir, tree
  <1>2. Len(stack) > 1 /\ d \in Dirs
    <2>1. stack[1].read /\ Len(stack) \in Nat \ {0}
      BY <1>1, TopIs DEF WalkShape
    <2>2. Len(stack) > 1
      BY <1>1, <2>1 DEF Top
    <2> QED BY <1>1, <2>2, TopIs
  <1>3. t \in Nat /\ files[d] \in 0..MaxFiles /\ quiet \in 0..QuietCap
    BY <1>1, <1>2, TopIs, DirSizesAssumption
  <1>4. Sums[d][Kids(d) \ gone] = files[d]
    <2>1. Wants[d] \subseteq Kids(d) \ gone /\ Kids(d) \ gone \in SUBSET Kids(d)
      BY <1>2, WantsIs
    <2> QED BY <1>1, <1>2, <2>1, TopIs, SumsAre
  <1>5. stack' = Read(stack, t, files[d], gone)
    <2> DEFINE f(i) == [stack[i] EXCEPT !.age = Older(@, t)]
               a(i) == IF i < Len(stack) THEN f(i)
                       ELSE [f(i) EXCEPT !.read = TRUE, !.sum = files[f(i).dir], !.todo = Kids(f(i).dir) \ gone]
               b(i) == IF i < Len(stack) THEN f(i)
                       ELSE [f(i) EXCEPT !.read = TRUE, !.sum = files[d], !.todo = Kids(f(i).dir) \ gone]
    <2>1. stack' = [i \in 1..Len(stack) |-> a(i)]
      BY DEF readDir
    <2>2. Read(stack, t, files[d], gone) = [i \in 1..Len(stack) |-> b(i)]
      BY DEF Read
    <2>3. ASSUME NEW i \in 1..Len(stack), ~(i < Len(stack)) PROVE f(i).dir = d
      <3>1. i = Len(stack)
        BY <1>2, <2>3
      <3>2. stack[i] = Top /\ Top \in AnyFrame
        BY <1>1, <3>1, TopIs DEF Top
      <3> QED BY <3>2 DEF AnyFrame
    <2> HIDE DEF f, d, t
    <2>4. \A i \in 1..Len(stack) : a(i) = b(i)
      BY <2>3
    <2> HIDE DEF a, b
    <2> QED BY <2>1, <2>2, <2>4
  <1> HIDE DEF t, d
  <1>6. WalkShape(stack') /\ TrueFrames(Min({QuietCap, quiet + t}), Openable, gone, Sums, Wants, stack')
    BY <1>1, <1>3, <1>4, <1>5, TopIs, ReadIs DEF Top, d
  <1>7. quiet' = Min({QuietCap, quiet + t})
    BY <1>1 DEF Elapse
  <1>8. /\ TrueEntries(quiet', Totals, cache') /\ TrueEntries(quiet', Totals, disk')
        /\ quiet' \in 0..QuietCap
        /\ DOMAIN attempt' \subseteq RootSet /\ \A r \in DOMAIN attempt' : attempt'[r] \in 0..AgeCap
    <2>1. Totals' = Totals
      BY <1>1, TreeStays
    <2> QED BY <1>1, <1>3, <2>1, ElapseIs
  <1>9. passAge' \in 0..AgeCap /\ walkAge' \in 0..AgeCap /\ todoRoots # {}
    BY <1>1, <1>3, OlderIs DEF SizesInv, TypeOK, WalkInv
  <1> QED BY <1>1, <1>6, <1>7, <1>8, <1>9, SizesElapsed

\* A directory is summed up: the total is its entry and goes to the caller.
LEMMA StepLeave == SizesInv /\ leave => SizesInv'
  <1> SUFFICES ASSUME SizesInv, leave PROVE SizesInv'
    OBVIOUS
  <1> DEFINE d == Top.dir
             n == Top.sum
             k == Len(stack)
             f == stack[k - 1]
             e == [n |-> n, age |-> Top.age, walk |-> Top.age]
  <1>1. /\ pc = "walk" /\ k > 1 /\ Top.read /\ Top.todo = {}
        /\ cache' = put(d, e) \/ cache' = drop(d)
        /\ stack' = Return(Below, d, n)
        /\ UNCHANGED <<files, gone, closed, rules, guard, quiet, disk, attempt, pc, todoRoots,
                       passAge, dirty, walkAge>>
    BY DEF leave, tree, pass, history
  <1>2. /\ d \in Dirs /\ Top.age \in 0..AgeCap /\ n \in Nat /\ quiet \in 0..QuietCap
        /\ TrueFrame(quiet, Openable, gone, Sums, Top) /\ files \in [Dirs -> 0..MaxFiles]
        /\ WalkShape(stack) /\ TrueFrames(quiet, Openable, gone, Sums, Wants, stack)
        /\ k \in Nat /\ k \in 1..k /\ stack[k] = Top
    BY <1>1, TopIs DEF AnyFrame, Top
  <1>3. n <= Most(Subtree(d)) /\ (Calm(quiet, d, Top.age) => n = Totals[d])
    <2>1. {} \in SUBSET Kids(d)
      OBVIOUS
    <2>2. Passed(d, {}) = Subtree(d) /\ (d \in Openable => Totals[d] = Sums[d][{}])
      BY <1>2, <2>1, PassedIs, SumsAre
    <2> QED BY <1>1, <1>2, <2>2 DEF TrueFrame
  <1>4. e \in Entries /\ TrueEntry(quiet, Totals, d, e)
    <2>1. Most(Subtree(d)) \in Nat /\ Most(Subtree(d)) <= MaxFiles * Cardinality(Dirs)
      BY <1>2, SubtreeSplits, MostIs
    <2>2. MaxFiles * Cardinality(Dirs) \in Nat
      BY FS_CardinalityType, DirSizesAssumption
    <2>3. n \in 0..MaxFiles * Cardinality(Dirs)
      BY <1>2, <1>3, <2>1, <2>2
    <2> QED BY <1>2, <1>3, <2>3 DEF Entries, TrueEntry
  <1>5. TrueEntries(quiet, Totals, cache')
    <2> HIDE DEF d, e
    <2>1. TrueEntries(quiet, Totals, put(d, e))
      BY <1>2, <1>4, OneEntryMore DEF SizesInv
    <2>2. TrueEntries(quiet, Totals, drop(d))
      BY SomeEntries DEF SizesInv, drop
    <2> QED BY <1>1, <2>1, <2>2
  <1>6. /\ f.read /\ d \in f.todo /\ k - 1 \in 1..k
        /\ k > 2 => Top.age <= f.age /\ f.dir \in Dirs /\ f.age \in 0..AgeCap /\ f.todo \in SUBSET Kids(f.dir)
    <2>1. f.read /\ d \in f.todo /\ k - 1 \in 1..k /\ (k > 2 => Top.age <= f.age /\ f.dir \in Dirs)
      BY <1>1, <1>2, FrameIs
    <2>2. ASSUME k > 2 PROVE f.age \in 0..AgeCap /\ f.todo \in SUBSET Kids(f.dir)
      <3>1. k - 1 > 1
        BY <1>2, <2>2
      <3> QED BY <1>2, <2>1, <3>1, FrameIs
    <2> QED BY <2>1, <2>2
  <1>7. ASSUME k > 2, Calm(quiet, f.dir, f.age)
        PROVE  Sums[f.dir][f.todo \ {d}] = Sums[f.dir][f.todo] + n
    <2> DEFINE x == f.dir
               todo == f.todo
    <2>1. x \in Dirs /\ todo \in SUBSET Kids(x) /\ d \in todo /\ Calm(quiet, x, f.age)
      BY <1>6, <1>7
    <2>2. d \in Wants[x]
      <3>1. k \in 3..k
        BY <1>2, <1>7
      <3> QED BY <1>2, <1>7, <3>1 DEF TrueFrames
    <2>3. Calm(quiet, d, Top.age)
      <3>1. d \in Kids(x) /\ f.age \in 0..AgeCap /\ Top.age <= f.age
        BY <1>6, <1>7, <2>1
      <3> HIDE DEF x, todo, f, d
      <3> QED BY <1>2, <2>1, <3>1, CalmIs
    <2>4. n = Totals[d]
      BY <1>3, <2>3
    <2> HIDE DEF x, todo, d, n
    <2>5. files \in [Dirs -> 0..MaxFiles]
      BY <1>2
    <2>6. Sums[x][todo \ {d}] = Sums[x][todo] + Totals[d]
      BY ONLY <2>1, <2>2, <2>5, SumsAre
    <2> QED BY <2>4, <2>6 DEF x, todo
  <1>8. /\ WalkShape(Below) /\ TrueFrames(quiet, Openable, gone, Sums, Wants, Below)
        /\ Len(Below) = k - 1 /\ Below[Len(Below)] = f
    BY <1>1, <1>2, BelowIs DEF Below
  <1>9. WalkShape(stack') /\ TrueFrames(quiet, Openable, gone, Sums, Wants, stack')
    <2>1. Len(Below) > 1 => k > 2
      BY <1>2, <1>8
    <2> DEFINE b == Below
    <2> HIDE DEF f, d, n, k, b
    <2>2. /\ WalkShape(b) /\ TrueFrames(quiet, Openable, gone, Sums, Wants, b)
          /\ f = b[Len(b)] /\ f.read /\ d \in f.todo /\ n \in Nat
      BY <1>2, <1>6, <1>8 DEF b
    <2>3. Len(b) > 1 =>
            /\ n <= Most(Subtree(d))
            /\ Calm(quiet, f.dir, f.age) => Sums[f.dir][f.todo \ {d}] = Sums[f.dir][f.todo] + n
      BY <1>3, <1>7, <2>1 DEF b
    <2>4. /\ WalkShape(Return(b, d, n))
          /\ TrueFrames(quiet, Openable, gone, Sums, Wants, Return(b, d, n))
      BY <2>2, <2>3, ReturnIs
    <2> QED BY <1>1, <2>4 DEF b
  <1> QED BY <1>1, <1>5, <1>9, StepReturn

LEMMA SizesStutter == SizesInv /\ UNCHANGED vars => SizesInv'
  BY SizesQuiet DEF vars, tree, pass, history, SizesInv, TypeOK, WalkInv

LEMMA SizesStep == SizesInv /\ [Next]_vars => SizesInv'
  <1> SUFFICES ASSUME SizesInv, [Next]_vars PROVE SizesInv'
    OBVIOUS
  <1>1. CASE beginPass \/ skipRoot \/ walkRoot \/ walkReturns
    BY <1>1, StepBeginPass, StepSkipRoot, StepWalkRoot, StepWalkEnds
  <1>2. CASE \E d \in Dirs : reuse(d) \/ openFails(d) \/ openDir(d) \/ skipChild(d)
    BY <1>2, StepReuse, StepOpenFails, StepOpenDir, StepSkipChild
  <1>3. CASE readDir \/ leave \/ timeout \/ persist \/ sleep \/ restart
    BY <1>3, StepReadDir, StepLeave, StepWalkEnds, StepPersist, StepSleep, StepRestart
  <1>4. CASE treeChanges \/ crash \/ shutdown
    BY <1>4, StepTreeChanges, StepCrash, StepShutdown
  <1>5. CASE UNCHANGED vars
    BY <1>5, SizesStutter
  <1> QED BY <1>1, <1>2, <1>3, <1>4, <1>5 DEF Next, Gather

(***************************************************************************)
(* Whatever the walk reuses, skips, fails to open, gives up or forgets,    *)
(* every entry of the cache and of the file is within what the tree can    *)
(* hold and is what a full walk would find if the tree has been at rest    *)
(* for long enough, and every frame has summed just what it has passed     *)
(* (tree_sizes.go: walk, runPass, enforceCap, save, load, prune).          *)
(***************************************************************************)
THEOREM SizesInvariant == Spec => []SizesInv
  <1>1. Init => SizesInv
    BY SizesStart
  <1>2. SizesInv /\ [Next]_vars => SizesInv'
    BY SizesStep
  <1> QED BY <1>1, <1>2, PTL DEF Spec

(***************************************************************************)
(* "parents are NOT cached partial" (walk): a cached total is the one a    *)
(* full walk would find, once the tree has not changed for one large       *)
(* cadence per level below the directory before it was computed.           *)
(***************************************************************************)
THEOREM TrueAtRest == Spec => []TrueWhenQuiet
  <1>1. SizesInv => TrueWhenQuiet
    <2> SUFFICES ASSUME SizesInv PROVE TrueWhenQuiet
      OBVIOUS
    <2>1. ASSUME NEW d \in DOMAIN cache, cache[d].age < AgeCap, quiet > cache[d].age + Height(d) * Large
          PROVE  cache[d].n = Total(d)
      <3>1. d \in Dirs /\ TrueEntry(quiet, Totals, d, cache[d])
        BY DEF SizesInv, TrueEntries, IsCache
      <3> QED BY <2>1, <3>1 DEF TrueEntry, Calm, Totals
    <2> QED BY <2>1 DEF SizesInv, TrueWhenQuiet
  <1> QED BY <1>1, SizesInvariant, PTL

-----------------------------------------------------------------------------
(* The entry cap.                                                          *)

(***************************************************************************)
(* config.go:135: "TreeSizeMaxEntries is the hard backstop": the file is   *)
(* never above the cap, and the cache is above it in a pass that has       *)
(* walked something only.                                                  *)
(***************************************************************************)
WithinCap ==
    /\ Cardinality(DOMAIN disk) <= MaxEntries
    /\ Cardinality(DOMAIN cache) > MaxEntries => pc = "walk" \/ (pc = "pass" /\ dirty)

\* Between passes nothing is left to be persisted.
CapInv ==
    /\ WithinCap
    /\ pc \notin {"pass", "walk"} => ~dirty

\* Fewer entries stay within the cap; enforceCap leaves no more than that.
LEMMA FewerEntries ==
    ASSUME NEW c, IsCache(c)
    PROVE  /\ Cardinality(DOMAIN c) \in Nat
           /\ \A K \in SUBSET DOMAIN c : Cardinality(DOMAIN Restrict(c, K)) <= Cardinality(DOMAIN c)
           /\ \A k \in enforceCap(c) : Cardinality(DOMAIN k) <= MaxEntries
           /\ \A t : DOMAIN Aged(c, t) = DOMAIN c
  <1>1. IsFiniteSet(DOMAIN c) /\ MaxEntries \in Nat
    BY FS_Subset, DirSizesAssumption DEF IsCache
  <1>2. Cardinality(DOMAIN c) \in Nat
    BY <1>1, FS_CardinalityType
  <1>3. \A K : DOMAIN Restrict(c, K) = K
    BY DEF Restrict
  <1>4. \A K \in SUBSET DOMAIN c : Cardinality(DOMAIN Restrict(c, K)) <= Cardinality(DOMAIN c)
    BY <1>1, <1>3, FS_Subset
  <1>5. ASSUME NEW k \in enforceCap(c) PROVE Cardinality(DOMAIN k) <= MaxEntries
    <2>1. CASE Cardinality(DOMAIN c) <= MaxEntries
      BY <1>5, <2>1 DEF enforceCap
    <2>2. CASE ~(Cardinality(DOMAIN c) <= MaxEntries)
      <3>1. PICK K \in kSubset(MaxEntries, DOMAIN c) : k = Restrict(c, K)
        BY <1>5, <2>2 DEF enforceCap
      <3>2. Cardinality(K) = MaxEntries
        BY DEF kSubset
      <3> QED BY <1>1, <1>3, <3>1, <3>2
    <2> QED BY <2>1, <2>2
  <1> QED BY <1>2, <1>4, <1>5 DEF Aged

LEMMA CapStep == TypeOK /\ CapInv /\ [Next]_vars => CapInv'
  <1> SUFFICES ASSUME TypeOK, CapInv, [Next]_vars PROVE CapInv'
    OBVIOUS
  <1>1. IsCache(cache) /\ IsCache(disk) /\ MaxEntries \in Nat \ {0}
    BY DirSizesAssumption DEF TypeOK
  <1>2. Cardinality(DOMAIN Empty) <= MaxEntries
    BY <1>1, FS_EmptySet DEF Empty
  <1>3. /\ Cardinality(DOMAIN cache) \in Nat /\ Cardinality(DOMAIN disk) \in Nat
        /\ Cardinality(DOMAIN disk) <= MaxEntries
        /\ Cardinality(DOMAIN cache) > MaxEntries => pc = "walk" \/ (pc = "pass" /\ dirty)
        /\ pc \notin {"pass", "walk"} => ~dirty
    BY <1>1, FewerEntries DEF CapInv, WithinCap
  <1>4. CASE beginPass \/ skipRoot \/ walkRoot \/ walkReturns \/ timeout \/ treeChanges \/ UNCHANGED vars
    <2>1. UNCHANGED <<cache, disk>>
      BY <1>4 DEF beginPass, skipRoot, walkRoot, walkReturns, timeout, treeChanges, vars
    <2>2. \/ UNCHANGED <<pc, dirty>>
          \/ pc = "idle" /\ pc' = "pass" /\ dirty' = dirty
          \/ pc = "pass" /\ pc' = "walk"
          \/ pc = "walk" /\ pc' = "pass" /\ dirty' = TRUE
      BY <1>4 DEF beginPass, skipRoot, walkRoot, walkReturns, timeout, treeChanges, rootDone, pass, vars
    <2> QED BY <1>3, <2>1, <2>2 DEF CapInv, WithinCap
  <1>5. CASE (\E d \in Dirs : reuse(d) \/ openFails(d) \/ openDir(d) \/ skipChild(d)) \/ leave
    <2>1. disk' = disk /\ pc = "walk" /\ pc' = "walk"
      BY <1>5 DEF reuse, openFails, openDir, skipChild, leave, Calls
    <2> QED BY <1>3, <2>1 DEF CapInv, WithinCap
  <1>6. CASE readDir \/ sleep
    <2>1. DOMAIN disk' = DOMAIN disk /\ DOMAIN cache' = DOMAIN cache
      BY <1>6 DEF readDir, sleep, Elapse, Aged
    <2>2. dirty' = dirty
      BY <1>6 DEF readDir, sleep, pass
    <2>3. (pc = "walk" /\ pc' = "walk") \/ (pc = "sleep" /\ pc' = "idle")
      BY <1>6 DEF readDir, sleep
    <2> QED BY <1>3, <2>1, <2>2, <2>3 DEF CapInv, WithinCap
  <1>7. CASE persist
    <2>1. pc = "pass" /\ pc' = "sleep" /\ dirty' = FALSE
      BY <1>7 DEF persist
    <2>2. CASE dirty
      <3>1. cache' \in enforceCap(cache) /\ disk' \in {cache', disk}
        BY <1>7, <2>2 DEF persist, save
      <3>2. Cardinality(DOMAIN cache') <= MaxEntries
        BY <1>1, <3>1, FewerEntries
      <3>3. Cardinality(DOMAIN disk') <= MaxEntries
        BY <1>3, <3>1, <3>2
      <3>4. cache' = cache \/ \E K \in SUBSET DOMAIN cache : cache' = Restrict(cache, K)
        BY <3>1 DEF enforceCap, kSubset
      <3>5. Cardinality(DOMAIN cache') \in Nat
        <4>1. DOMAIN cache' \subseteq DOMAIN cache
          BY <3>4 DEF Restrict
        <4>2. IsFiniteSet(DOMAIN cache')
          BY <1>1, <4>1, FS_Subset, DirSizesAssumption DEF IsCache
        <4> QED BY <4>2, FS_CardinalityType
      <3> QED BY <1>1, <2>1, <3>2, <3>3, <3>5 DEF CapInv, WithinCap
    <2>3. CASE ~dirty
      <3>1. UNCHANGED <<cache, disk>>
        BY <1>7, <2>3 DEF persist
      <3> QED BY <1>3, <2>1, <2>3, <3>1 DEF CapInv, WithinCap
    <2> QED BY <2>2, <2>3
  <1>8. CASE crash \/ shutdown
    <2>1. cache' = Empty /\ pc' = "down" /\ dirty' = FALSE
      BY <1>8 DEF crash, shutdown, forget
    <2>2. disk' = disk \/ disk' \in enforceCap(cache)
      BY <1>8 DEF crash, shutdown, save
    <2>3. Cardinality(DOMAIN disk') <= MaxEntries
      BY <1>1, <1>3, <2>2, FewerEntries
    <2>4. Cardinality(DOMAIN cache') = 0
      BY <2>1, FS_EmptySet DEF Empty
    <2> QED BY <1>1, <2>1, <2>3, <2>4 DEF CapInv, WithinCap
  <1>9. CASE restart
    <2>1. PICK t \in {0, Small} : cache' = prune(load(t)) /\ disk' \in {load(t), prune(load(t))}
      BY <1>9 DEF restart
    <2>2. pc = "down" /\ pc' = "idle" /\ dirty' = dirty
      BY <1>9 DEF restart, pass
    <2>3. DOMAIN load(t) = DOMAIN disk
      BY DEF load, Aged
    <2>4. DOMAIN prune(load(t)) \subseteq DOMAIN disk
      BY <2>3 DEF prune, Restrict
    <2>5. \A S \in SUBSET DOMAIN disk : Cardinality(S) \in Nat /\ Cardinality(S) <= MaxEntries
      <3>1. IsFiniteSet(DOMAIN disk)
        BY <1>1, FS_Subset, DirSizesAssumption DEF IsCache
      <3> SUFFICES ASSUME NEW S \in SUBSET DOMAIN disk
                   PROVE  Cardinality(S) \in Nat /\ Cardinality(S) <= MaxEntries
        OBVIOUS
      <3>2. Cardinality(S) \in Nat /\ Cardinality(S) <= Cardinality(DOMAIN disk)
        BY <3>1, FS_Subset, FS_CardinalityType
      <3> QED BY <1>1, <1>3, <3>2
    <2>6. Cardinality(DOMAIN cache') <= MaxEntries /\ Cardinality(DOMAIN cache') \in Nat
      BY <2>1, <2>4, <2>5
    <2>7. Cardinality(DOMAIN disk') <= MaxEntries
      BY <2>1, <2>3, <2>4, <2>5
    <2> QED BY <1>1, <1>3, <2>2, <2>6, <2>7 DEF CapInv, WithinCap
  <1> QED BY <1>4, <1>5, <1>6, <1>7, <1>8, <1>9 DEF Next, Gather

(***************************************************************************)
(* Whatever order of walks, failed saves, crashes and restarts: the file   *)
(* is within the cap, and so is the cache outside a pass (runPass,         *)
(* enforceCap, save, load).                                                *)
(***************************************************************************)
THEOREM CapIsHard == Spec => []WithinCap
  <1>1. Init => CapInv
    <2> SUFFICES ASSUME Init PROVE CapInv
      OBVIOUS
    <2>1. Cardinality(DOMAIN cache) = 0 /\ Cardinality(DOMAIN disk) = 0
      BY FS_EmptySet DEF Init, Empty
    <2>2. MaxEntries \in Nat /\ pc = "idle" /\ dirty = FALSE
      BY DirSizesAssumption DEF Init
    <2> QED BY <2>1, <2>2 DEF CapInv, WithinCap
  <1>2. SizesInv /\ CapInv /\ [Next]_vars => CapInv'
    BY CapStep DEF SizesInv
  <1>3. CapInv => WithinCap
    BY DEF CapInv
  <1> QED BY <1>1, <1>2, <1>3, SizesInvariant, PTL DEF Spec

=============================================================================
