------------------------------ MODULE Sums_proofs ------------------------------
(***************************************************************************)
(* What the proofs about the engine need of finite sets of numbers: that they *)
(* have a least and a greatest one, and how sums over them are split, compared *)
(* and counted.  It comes from the least part of a collection of finite sets: *)
(* a smallest counterexample takes the place of an induction.                *)
(***************************************************************************)
EXTENDS Sums, Integers, FiniteSetTheorems, WellFoundedInduction, TLAPS

-----------------------------------------------------------------------------
\* A collection of finite sets has a smallest one: none of its parts is in it too.
LEMMA SmallestSet ==
    ASSUME NEW C, C # {}, \A T \in C : IsFiniteSet(T)
    PROVE  \E T \in C : \A U \in C : U \subseteq T => U = T
<1> DEFINE S == UNION C
           R == StrictSubsetOrdering(S)
<1>1. C \subseteq FiniteSubsetsOf(S)
  BY DEF FiniteSubsetsOf
<1>2. IsWellFoundedOn(R, FiniteSubsetsOf(S))
  BY FS_StrictSubsetOrderingWellFounded
<1>3. PICK T \in C : \A U \in C : ~(<<U, T>> \in R)
  <2> HIDE DEF R
  <2> QED BY <1>1, <1>2, WFMin
<1> QED BY <1>3 DEF StrictSubsetOrdering

\* Some numbers have a least one.
LEMMA LeastNumber ==
    ASSUME NEW S \in SUBSET Nat, S # {} PROVE \E x \in S : \A y \in S : x <= y
<1> DEFINE C == {0..n : n \in S}
<1>1. C # {} /\ \A T \in C : IsFiniteSet(T)
  <2>1. \A n \in Nat : IsFiniteSet(0..n)
    BY FS_Interval
  <2> QED BY <2>1
<1>2. PICK T \in C : \A U \in C : U \subseteq T => U = T
  <2> HIDE DEF C
  <2> QED BY <1>1, SmallestSet
<1>3. PICK x \in S : T = 0..x
  OBVIOUS
<1>4. ASSUME NEW y \in S, y < x PROVE FALSE
  <2>1. 0..y \in C /\ 0..y \subseteq T
    BY <1>3, <1>4
  <2>2. 0..y = 0..x
    BY <1>2, <1>3, <2>1
  <2> QED BY <1>4, <2>2
<1> QED BY <1>4

\* Finitely many numbers have a greatest one.
LEMMA GreatestInt ==
    ASSUME NEW S \in SUBSET Int, S # {}, IsFiniteSet(S) PROVE \E x \in S : \A y \in S : y <= x
<1> DEFINE C == {T \in SUBSET S : T # {} /\ ~\E x \in T : \A y \in T : y <= x}
<1> SUFFICES ASSUME C # {} PROVE FALSE
  OBVIOUS
<1>1. \A T \in C : IsFiniteSet(T)
  BY FS_Subset
<1>2. PICK T \in C : \A U \in C : U \subseteq T => U = T
  <2> HIDE DEF C
  <2> QED BY <1>1, SmallestSet
<1>3. PICK x \in T : TRUE
  OBVIOUS
<1>4. T \ {x} # {}
  <2> SUFFICES ASSUME T = {x} PROVE FALSE
    BY <1>3
  <2> QED BY <1>2, <1>3
<1>5. PICK m \in T \ {x} : \A y \in T \ {x} : y <= m
  <2>1. T \ {x} \notin C
    BY <1>2, <1>3
  <2> QED BY <1>2, <1>4, <2>1
<1> QED BY <1>2, <1>3, <1>5

\* The same of natural numbers.
LEMMA GreatestNumber ==
    ASSUME NEW S \in SUBSET Nat, S # {}, IsFiniteSet(S) PROVE \E x \in S : \A y \in S : y <= x
<1>1. S \in SUBSET Int
  OBVIOUS
<1> QED BY <1>1, GreatestInt

\* The greatest of finitely many numbers is one of them.
LEMMA MaxIs ==
    ASSUME NEW S \in SUBSET Int, S # {}, IsFiniteSet(S) PROVE Max(S) \in S /\ \A y \in S : y <= Max(S)
<1>1. PICK x \in S : \A y \in S : x >= y
  BY GreatestInt
<1> QED BY <1>1 DEF Max

-----------------------------------------------------------------------------
\* A fold takes one element after the other.
One(T) == CHOOSE x \in T : TRUE
IsFold(f, it, S) == it = [T \in SUBSET S |-> IF T = {} THEN 0 ELSE f[One(T)] + it[T \ {One(T)}]]

\* What a fold takes first is in the set.
LEMMA OneIn == ASSUME NEW T, T # {} PROVE One(T) \in T
BY DEF One

\* Two folds agree on what their functions agree on.
LEMMA FoldsAgree ==
    ASSUME NEW f, NEW i, NEW S, IsFold(f, i, S), NEW g, NEW j, NEW R, IsFold(g, j, R),
           NEW T \in SUBSET (S \cap R), IsFiniteSet(T), \A x \in T : f[x] = g[x]
    PROVE  i[T] = j[T]
<1> DEFINE C == {U \in SUBSET T : i[U] # j[U]}
<1>1. SUFFICES ASSUME C # {} PROVE FALSE
  OBVIOUS
<1>2. \A U \in C : IsFiniteSet(U)
  BY FS_Subset
<1>3. PICK U \in C : \A V \in C : V \subseteq U => V = U
  <2> HIDE DEF C
  <2> QED BY <1>1, <1>2, SmallestSet
<1>4. U \in SUBSET S /\ U \in SUBSET R
  OBVIOUS
<1>5. /\ i[U] = IF U = {} THEN 0 ELSE f[One(U)] + i[U \ {One(U)}]
      /\ j[U] = IF U = {} THEN 0 ELSE g[One(U)] + j[U \ {One(U)}]
  BY <1>4 DEF IsFold
<1>6. U # {}
  BY <1>5
<1>7. PICK x, V : x = One(U) /\ V = U \ {x} /\ x \in U
  BY <1>6, OneIn
<1>8. i[V] = j[V]
  BY <1>3, <1>7
<1> QED BY <1>5, <1>6, <1>7, <1>8

\* There is a fold over any finite set.
LEMMA FoldsExist == ASSUME NEW f, NEW S, IsFiniteSet(S) PROVE \E i : IsFold(f, i, S)
<1> DEFINE C == {T \in SUBSET S : ~\E i : IsFold(f, i, T)}
<1>1. SUFFICES ASSUME C # {} PROVE FALSE
  OBVIOUS
<1>2. \A T \in C : IsFiniteSet(T)
  BY FS_Subset
<1>3. PICK T \in C : \A U \in C : U \subseteq T => U = T
  <2> HIDE DEF C
  <2> QED BY <1>1, <1>2, SmallestSet
<1>4. \A U \in SUBSET T : U # T => \E i : IsFold(f, i, U)
  BY <1>3
<1> DEFINE Reached(U) == (CHOOSE i : IsFold(f, i, U))[U]
           New(U) == IF U = {} THEN 0 ELSE f[One(U)] + Reached(U \ {One(U)})
           h == [U \in SUBSET T |-> New(U)]
<1>5. ASSUME NEW U \in SUBSET T, U # T PROVE Reached(U) = New(U)
  <2>1. PICK i : IsFold(f, i, U) /\ Reached(U) = i[U]
    BY <1>4, <1>5
  <2>2. CASE U = {}
    BY <2>1, <2>2 DEF IsFold
  <2>3. CASE U # {}
    <3>1. PICK x, V : x = One(U) /\ V = U \ {x} /\ x \in U
      BY <2>3, OneIn
    <3>2. i[U] = f[x] + i[V]
      BY <2>1, <2>3, <3>1 DEF IsFold
    <3>3. V \in SUBSET T /\ V # T
      BY <3>1, <1>5
    <3>4. PICK j : IsFold(f, j, V) /\ Reached(V) = j[V]
      BY <1>4, <3>3
    <3>5. IsFiniteSet(V)
      BY <3>3, <1>2, FS_Subset
    <3>6. i[V] = j[V]
      BY <2>1, <3>1, <3>4, <3>5, FoldsAgree
    <3> HIDE DEF Reached
    <3> QED BY <2>1, <2>3, <3>1, <3>2, <3>4, <3>6
  <2> QED BY <2>2, <2>3
<1>6. IsFold(f, h, T)
  <2>1. ASSUME NEW U \in SUBSET T, U # {} PROVE Reached(U \ {One(U)}) = h[U \ {One(U)}]
    <3>1. PICK V : V = U \ {One(U)}
      OBVIOUS
    <3>2. V \in SUBSET T /\ V # T
      BY <3>1, <2>1, OneIn
    <3> HIDE DEF Reached
    <3> QED BY <3>1, <3>2, <1>5
  <2>2. \A U \in SUBSET T : h[U] = IF U = {} THEN 0 ELSE f[One(U)] + h[U \ {One(U)}]
    <3> HIDE DEF Reached
    <3> QED BY <2>1
  <2> HIDE DEF h
  <2>3. h = [U \in SUBSET T |-> h[U]]
    BY DEF h
  <2> QED BY <2>2, <2>3 DEF IsFold
<1> QED BY <1>3, <1>6

\* A fold of integers may take any element first.
LEMMA FoldsTake ==
    ASSUME NEW f, NEW i, NEW S, IsFiniteSet(S), IsFold(f, i, S), \A x \in S : f[x] \in Int
    PROVE  /\ i[{}] = 0
           /\ \A T \in SUBSET S : i[T] \in Int
           /\ \A T \in SUBSET S : \A x \in T : i[T] = f[x] + i[T \ {x}]
<1>0. \A T \in SUBSET S : i[T] = IF T = {} THEN 0 ELSE f[One(T)] + i[T \ {One(T)}]
  BY DEF IsFold
<1>1. i[{}] = 0
  BY <1>0
<1>2. \A T \in SUBSET S : i[T] \in Int
  <2> DEFINE C == {T \in SUBSET S : i[T] \notin Int}
  <2>1. SUFFICES ASSUME C # {} PROVE FALSE
    OBVIOUS
  <2>2. \A T \in C : IsFiniteSet(T)
    BY FS_Subset
  <2>3. PICK T \in C : \A U \in C : U \subseteq T => U = T
    <3> HIDE DEF C
    <3> QED BY <2>1, <2>2, SmallestSet
  <2>4. T # {}
    <3>1. T \in SUBSET S /\ i[T] \notin Int
      BY <2>3
    <3>2. CASE T = {}
      <4>1. i[T] = 0
        BY <1>0, <3>1, <3>2
      <4> QED BY <3>1, <4>1
    <3> QED BY <3>2
  <2>5. PICK x, V : x = One(T) /\ V = T \ {x} /\ x \in T
    BY <2>4, OneIn
  <2>6. i[V] \in Int
    BY <2>3, <2>5
  <2>7. i[T] = f[x] + i[V]
    BY <1>0, <2>3, <2>4, <2>5
  <2> QED BY <2>3, <2>5, <2>6, <2>7
<1>3. ASSUME NEW T \in SUBSET S, NEW x \in T PROVE i[T] = f[x] + i[T \ {x}]
  <2> DEFINE C == {U \in SUBSET S : \E z \in U : i[U] # f[z] + i[U \ {z}]}
  <2>1. SUFFICES ASSUME C # {} PROVE FALSE
    BY <1>3
  <2>2. \A U \in C : IsFiniteSet(U)
    BY FS_Subset
  <2>3. PICK U \in C : \A V \in C : V \subseteq U => V = U
    <3> HIDE DEF C
    <3> QED BY <2>1, <2>2, SmallestSet
  <2>4. PICK z \in U : i[U] # f[z] + i[U \ {z}]
    OBVIOUS
  <2>5. PICK y : y = One(U) /\ y \in U
    BY OneIn
  <2>6. i[U] = f[y] + i[U \ {y}]
    BY <1>0, <2>5
  <2>7. y # z
    BY <2>4, <2>6
  <2>8. PICK V, W, X : V = U \ {y} /\ W = U \ {z} /\ X = U \ {y, z}
    OBVIOUS
  <2>9. i[V] = f[z] + i[X]
    <3>1. V \notin C /\ z \in V /\ V \in SUBSET S /\ X = V \ {z}
      BY <2>3, <2>5, <2>7, <2>8
    <3> QED BY <3>1
  <2>10. i[W] = f[y] + i[X]
    <3>1. W \notin C /\ y \in W /\ W \in SUBSET S /\ X = W \ {y}
      BY <2>3, <2>5, <2>7, <2>8
    <3> QED BY <3>1
  <2>11. f[y] \in Int /\ f[z] \in Int /\ i[X] \in Int /\ U \in SUBSET S
    BY <1>2, <2>5, <2>8
  <2> QED BY <2>4, <2>6, <2>8, <2>9, <2>10, <2>11
<1> QED BY <1>1, <1>2, <1>3

-----------------------------------------------------------------------------
\* The sum of the numbers f has for the elements of T.
SumOver(f, T) == Total([x \in T |-> f[x]])

\* A sum is a fold of its function.
LEMMA SumIsFold ==
    ASSUME NEW f, NEW S, IsFiniteSet(S), NEW i, IsFold(f, i, S), NEW T \in SUBSET S
    PROVE  SumOver(f, T) = i[T]
<1>1. PICK g : g = [x \in T |-> f[x]]
  OBVIOUS
<1>2. DOMAIN g = T /\ IsFiniteSet(T) /\ \A x \in T : g[x] = f[x]
  BY <1>1, FS_Subset
<1>3. PICK j : j = CHOOSE h : IsFold(g, h, T)
  OBVIOUS
<1>4. IsFold(g, j, T)
  BY <1>2, <1>3, FoldsExist
<1>5. Total(g) = j[T]
  BY <1>2, <1>3 DEF Total, MapThenSumSet, MapThenFoldSet, IsFold, One
<1>6. i[T] = j[T]
  BY <1>2, <1>4, FoldsAgree
<1> QED BY <1>1, <1>5, <1>6 DEF SumOver

\* A sum is a number, and any element may be taken first.
LEMMA SumTake ==
    ASSUME NEW f, NEW S, IsFiniteSet(S), \A x \in S : f[x] \in Int
    PROVE  /\ SumOver(f, {}) = 0 /\ SumOver(f, S) \in Int
           /\ \A x \in S : SumOver(f, S) = f[x] + SumOver(f, S \ {x})
<1>1. PICK i : IsFold(f, i, S)
  BY FoldsExist
<1>2. \A T \in SUBSET S : SumOver(f, T) = i[T]
  BY <1>1, SumIsFold
<1>3. i[{}] = 0 /\ i[S] \in Int /\ \A x \in S : i[S] = f[x] + i[S \ {x}]
  BY <1>1, FoldsTake
<1>4. {} \in SUBSET S /\ S \in SUBSET S /\ \A x \in S : S \ {x} \in SUBSET S
  OBVIOUS
<1> QED BY <1>2, <1>3, <1>4

\* A sum over nothing is nothing.
LEMMA SumEmpty == \A f : SumOver(f, {}) = 0
<1>1. ASSUME NEW f PROVE SumOver(f, {}) = 0
  <2>1. IsFiniteSet({}) /\ \A x \in {} : f[x] \in Int
    BY FS_EmptySet
  <2> QED BY <2>1, SumTake
<1> QED BY <1>1

\* What a function gives for finitely many elements is finitely many.
LEMMA ImageIsFinite == ASSUME NEW h, NEW A, IsFiniteSet(A) PROVE IsFiniteSet({h[x] : x \in A})
<1> DEFINE Im(T) == {h[x] : x \in T}
           C == {T \in SUBSET A : ~IsFiniteSet(Im(T))}
<1>1. SUFFICES ASSUME C # {} PROVE FALSE
  OBVIOUS
<1>2. \A T \in C : IsFiniteSet(T)
  BY FS_Subset
<1>3. PICK T \in C : \A U \in C : U \subseteq T => U = T
  <2> HIDE DEF C
  <2> QED BY <1>1, <1>2, SmallestSet
<1>4. T \in SUBSET A /\ ~IsFiniteSet(Im(T))
  BY <1>3
<1>5. CASE T = {}
  <2>1. Im(T) = {}
    BY <1>5
  <2> QED BY <1>4, <2>1, FS_EmptySet
<1>6. CASE T # {}
  <2>1. PICK x, U : x \in T /\ U = T \ {x}
    BY <1>6
  <2>2. IsFiniteSet(Im(U))
    <3>1. U \notin C /\ U \in SUBSET A
      BY <1>3, <1>4, <2>1
    <3> QED BY <3>1
  <2>3. Im(T) = Im(U) \cup {h[x]}
    BY <2>1
  <2> HIDE DEF Im
  <2> QED BY <1>4, <2>2, <2>3, FS_AddElement
<1> QED BY <1>5, <1>6

\* Sums of the same numbers are the same, of greater ones greater.
LEMMA SumLe ==
    ASSUME NEW f, NEW g, NEW S, IsFiniteSet(S),
           \A x \in S : f[x] \in Int /\ g[x] \in Int /\ f[x] <= g[x]
    PROVE  SumOver(f, S) <= SumOver(g, S)
<1> DEFINE C == {T \in SUBSET S : ~(SumOver(f, T) <= SumOver(g, T))}
<1>1. SUFFICES ASSUME C # {} PROVE FALSE
  OBVIOUS
<1>2. \A T \in C : IsFiniteSet(T)
  BY FS_Subset
<1>3. PICK T \in C : \A U \in C : U \subseteq T => U = T
  <2> HIDE DEF C
  <2> QED BY <1>1, <1>2, SmallestSet
<1>4. T \in SUBSET S /\ IsFiniteSet(T) /\ ~(SumOver(f, T) <= SumOver(g, T))
  BY <1>2, <1>3
<1>5. \A U \in SUBSET S : /\ SumOver(f, U) \in Int /\ SumOver(g, U) \in Int
                          /\ \A x \in U : /\ SumOver(f, U) = f[x] + SumOver(f, U \ {x})
                                          /\ SumOver(g, U) = g[x] + SumOver(g, U \ {x})
  <2>1. \A U \in SUBSET S : IsFiniteSet(U)
    BY FS_Subset
  <2> QED BY <2>1, SumTake
<1>6. SumOver(f, {}) = 0 /\ SumOver(g, {}) = 0
  BY SumTake
<1>7. T # {}
  BY <1>4, <1>6
<1>8. PICK x, U : x \in T /\ U = T \ {x}
  BY <1>7
<1>9. SumOver(f, U) <= SumOver(g, U) /\ U \in SUBSET S
  BY <1>3, <1>4, <1>8
<1>10. SumOver(f, T) = f[x] + SumOver(f, U) /\ SumOver(g, T) = g[x] + SumOver(g, U)
  BY <1>4, <1>5, <1>8
<1>11. f[x] \in Int /\ g[x] \in Int /\ f[x] <= g[x] /\ SumOver(f, U) \in Int /\ SumOver(g, U) \in Int
  BY <1>4, <1>5, <1>8, <1>9
<1> QED BY <1>4, <1>9, <1>10, <1>11

\* Sums of the same numbers are the same.
LEMMA SumSame ==
    ASSUME NEW f, NEW g, NEW S, \A x \in S : f[x] = g[x] PROVE SumOver(f, S) = SumOver(g, S)
<1>1. [x \in S |-> f[x]] = [x \in S |-> g[x]]
  OBVIOUS
<1> QED BY <1>1 DEF SumOver

\* A sum over two sets that have nothing in common is the sum of both.
LEMMA SumSplit ==
    ASSUME NEW f, NEW A, IsFiniteSet(A), NEW B, IsFiniteSet(B), A \cap B = {},
           \A x \in A \cup B : f[x] \in Int
    PROVE  SumOver(f, A \cup B) = SumOver(f, A) + SumOver(f, B)
<1> DEFINE C == {T \in SUBSET B : SumOver(f, A \cup T) # SumOver(f, A) + SumOver(f, T)}
<1>1. SUFFICES ASSUME C # {} PROVE FALSE
  OBVIOUS
<1>2. \A T \in C : IsFiniteSet(T)
  BY FS_Subset
<1>3. PICK T \in C : \A U \in C : U \subseteq T => U = T
  <2> HIDE DEF C
  <2> QED BY <1>1, <1>2, SmallestSet
<1>4. T \in SUBSET B /\ IsFiniteSet(T) /\ SumOver(f, A \cup T) # SumOver(f, A) + SumOver(f, T)
  BY <1>2, <1>3
<1>5. SumOver(f, {}) = 0 /\ SumOver(f, A) \in Int
  BY SumTake
<1>6. T # {}
  <2>1. CASE T = {}
    <3>1. A \cup T = A
      BY <2>1
    <3> QED BY <1>4, <1>5, <2>1, <3>1
  <2> QED BY <2>1
<1>7. PICK x, U : x \in T /\ U = T \ {x}
  BY <1>6
<1>8. SumOver(f, A \cup U) = SumOver(f, A) + SumOver(f, U) /\ IsFiniteSet(U)
  <2>1. U \notin C
    BY <1>3, <1>7
  <2>2. U \in SUBSET B
    BY <1>4, <1>7
  <2> QED BY <1>4, <1>7, <2>1, <2>2, FS_Subset
<1>9. SumOver(f, T) = f[x] + SumOver(f, U) /\ SumOver(f, U) \in Int
  <2>1. \A y \in T : f[y] \in Int
    BY <1>4
  <2>2. \A y \in U : f[y] \in Int
    BY <1>4, <1>7
  <2>3. SumOver(f, T) = f[x] + SumOver(f, T \ {x})
    BY <1>4, <1>7, <2>1, SumTake
  <2>4. SumOver(f, U) \in Int
    BY <1>8, <2>2, SumTake
  <2> QED BY <1>7, <2>3, <2>4
<1>10. SumOver(f, A \cup T) = f[x] + SumOver(f, A \cup U)
  <2>1. PICK V : V = A \cup T
    OBVIOUS
  <2>2. x \in V /\ V \ {x} = A \cup U /\ IsFiniteSet(V) /\ \A y \in V : f[y] \in Int
    BY <1>4, <1>7, <2>1, FS_Union
  <2>3. SumOver(f, V) = f[x] + SumOver(f, V \ {x})
    BY <2>2, SumTake
  <2> QED BY <2>1, <2>2, <2>3
<1>11. f[x] \in Int
  BY <1>4, <1>7
<1> QED BY <1>4, <1>5, <1>8, <1>9, <1>10, <1>11

\* A sum over a part is no greater, if no number is negative.
LEMMA SumPart ==
    ASSUME NEW f, NEW S, IsFiniteSet(S), NEW T \in SUBSET S, \A x \in S : f[x] \in Nat
    PROVE  SumOver(f, T) <= SumOver(f, S) /\ SumOver(f, T) \in Nat
<1>1. IsFiniteSet(T) /\ IsFiniteSet(S \ T)
  BY FS_Subset
<1>2. SumOver(f, S) = SumOver(f, T) + SumOver(f, S \ T)
  <2>1. T \cap (S \ T) = {} /\ T \cup (S \ T) = S
    OBVIOUS
  <2> QED BY <1>1, <2>1, SumSplit
<1>3. \A U \in SUBSET S : SumOver(f, U) \in Nat
  <2> DEFINE z == [x \in S |-> 0]
  <2>1. ASSUME NEW U \in SUBSET S PROVE SumOver(f, U) \in Int /\ SumOver(z, U) <= SumOver(f, U)
    <3>1. IsFiniteSet(U) /\ \A x \in U : f[x] \in Int /\ z[x] \in Int /\ z[x] <= f[x]
      BY FS_Subset
    <3> HIDE DEF z
    <3> QED BY <3>1, SumLe, SumTake
  <2>2. ASSUME NEW U \in SUBSET S PROVE SumOver(z, U) = 0
    <3> DEFINE C == {V \in SUBSET S : SumOver(z, V) # 0}
    <3>1. SUFFICES ASSUME C # {} PROVE FALSE
      OBVIOUS
    <3>2. \A V \in C : IsFiniteSet(V)
      BY FS_Subset
    <3>3. PICK V \in C : \A W \in C : W \subseteq V => W = V
      <4> HIDE DEF C
      <4> QED BY <3>1, <3>2, SmallestSet
    <3>4. V \in SUBSET S /\ IsFiniteSet(V) /\ SumOver(z, V) # 0 /\ \A x \in V : z[x] = 0
      BY <3>2, <3>3
    <3> HIDE DEF z
    <3>5. SumOver(z, {}) = 0 /\ \A x \in V : SumOver(z, V) = z[x] + SumOver(z, V \ {x})
      BY <3>4, SumTake
    <3>6. PICK x \in V : TRUE
      BY <3>4, <3>5
    <3>7. V \ {x} \in SUBSET S /\ V \ {x} # V
      BY <3>4, <3>6
    <3>8. SumOver(z, V \ {x}) = 0
      BY <3>3, <3>7
    <3> QED BY <3>4, <3>5, <3>6, <3>8
  <2> QED BY <2>1, <2>2
<1> QED BY <1>2, <1>3

\* Numbers may be summed under other names.
LEMMA SumRenamed ==
    ASSUME NEW g, NEW A, IsFiniteSet(A), NEW h, \A x, y \in A : h[x] = h[y] => x = y,
           NEW f, \A x \in A : f[h[x]] = g[x] /\ g[x] \in Int
    PROVE  SumOver(g, A) = SumOver(f, {h[x] : x \in A})
<1> DEFINE Im(T) == {h[x] : x \in T}
           C == {T \in SUBSET A : SumOver(g, T) # SumOver(f, Im(T))}
<1>1. SUFFICES ASSUME C # {} PROVE FALSE
  OBVIOUS
<1>2. \A T \in C : IsFiniteSet(T)
  BY FS_Subset
<1>3. PICK T \in C : \A U \in C : U \subseteq T => U = T
  <2> HIDE DEF C
  <2> QED BY <1>1, <1>2, SmallestSet
<1>4. T \in SUBSET A /\ IsFiniteSet(T) /\ SumOver(g, T) # SumOver(f, Im(T))
  BY <1>2, <1>3
<1>5. SumOver(g, {}) = 0 /\ SumOver(f, {}) = 0
  BY SumEmpty
<1>6. T # {}
  <2>1. CASE T = {}
    <3>1. Im(T) = {}
      BY <2>1
    <3> QED BY <1>4, <1>5, <2>1, <3>1
  <2> QED BY <2>1
<1>7. PICK x, U : x \in T /\ U = T \ {x}
  BY <1>6
<1>8. SumOver(g, U) = SumOver(f, Im(U))
  <2>1. U \notin C /\ U \in SUBSET A
    BY <1>3, <1>4, <1>7
  <2> QED BY <2>1
<1>9. SumOver(g, T) = g[x] + SumOver(g, U)
  <2>1. \A y \in T : g[y] \in Int
    BY <1>4
  <2> QED BY <1>4, <1>7, <2>1, SumTake
<1>10. SumOver(f, Im(T)) = f[h[x]] + SumOver(f, Im(U))
  <2>1. IsFiniteSet(Im(T))
    BY <1>4, ImageIsFinite
  <2>2. \A y \in Im(T) : f[y] \in Int
    BY <1>4
  <2>3. h[x] \in Im(T) /\ Im(T) \ {h[x]} = Im(U)
    BY <1>4, <1>7
  <2> HIDE DEF Im
  <2>4. SumOver(f, Im(T)) = f[h[x]] + SumOver(f, Im(T) \ {h[x]})
    BY <2>1, <2>2, <2>3, SumTake
  <2> QED BY <2>3, <2>4
<1>11. f[h[x]] = g[x]
  BY <1>4, <1>7
<1> HIDE DEF Im
<1> QED BY <1>4, <1>8, <1>9, <1>10, <1>11

\* Numbers of some are within the numbers of the others they belong to.
LEMMA SumInto ==
    ASSUME NEW g, NEW A, IsFiniteSet(A), NEW h, \A x, y \in A : h[x] = h[y] => x = y,
           NEW f, NEW B, IsFiniteSet(B), \A y \in B : f[y] \in Nat,
           \A x \in A : g[x] \in Int /\ h[x] \in B /\ g[x] <= f[h[x]]
    PROVE  SumOver(g, A) <= SumOver(f, B)
<1>1. PICK k : k = [x \in A |-> f[h[x]]]
  OBVIOUS
<1>2. \A x \in A : k[x] = f[h[x]] /\ k[x] \in Int
  BY <1>1
<1>3. SumOver(g, A) <= SumOver(k, A)
  BY <1>2, SumLe
<1>4. PICK I : I = {h[x] : x \in A}
  OBVIOUS
<1>5. SumOver(k, A) = SumOver(f, I)
  BY <1>2, <1>4, SumRenamed
<1>6. I \in SUBSET B
  BY <1>4
<1>7. SumOver(f, I) <= SumOver(f, B)
  BY <1>6, SumPart
<1>8. SumOver(g, A) \in Int /\ SumOver(k, A) \in Int
  BY <1>2, SumTake
<1>9. SumOver(f, B) \in Int /\ SumOver(f, I) \in Int
  <2>1. \A y \in B : f[y] \in Int
    OBVIOUS
  <2> QED BY <1>5, <1>8, <2>1, SumTake
<1> QED BY <1>3, <1>5, <1>7, <1>8, <1>9

\* A multiple of a sum.
LEMMA SumTimes ==
    ASSUME NEW f, NEW S, IsFiniteSet(S), NEW n \in Int, NEW g,
           \A x \in S : f[x] \in Int /\ g[x] = f[x] * n
    PROVE  SumOver(g, S) = SumOver(f, S) * n
<1> DEFINE C == {T \in SUBSET S : SumOver(g, T) # SumOver(f, T) * n}
<1>1. SUFFICES ASSUME C # {} PROVE FALSE
  OBVIOUS
<1>2. \A T \in C : IsFiniteSet(T)
  BY FS_Subset
<1>3. PICK T \in C : \A U \in C : U \subseteq T => U = T
  <2> HIDE DEF C
  <2> QED BY <1>1, <1>2, SmallestSet
<1>4. T \in SUBSET S /\ IsFiniteSet(T) /\ SumOver(g, T) # SumOver(f, T) * n
  BY <1>2, <1>3
<1>5. SumOver(g, {}) = 0 /\ SumOver(f, {}) = 0
  BY SumEmpty
<1>6. T # {}
  <2>1. CASE T = {}
    <3>1. SumOver(g, T) = 0 /\ SumOver(f, T) = 0
      BY <1>5, <2>1
    <3> QED BY <1>4, <3>1
  <2> QED BY <2>1
<1>7. PICK x, U : x \in T /\ U = T \ {x}
  BY <1>6
<1>8. SumOver(g, U) = SumOver(f, U) * n
  <2>1. U \notin C /\ U \in SUBSET S
    BY <1>3, <1>4, <1>7
  <2> QED BY <2>1
<1>9. \A y \in T : f[y] \in Int /\ g[y] \in Int /\ g[y] = f[y] * n
  BY <1>4
<1>10. SumOver(f, T) = f[x] + SumOver(f, U) /\ SumOver(g, T) = g[x] + SumOver(g, U)
  BY <1>4, <1>7, <1>9, SumTake
<1>11. SumOver(f, U) \in Int
  <2>1. IsFiniteSet(U)
    BY <1>4, <1>7, FS_Subset
  <2> QED BY <1>7, <1>9, <2>1, SumTake
<1>12. \A a, b \in Int : (a + b) * n = a * n + b * n
  OBVIOUS
<1>13. (f[x] + SumOver(f, U)) * n = f[x] * n + SumOver(f, U) * n
  BY <1>7, <1>9, <1>11, <1>12
<1> QED BY <1>4, <1>7, <1>8, <1>9, <1>10, <1>13

\* Sets that have nothing in common have as many elements together as each has, others
\* at most as many.
LEMMA SumOfSizes ==
    ASSUME NEW c, NEW A, IsFiniteSet(A), \A x \in A : IsFiniteSet(c[x]),
           NEW g, \A x \in A : g[x] = Cardinality(c[x])
    PROVE  /\ IsFiniteSet(UNION {c[x] : x \in A})
           /\ Cardinality(UNION {c[x] : x \in A}) <= SumOver(g, A)
           /\ (\A x, y \in A : x # y => c[x] \cap c[y] = {}) =>
                 SumOver(g, A) = Cardinality(UNION {c[x] : x \in A})
<1> DEFINE Every(T) == UNION {c[x] : x \in T}
           Apart == \A x, y \in A : x # y => c[x] \cap c[y] = {}
           Right(T) == /\ IsFiniteSet(Every(T)) /\ Cardinality(Every(T)) <= SumOver(g, T)
                       /\ Apart => SumOver(g, T) = Cardinality(Every(T))
           C == {T \in SUBSET A : ~Right(T)}
<1>1. SUFFICES ASSUME C # {} PROVE FALSE
  <2>1. ASSUME C = {} PROVE Right(A)
    BY <2>1
  <2> QED BY <2>1
<1>2. \A T \in C : IsFiniteSet(T)
  BY FS_Subset
<1>3. PICK T \in C : \A U \in C : U \subseteq T => U = T
  <2> HIDE DEF C
  <2> QED BY <1>1, <1>2, SmallestSet
<1>4. T \in SUBSET A /\ IsFiniteSet(T) /\ ~Right(T)
  BY <1>2, <1>3
<1>5. T # {}
  <2>1. CASE T = {}
    <3>1. Every(T) = {} /\ SumOver(g, T) = 0
      BY <2>1, SumEmpty
    <3>2. IsFiniteSet({}) /\ Cardinality({}) = 0
      BY FS_EmptySet
    <3> HIDE DEF Every
    <3>3. IsFiniteSet(Every(T)) /\ Cardinality(Every(T)) = 0
      BY <3>1, <3>2
    <3> QED BY <1>4, <3>1, <3>3
  <2> QED BY <2>1
<1>6. PICK x, U : x \in T /\ U = T \ {x}
  BY <1>5
<1>7. Right(U)
  <2>1. U \notin C /\ U \in SUBSET A
    BY <1>3, <1>4, <1>6
  <2> HIDE DEF Right
  <2> QED BY <2>1
<1>8. Every(T) = Every(U) \cup c[x]
  BY <1>6
<1>9. Apart => Every(U) \cap c[x] = {}
  BY <1>4, <1>6
<1>10. \A y \in T : g[y] \in Int /\ g[y] \in Nat /\ g[y] = Cardinality(c[y]) /\ IsFiniteSet(c[y])
  BY <1>4, FS_CardinalityType
<1>11. SumOver(g, T) = g[x] + SumOver(g, U)
  BY <1>4, <1>6, <1>10, SumTake
<1>12. SumOver(g, U) \in Int
  <2>1. IsFiniteSet(U)
    BY <1>4, <1>6, FS_Subset
  <2> QED BY <1>6, <1>10, <2>1, SumTake
<1> HIDE DEF Every, Apart
<1>13. PICK K : K = Every(U)
  OBVIOUS
<1>14. /\ IsFiniteSet(K) /\ Cardinality(K) <= SumOver(g, U) /\ (Apart => SumOver(g, U) = Cardinality(K))
       /\ Cardinality(K) \in Nat
  BY <1>7, <1>13, FS_CardinalityType
<1>15. PICK Y : Y = c[x]
  OBVIOUS
<1>16. IsFiniteSet(Y) /\ g[x] = Cardinality(Y) /\ Cardinality(Y) \in Nat
  BY <1>6, <1>10, <1>15, FS_CardinalityType
<1>17. IsFiniteSet(K \cap Y) /\ Cardinality(K \cap Y) \in Nat
  <2>1. IsFiniteSet(K \cap Y)
    BY <1>16, FS_Subset
  <2> QED BY <2>1, FS_CardinalityType
<1>18. /\ IsFiniteSet(K \cup Y)
       /\ Cardinality(K \cup Y) = Cardinality(K) + Cardinality(Y) - Cardinality(K \cap Y)
  BY <1>14, <1>16, FS_Union
<1>19. Apart => Cardinality(K \cap Y) = 0
  <2>1. Apart => K \cap Y = {}
    BY <1>9, <1>13, <1>15
  <2> QED BY <2>1, FS_EmptySet
<1>20. PICK k, y, m, u : k = Cardinality(K) /\ y = Cardinality(Y) /\ m = Cardinality(K \cap Y) /\ u = SumOver(g, U)
  OBVIOUS
<1>21. k \in Nat /\ y \in Nat /\ m \in Nat /\ u \in Int /\ k <= u /\ (Apart => u = k) /\ (Apart => m = 0)
  BY <1>12, <1>14, <1>16, <1>17, <1>19, <1>20
<1>22. Cardinality(K \cup Y) = k + y - m /\ SumOver(g, T) = y + u
  BY <1>11, <1>16, <1>18, <1>20
<1>23. Cardinality(K \cup Y) <= SumOver(g, T) /\ (Apart => SumOver(g, T) = Cardinality(K \cup Y))
  BY <1>21, <1>22
<1> QED BY <1>4, <1>8, <1>13, <1>15, <1>18, <1>23

\* A sum is over a function.
LEMMA TotalIs == ASSUME NEW f, NEW S, f = [x \in S |-> f[x]] PROVE Total(f) = SumOver(f, S)
  BY DEF SumOver
=============================================================================
