----------------------------- MODULE Choice_proofs -----------------------------
(***************************************************************************)
(* Proofs about the choice of strategies (StrategyChoice): candidates are    *)
(* put in order by keys that compare from the left and end with the          *)
(* candidate itself, so there is always a first one and one of every rank;    *)
(* what is published are candidates that help, and none of those that help   *)
(* has better outcomes than the first.                                       *)
(***************************************************************************)
EXTENDS StrategyChoice, Sums_proofs, SequenceTheorems

-----------------------------------------------------------------------------
\* A key of n numbers.
Key(n) == [1..n -> Int]

\* No key is before another one that is before it, nor before itself.
LEMMA KeyAsym ==
    ASSUME NEW n \in Nat, NEW k \in Key(n), NEW l \in Key(n), KeyLess(k, l) PROVE ~KeyLess(l, k)
<1> SUFFICES ASSUME KeyLess(l, k) PROVE FALSE
  OBVIOUS
<1>1. PICK i \in 1..n : k[i] < l[i] /\ \A x \in 1..(i - 1) : k[x] = l[x]
  BY DEF KeyLess, Key
<1>2. PICK j \in 1..n : l[j] < k[j] /\ \A x \in 1..(j - 1) : l[x] = k[x]
  BY DEF KeyLess, Key
<1>3. k[i] \in Int /\ l[i] \in Int /\ k[j] \in Int /\ l[j] \in Int
  BY DEF Key
<1>4. CASE i < j
  BY <1>1, <1>2, <1>3, <1>4
<1>5. CASE j < i
  BY <1>1, <1>2, <1>3, <1>5
<1>6. CASE i = j
  BY <1>1, <1>2, <1>3, <1>6
<1> QED BY <1>4, <1>5, <1>6

\* What is before a key that is before another is before that one.
LEMMA KeyTrans ==
    ASSUME NEW n \in Nat, NEW k \in Key(n), NEW l \in Key(n), NEW m \in Key(n), KeyLess(k, l), KeyLess(l, m)
    PROVE  KeyLess(k, m)
<1>1. PICK i \in 1..n : k[i] < l[i] /\ \A x \in 1..(i - 1) : k[x] = l[x]
  BY DEF KeyLess, Key
<1>2. PICK j \in 1..n : l[j] < m[j] /\ \A x \in 1..(j - 1) : l[x] = m[x]
  BY DEF KeyLess, Key
<1>3. \A x \in 1..n : k[x] \in Int /\ l[x] \in Int /\ m[x] \in Int
  BY DEF Key
<1>4. SUFFICES \E x \in 1..n : k[x] < m[x] /\ \A y \in 1..(x - 1) : k[y] = m[y]
  BY DEF KeyLess, Key
<1>5. CASE i <= j
  <2>1. l[i] <= m[i] /\ \A y \in 1..(i - 1) : k[y] = m[y]
    BY <1>1, <1>2, <1>3, <1>5
  <2> QED BY <1>1, <1>3, <2>1
<1>6. CASE j < i
  <2>1. k[j] = l[j] /\ \A y \in 1..(j - 1) : k[y] = m[y]
    BY <1>1, <1>2, <1>6
  <2> QED BY <1>2, <1>3, <2>1
<1> QED BY <1>5, <1>6

\* Of two keys that differ one is before the other.
LEMMA KeyTotal ==
    ASSUME NEW n \in Nat, NEW k \in Key(n), NEW l \in Key(n), NEW z \in 1..n, k[z] # l[z]
    PROVE  KeyLess(k, l) \/ KeyLess(l, k)
<1>1. PICK D : D = {x \in 1..n : k[x] # l[x]}
  OBVIOUS
<1>2. D \in SUBSET Nat /\ D # {}
  BY <1>1
<1>3. PICK i \in D : \A y \in D : i <= y
  BY <1>2, LeastNumber
<1>4. i \in 1..n /\ k[i] # l[i] /\ k[i] \in Int /\ l[i] \in Int
  BY <1>1 DEF Key
<1>5. ASSUME NEW y \in 1..(i - 1) PROVE k[y] = l[y]
  BY <1>1, <1>3, <1>4
<1>6. DOMAIN k = 1..n /\ DOMAIN l = 1..n
  BY DEF Key
<1>7. CASE k[i] < l[i]
  BY <1>4, <1>5, <1>6, <1>7 DEF KeyLess
<1>8. CASE l[i] < k[i]
  BY <1>4, <1>5, <1>6, <1>8 DEF KeyLess
<1> QED BY <1>4, <1>7, <1>8

\* Two keys one after the other are a key.
LEMMA KeyConcat ==
    ASSUME NEW n \in Nat, NEW m \in Nat, NEW k \in Key(n), NEW l \in Key(m)
    PROVE  /\ k \o l \in Key(n + m)
           /\ \A i \in 1..n : (k \o l)[i] = k[i]
           /\ \A i \in 1..m : (k \o l)[n + i] = l[i]
<1>1. k \in Seq(Int) /\ l \in Seq(Int) /\ Len(k) = n /\ Len(l) = m
  BY DEF Key
<1>2. /\ k \o l \in Seq(Int) /\ Len(k \o l) = n + m
      /\ \A i \in 1..(n + m) : (k \o l)[i] = IF i <= n THEN k[i] ELSE l[i - n]
  BY <1>1, ConcatProperties
<1>3. k \o l \in Key(n + m)
  <2>1. PICK z : z = k \o l
    OBVIOUS
  <2>2. z \in Seq(Int) /\ Len(z) = n + m
    BY <1>2, <2>1
  <2>3. z \in [1..Len(z) -> Int]
    BY <2>2
  <2> QED BY <2>1, <2>2, <2>3 DEF Key
<1>4. ASSUME NEW i \in 1..m PROVE (k \o l)[n + i] = l[i]
  <2>1. n + i \in 1..(n + m) /\ ~(n + i <= n) /\ (n + i) - n = i
    OBVIOUS
  <2> QED BY <1>2, <2>1
<1> QED BY <1>2, <1>3, <1>4

\* The key x of r numbers is k and then l.
IsJoined(x, r, k, n, l, m) ==
    x \in Key(r) /\ (\A i \in 1..n : x[i] = k[i]) /\ (\A i \in 1..m : x[n + i] = l[i])

LEMMA KeyJoin ==
    ASSUME NEW n \in Nat, NEW m \in Nat, NEW r, r = n + m, NEW k \in Key(n), NEW l \in Key(m),
           NEW x, x = k \o l
    PROVE  IsJoined(x, r, k, n, l, m)
BY KeyConcat DEF IsJoined

\* A key that begins with the n numbers of another.
Begins(z, n, k) == \A i \in 1..n : z[i] = k[i]

\* Keys that begin with keys are in the order of their beginnings.
LEMMA KeyPrefix ==
    ASSUME NEW n \in Nat, NEW m \in Nat, NEW k \in Key(n), NEW l \in Key(n),
           NEW x \in Key(n + m), NEW y \in Key(n + m), Begins(x, n, k), Begins(y, n, l),
           KeyLess(k, l)
    PROVE  KeyLess(x, y)
<1>1. PICK i \in 1..n : k[i] < l[i] /\ \A j \in 1..(i - 1) : k[j] = l[j]
  BY DEF KeyLess, Key
<1>2. i \in 1..(n + m) /\ x[i] < y[i] /\ \A j \in 1..(i - 1) : x[j] = y[j]
  BY <1>1 DEF Begins
<1> QED BY <1>2 DEF KeyLess, Key

-----------------------------------------------------------------------------
\* Keys of finitely many candidates that all differ have a first one.
LEMMA KeyBest ==
    ASSUME NEW n \in Nat, NEW S, IsFiniteSet(S), S # {}, NEW K, \A c \in S : K[c] \in Key(n),
           \A c, d \in S : c # d => KeyLess(K[c], K[d]) \/ KeyLess(K[d], K[c])
    PROVE  \E c \in S : \A d \in S \ {c} : KeyLess(K[c], K[d])
<1> DEFINE Has(T) == \E c \in T : \A d \in T \ {c} : KeyLess(K[c], K[d])
           C == {T \in SUBSET S : T # {} /\ ~Has(T)}
<1>1. SUFFICES ASSUME C # {} PROVE FALSE
  OBVIOUS
<1>2. \A T \in C : IsFiniteSet(T)
  BY FS_Subset
<1>3. PICK T \in C : \A U \in C : U \subseteq T => U = T
  <2> HIDE DEF C
  <2> QED BY <1>1, <1>2, SmallestSet
<1>4. T \in SUBSET S /\ T # {} /\ ~Has(T)
  BY <1>3
<1>5. PICK x \in T : TRUE
  BY <1>4
<1>6. PICK U : U = T \ {x}
  OBVIOUS
<1>7. U # {}
  <2>1. ASSUME U = {} PROVE Has(T)
    BY <1>5, <1>6, <2>1
  <2> QED BY <1>4, <2>1
<1>8. Has(U)
  <2>1. U \in SUBSET S /\ U \subseteq T /\ U # T
    BY <1>4, <1>5, <1>6
  <2>2. U \notin C
    <3> HIDE DEF C
    <3> QED BY <1>3, <2>1
  <2> QED BY <1>7, <2>1, <2>2
<1>9. PICK c \in U : \A d \in U \ {c} : KeyLess(K[c], K[d])
  BY <1>8
<1>10. c # x /\ c \in S /\ x \in S /\ c \in T
  BY <1>4, <1>5, <1>6, <1>9
<1>11. CASE KeyLess(K[c], K[x])
  BY <1>4, <1>6, <1>9, <1>10, <1>11
<1>12. CASE KeyLess(K[x], K[c])
  <2>1. ASSUME NEW d \in T \ {x}, d # c PROVE KeyLess(K[x], K[d])
    <3>1. KeyLess(K[c], K[d]) /\ d \in S
      BY <1>4, <1>6, <1>9, <2>1
    <3>2. K[c] \in Key(n) /\ K[d] \in Key(n) /\ K[x] \in Key(n)
      BY <1>10, <3>1
    <3> QED BY <1>12, <3>1, <3>2, KeyTrans
  <2> QED BY <1>4, <1>5, <1>12, <2>1
<1> QED BY <1>10, <1>11, <1>12

\* The elements of S whose key is before that of c.
Under(c, S, K) == {d \in S : KeyLess(K[d], K[c])}

\* And one of every rank.
LEMMA KeyRank ==
    ASSUME NEW n \in Nat, NEW S, IsFiniteSet(S), NEW K, \A c \in S : K[c] \in Key(n),
           \A c, d \in S : c # d => KeyLess(K[c], K[d]) \/ KeyLess(K[d], K[c]),
           NEW r \in Nat, r < Cardinality(S)
    PROVE  \E c \in S : Cardinality(Under(c, S, K)) = r
<1> DEFINE B == {i \in Nat : i < Cardinality(S) /\ ~\E c \in S : Cardinality(Under(c, S, K)) = i}
<1>1. SUFFICES ASSUME B # {} PROVE FALSE
  OBVIOUS
<1>2. PICK i \in B : \A y \in B : i <= y
  <2>1. B \in SUBSET Nat
    OBVIOUS
  <2> HIDE DEF B
  <2> QED BY <1>1, <2>1, LeastNumber
<1>3. i \in Nat /\ i < Cardinality(S) /\ ~\E c \in S : Cardinality(Under(c, S, K)) = i
  BY <1>2
<1>4. \A T \in SUBSET S : IsFiniteSet(T) /\ Cardinality(T) \in Nat
  BY FS_Subset, FS_CardinalityType
<1>5. S # {} /\ Cardinality(S) \in Nat
  <2>1. Cardinality({}) = 0
    BY FS_EmptySet
  <2> QED BY <1>3, <1>4, <2>1
<1>6. \A c \in S : ~KeyLess(K[c], K[c])
  BY KeyAsym
<1>7. CASE i = 0
  <2>1. PICK c \in S : \A d \in S \ {c} : KeyLess(K[c], K[d])
    BY <1>5, KeyBest
  <2>2. Under(c, S, K) = {}
    BY <1>6, <2>1, KeyAsym DEF Under
  <2> QED BY <1>3, <1>7, <2>2, FS_EmptySet
<1>8. CASE i # 0
  <2>1. PICK c \in S : Cardinality(Under(c, S, K)) = i - 1
    <3>1. i - 1 \in Nat /\ i - 1 < Cardinality(S) /\ ~(i <= i - 1) /\ i - 1 \notin B
      BY <1>2, <1>3, <1>5, <1>8
    <3> QED BY <3>1
  <2>2. PICK V : V = Under(c, S, K)
    OBVIOUS
  <2>3. V \in SUBSET S /\ c \notin V /\ Cardinality(V) = i - 1 /\ IsFiniteSet(V)
    BY <1>4, <1>6, <2>1, <2>2 DEF Under
  <2>4. IsFiniteSet(V \cup {c}) /\ Cardinality(V \cup {c}) = i
    <3>1. IsFiniteSet(V \cup {c}) /\ Cardinality(V \cup {c}) = Cardinality(V) + 1
      BY <2>3, FS_AddElement
    <3> QED BY <1>3, <2>3, <3>1
  <2>5. PICK U : U = S \ (V \cup {c})
    OBVIOUS
  <2>6. U # {} /\ U \in SUBSET S /\ IsFiniteSet(U)
    <3>1. ASSUME U = {} PROVE FALSE
      <4>1. S = V \cup {c}
        BY <2>3, <2>5, <3>1
      <4> QED BY <1>3, <2>4, <4>1
    <3> QED BY <1>4, <2>5, <3>1
  <2>7. PICK u \in U : \A d \in U \ {u} : KeyLess(K[u], K[d])
    <3>1. \A x \in U : K[x] \in Key(n)
      BY <2>6
    <3>2. \A x, y \in U : x # y => KeyLess(K[x], K[y]) \/ KeyLess(K[y], K[x])
      BY <2>6
    <3> QED BY <2>6, <3>1, <3>2, KeyBest
  <2>8. u \in S /\ u # c /\ u \notin V /\ KeyLess(K[c], K[u])
    BY <2>2, <2>5, <2>6, <2>7 DEF Under
  <2>9. Under(u, S, K) = V \cup {c}
    <3>1. ASSUME NEW d \in V PROVE KeyLess(K[d], K[u])
      <4>1. KeyLess(K[d], K[c]) /\ d \in S
        BY <2>2, <3>1 DEF Under
      <4>2. K[d] \in Key(n) /\ K[c] \in Key(n) /\ K[u] \in Key(n)
        BY <2>8, <4>1
      <4> QED BY <2>8, <4>1, <4>2, KeyTrans
    <3>2. ASSUME NEW d \in U PROVE ~KeyLess(K[d], K[u])
      <4>1. d \in S /\ K[d] \in Key(n) /\ K[u] \in Key(n)
        BY <2>6, <2>8, <3>2
      <4>2. CASE d = u
        BY <1>6, <2>8, <4>2
      <4>3. CASE d # u
        <5>1. KeyLess(K[u], K[d])
          BY <2>7, <3>2, <4>3
        <5> QED BY <4>1, <5>1, KeyAsym
      <4> QED BY <4>2, <4>3
    <3> QED BY <2>3, <2>5, <2>8, <3>1, <3>2 DEF Under
  <2> QED BY <1>3, <2>4, <2>8, <2>9
<1> QED BY <1>7, <1>8

-----------------------------------------------------------------------------
\* What the outcomes of a project are.
IsOutcome(o) ==
    /\ o.unfinished \in Nat /\ o.unknown \in Nat /\ o.late \in Nat /\ o.unknown <= o.unfinished
    /\ o.risk = IF o.unknown > 0 THEN Nil ELSE o.late
    /\ o.unfinished = 0 => o.delay \in Int /\ o.p50 \in Int /\ o.p90 \in Int
    /\ o.unfinished > 0 => o.delay = Nil /\ o.p50 = Nil /\ o.p90 = Nil

\* Samples are unfinished, late or on time.
LEMMA Counted ==
    ASSUME ChoiceConstants, NEW s \in [1..Samples -> Int \cup {Nil}], NEW d \in Int
    PROVE  /\ Count(s, LAMBDA x : x = Nil) \in Nat
           /\ Count(s, LAMBDA x : x # Nil /\ x > d) \in Nat
           /\ Count(s, LAMBDA x : x # Nil /\ x <= d) \in Nat
           /\ Count(s, LAMBDA x : x = Nil) + Count(s, LAMBDA x : x # Nil /\ x > d)
                + Count(s, LAMBDA x : x # Nil /\ x <= d) = Samples
           /\ (\A i \in 1..Samples : s[i] # Nil) <=> Count(s, LAMBDA x : x = Nil) = 0
<1>1. PICK A, B, C : /\ A = {i \in 1..Samples : s[i] = Nil}
                     /\ B = {i \in 1..Samples : s[i] # Nil /\ s[i] > d}
                     /\ C = {i \in 1..Samples : s[i] # Nil /\ s[i] <= d}
  OBVIOUS
<1>2. Samples \in Nat /\ Nil \notin Int
  BY DEF ChoiceConstants
<1>3. IsFiniteSet(1..Samples) /\ Cardinality(1..Samples) = Samples
  BY <1>2, FS_Interval
<1>4. IsFiniteSet(A) /\ IsFiniteSet(B) /\ IsFiniteSet(C) /\ IsFiniteSet(A \cup B)
  BY <1>1, <1>3, FS_Subset, FS_Union
<1>5. A \cap B = {} /\ (A \cup B) \cap C = {} /\ (A \cup B) \cup C = 1..Samples
  BY <1>1, <1>2
<1>6. /\ Cardinality(A) \in Nat /\ Cardinality(B) \in Nat /\ Cardinality(C) \in Nat
      /\ Cardinality(A \cup B) \in Nat
  BY <1>4, FS_CardinalityType
<1>7. Cardinality({}) = 0
  BY FS_EmptySet
<1>8. Cardinality(A \cup B) = Cardinality(A) + Cardinality(B)
  <2>1. PICK D, E : D = A \cup B /\ E = A \cap B
    OBVIOUS
  <2>2. Cardinality(D) = Cardinality(A) + Cardinality(B) - Cardinality(E) /\ Cardinality(E) = 0
    BY <1>4, <1>5, <1>7, <2>1, FS_Union
  <2> QED BY <1>6, <2>1, <2>2
<1>9. Samples = Cardinality(A \cup B) + Cardinality(C)
  <2>1. PICK D : D = A \cup B
    OBVIOUS
  <2>2. Cardinality(D \cup C) = Cardinality(D) + Cardinality(C) - Cardinality(D \cap C)
    BY <1>4, <2>1, FS_Union
  <2>3. Cardinality(D \cup C) = Samples /\ Cardinality(D \cap C) = 0
    BY <1>3, <1>5, <1>7, <2>1
  <2> QED BY <1>6, <2>1, <2>2, <2>3
<1>10. /\ Count(s, LAMBDA x : x = Nil) = Cardinality(A)
       /\ Count(s, LAMBDA x : x # Nil /\ x > d) = Cardinality(B)
       /\ Count(s, LAMBDA x : x # Nil /\ x <= d) = Cardinality(C)
  BY <1>1 DEF Count
<1>11. Cardinality(A) = 0 <=> A = {}
  BY <1>4, FS_EmptySet
<1>12. (\A i \in 1..Samples : s[i] # Nil) <=> A = {}
  BY <1>1
<1> QED BY <1>6, <1>8, <1>9, <1>10, <1>11, <1>12

\* A quantile of complete finishes is a number.
LEMMA QuantileIs ==
    ASSUME ChoiceConstants, NEW s \in [1..Samples -> Int], NEW q \in {5, 9} PROVE Quantile(s, q) \in Int
<1>1. Samples \in Nat /\ Samples >= 1 /\ Len(s) = Samples
  BY DEF ChoiceConstants
<1>2. PICK at : at = (Samples - 1) * q
  OBVIOUS
<1>3. at \in Nat /\ (at = 5 * (Samples - 1) \/ at = 9 * (Samples - 1))
  BY <1>1, <1>2
<1>4. PICK d, m : d = at \div 10 /\ m = at % 10
  OBVIOUS
<1>5. d \in Nat /\ m \in 0..9 /\ at = 10 * d + m
  BY <1>3, <1>4
<1>6. d + 1 \in 1..Samples /\ (m # 0 => d + 2 \in 1..Samples)
  BY <1>1, <1>3, <1>5
<1>7. s[d + 1] \in Int /\ (m # 0 => s[d + 2] \in Int)
  BY <1>6
<1>8. Quantile(s, q) = IF m = 0 THEN 10 * s[d + 1] ELSE 10 * s[d + 1] + m * (s[d + 2] - s[d + 1])
  BY <1>1, <1>2, <1>4 DEF Quantile
<1> QED BY <1>5, <1>7, <1>8

\* The outcomes of a project are as many samples as the finishes say.
LEMMA OutcomeIs ==
    ASSUME ChoiceConstants, setting \in Settings, NEW f, IsFinishes(f), NEW p \in Projects,
           NEW o, o = Outcome(f[p], Due(p))
    PROVE  /\ IsOutcome(o)
           /\ Finished(f, p) <=> o.unfinished = 0
           /\ OnTime(f, p) = IF HorizonEnd < Due(p) THEN Samples - o.unfinished ELSE Samples - o.late
           /\ o.unknown = IF HorizonEnd < Due(p) THEN o.unfinished ELSE 0
<1>1. PICK s : s = f[p]
  OBVIOUS
<1>2. PICK d : d = Due(p)
  OBVIOUS
<1>3. s \in [1..Samples -> Int \cup {Nil}] /\ d \in Int /\ HorizonEnd \in Int /\ Samples \in Nat
  BY <1>1, <1>2 DEF ChoiceConstants, IsFinishes, Due
<1>4. PICK a, b, c : /\ a = Count(s, LAMBDA x : x = Nil)
                     /\ b = Count(s, LAMBDA x : x # Nil /\ x > d)
                     /\ c = Count(s, LAMBDA x : x # Nil /\ x <= d)
  OBVIOUS
<1>5. /\ a \in Nat /\ b \in Nat /\ c \in Nat /\ a + b + c = Samples
      /\ (\A i \in 1..Samples : s[i] # Nil) <=> a = 0
  BY <1>3, <1>4, Counted
<1>6. HorizonEnd < d => b = 0
  <2>1. ASSUME HorizonEnd < d, NEW i \in 1..Samples, s[i] # Nil PROVE ~(s[i] > d)
    <3>1. s[i] \in Int /\ s[i] <= HorizonEnd
      BY <1>1, <1>3, <2>1 DEF IsFinishes
    <3> QED BY <1>3, <2>1, <3>1
  <2>2. ASSUME HorizonEnd < d PROVE {i \in DOMAIN s : s[i] # Nil /\ s[i] > d} = {}
    BY <1>3, <2>1, <2>2
  <2>3. b = Cardinality({i \in DOMAIN s : s[i] # Nil /\ s[i] > d})
    BY <1>4 DEF Count
  <2> QED BY <2>2, <2>3, FS_EmptySet
<1>7. PICK u, l : /\ u = IF HorizonEnd < d THEN a ELSE 0
                  /\ l = b + (IF HorizonEnd >= d THEN a ELSE 0)
  OBVIOUS
<1>8. /\ o.unfinished = a /\ o.unknown = u /\ o.late = l
      /\ o.risk = (IF u > 0 THEN Nil ELSE l)
      /\ o.delay = (IF a > 0 THEN Nil
                    ELSE Total([i \in DOMAIN s |-> IF s[i] > d THEN s[i] - d ELSE 0]))
      /\ o.p50 = (IF a > 0 THEN Nil ELSE Quantile(s, 5))
      /\ o.p90 = (IF a > 0 THEN Nil ELSE Quantile(s, 9))
  BY <1>1, <1>2, <1>4, <1>7 DEF Outcome, Unknown
<1>9. u \in Nat /\ l \in Nat /\ u <= a
  BY <1>3, <1>5, <1>7
<1>10. a = 0 => o.delay \in Int /\ o.p50 \in Int /\ o.p90 \in Int
  <2> SUFFICES ASSUME a = 0 PROVE o.delay \in Int /\ o.p50 \in Int /\ o.p90 \in Int
    OBVIOUS
  <2>1. s \in [1..Samples -> Int]
    BY <1>3, <1>5
  <2>2. Quantile(s, 5) \in Int /\ Quantile(s, 9) \in Int
    BY <2>1, QuantileIs
  <2>3. PICK g : g = [i \in 1..Samples |-> IF s[i] > d THEN s[i] - d ELSE 0]
    OBVIOUS
  <2>4. \A i \in 1..Samples : g[i] \in Int
    BY <1>3, <2>1, <2>3
  <2>5. IsFiniteSet(1..Samples)
    BY <1>3, FS_Interval
  <2>6. SumOver(g, 1..Samples) \in Int
    BY <2>4, <2>5, SumTake
  <2>7. Total(g) \in Int
    <3>1. g = [i \in 1..Samples |-> g[i]]
      BY <2>3
    <3> QED BY <2>6, <3>1, TotalIs
  <2>8. o.delay = Total(g)
    BY <1>5, <1>8, <2>1, <2>3
  <2> QED BY <1>5, <1>8, <2>2, <2>7, <2>8
<1>11. IsOutcome(o)
  BY <1>5, <1>8, <1>9, <1>10 DEF IsOutcome
<1>12. Finished(f, p) <=> o.unfinished = 0
  BY <1>1, <1>3, <1>5, <1>8 DEF Finished
<1>13. OnTime(f, p) = c
  BY <1>1, <1>2, <1>4 DEF OnTime
<1>14. OnTime(f, p) = IF HorizonEnd < d THEN Samples - o.unfinished ELSE Samples - o.late
  BY <1>3, <1>5, <1>6, <1>7, <1>8, <1>13
<1> QED BY <1>2, <1>7, <1>8, <1>11, <1>12, <1>14

-----------------------------------------------------------------------------
\* A sum of integers is one, a sum of counts is nothing only if all of them are.
LEMMA TotalInt == ASSUME NEW S, IsFiniteSet(S), NEW g \in [S -> Int] PROVE Total(g) \in Int
<1>1. g = [x \in S |-> g[x]] /\ \A x \in S : g[x] \in Int
  OBVIOUS
<1>2. SumOver(g, S) \in Int
  BY <1>1, SumTake
<1> QED BY <1>1, <1>2, TotalIs

LEMMA TotalNat ==
    ASSUME NEW S, IsFiniteSet(S), NEW g \in [S -> Nat]
    PROVE  Total(g) \in Nat /\ (~(Total(g) > 0) => \A x \in S : g[x] = 0)
<1>1. g = [x \in S |-> g[x]] /\ \A x \in S : g[x] \in Nat /\ g[x] \in Int
  OBVIOUS
<1>2. Total(g) = SumOver(g, S)
  BY <1>1, TotalIs
<1>3. \A T \in SUBSET S : SumOver(g, T) <= SumOver(g, S) /\ SumOver(g, T) \in Nat
  BY <1>1, SumPart
<1>4. ASSUME NEW x \in S PROVE g[x] <= SumOver(g, S)
  <2>1. IsFiniteSet({x}) /\ {x} \in SUBSET S
    BY FS_Singleton
  <2>2. SumOver(g, {x}) = g[x] + SumOver(g, {x} \ {x}) /\ SumOver(g, {}) = 0
    BY <1>1, <2>1, SumTake
  <2>3. {x} \ {x} = {}
    OBVIOUS
  <2>4. SumOver(g, {x}) = g[x]
    BY <1>1, <2>2, <2>3
  <2> QED BY <1>3, <2>1, <2>4
<1>5. S \in SUBSET S
  OBVIOUS
<1> QED BY <1>1, <1>2, <1>3, <1>4, <1>5

\* Weights are numbers.
LEMMA WeightsAre == ASSUME ChoiceConstants, setting \in Settings PROVE Weights \in [Projects -> Int]
<1> SUFFICES ASSUME NEW p \in Projects PROVE Weights[p] \in Int
  BY DEF Weights
<1>1. PICK n : n = setting.priority[p]
  OBVIOUS
<1>2. n \in Int
  BY <1>1 DEF ChoiceConstants
<1>3. PICK m : m = Min({3, n})
  OBVIOUS
<1>4. m \in Int
  <2>1. \E x \in {3, n} : \A y \in {3, n} : x <= y
    BY <1>2
  <2> QED BY <1>2, <1>3, <2>1 DEF Min
<1>5. Max({1, m}) \in Int
  <2>1. \E x \in {1, m} : \A y \in {1, m} : x >= y
    BY <1>4
  <2>2. Max({1, m}) \in {1, m}
    BY <2>1 DEF Max
  <2> QED BY <1>4, <2>2
<1> QED BY <1>1, <1>3, <1>5 DEF Weights

\* A metric is a key of two numbers.
LEMMA MetricIs ==
    ASSUME Nil \notin Int, NEW x, NEW u \in Int, x # Nil => x \in Int
    PROVE  Metric(x, u) \in Key(2)
<1>1. Metric(x, u) = IF x # Nil THEN <<0, x>> ELSE <<1, u>>
  BY DEF Metric
<1>2. \A a, b \in Int : <<a, b>> \in [1..2 -> Int]
  OBVIOUS
<1> QED BY <1>1, <1>2 DEF Key

AreOutcomes(o) == \A p \in Projects : IsOutcome(o[p])

\* Unknown samples count as one at least.
LEMMA AtLeastOne ==
    ASSUME NEW o, IsOutcome(o) PROVE AtLeast1(o.unknown) \in Nat /\ AtLeast1(o.unknown) >= 1
BY DEF IsOutcome, AtLeast1

\* A weighted metric is one: if no sample is unknown every project has its number.
LEMMA WeightedIs ==
    ASSUME ChoiceConstants, NEW w \in [Projects -> Int], NEW o, AreOutcomes(o), NEW x \in {"risk", "delay"}
    PROVE  Weighted(w, o, x) \in Key(2)
<1>1. PICK g : g = [p \in Projects |-> IF o[p][x] = Nil THEN AtLeast1(o[p].unknown) ELSE 0]
  OBVIOUS
<1>2. g \in [Projects -> Nat] /\ \A p \in Projects : o[p][x] = Nil => g[p] >= 1
  BY <1>1, AtLeastOne DEF AreOutcomes
<1>3. IsFiniteSet(Projects) /\ Nil \notin Int
  BY DEF ChoiceConstants
<1>4. Total(g) \in Nat /\ (~(Total(g) > 0) => \A p \in Projects : g[p] = 0)
  BY <1>2, <1>3, TotalNat
<1>5. CASE Total(g) > 0
  <2>1. Weighted(w, o, x) = Metric(Nil, Total(g))
    BY <1>1, <1>5 DEF Weighted
  <2> QED BY <1>3, <1>4, <2>1, MetricIs
<1>6. CASE ~(Total(g) > 0)
  <2>1. \A p \in Projects : o[p][x] # Nil
    BY <1>2, <1>4, <1>6
  <2>2. \A p \in Projects : o[p][x] \in Int
    BY <2>1 DEF AreOutcomes, IsOutcome
  <2>3. PICK h : h = [p \in Projects |-> w[p] * o[p][x]]
    OBVIOUS
  <2>4. h \in [Projects -> Int]
    <3>1. \A a, b \in Int : a * b \in Int
      OBVIOUS
    <3> QED BY <2>2, <2>3, <3>1
  <2>5. Total(h) \in Int
    BY <1>3, <2>4, TotalInt
  <2>6. Weighted(w, o, x) = Metric(Total(h), 0)
    BY <1>1, <1>6, <2>3 DEF Weighted
  <2> QED BY <1>3, <2>5, <2>6, MetricIs
<1> QED BY <1>5, <1>6

\* The key of a portfolio has six numbers.
LEMMA PortfolioKeyIs ==
    ASSUME ChoiceConstants, NEW w \in [Projects -> Int], NEW o, AreOutcomes(o)
    PROVE  PortfolioKey(w, o) \in Key(6)
<1>1. PICK g, h : /\ g = [p \in Projects |-> w[p] * o[p].unknown]
                  /\ h = [p \in Projects |-> w[p] * o[p].unfinished]
  OBVIOUS
<1>2. g \in [Projects -> Int] /\ h \in [Projects -> Int]
  <2>1. \A p \in Projects : w[p] \in Int /\ o[p].unknown \in Int /\ o[p].unfinished \in Int
    BY DEF AreOutcomes, IsOutcome
  <2>2. \A a, b \in Int : a * b \in Int
    OBVIOUS
  <2> QED BY <1>1, <2>1, <2>2
<1>3. Total(g) \in Int /\ Total(h) \in Int
  BY <1>2, TotalInt DEF ChoiceConstants
<1>4. PICK a, b, c : a = <<Total(g), Total(h)>> /\ b = Weighted(w, o, "risk") /\ c = Weighted(w, o, "delay")
  OBVIOUS
<1>5. a \in Key(2) /\ b \in Key(2) /\ c \in Key(2)
  <2>1. a \in Key(2)
    BY <1>3, <1>4 DEF Key
  <2> QED BY <1>4, <2>1, WeightedIs
<1>6. a \o b \in Key(4)
  BY <1>5, KeyConcat
<1>7. (a \o b) \o c \in Key(6)
  BY <1>5, <1>6, KeyConcat
<1> QED BY <1>1, <1>4, <1>7 DEF PortfolioKey

\* So is the exposure of the other projects.
LEMMA ExposureIs ==
    ASSUME ChoiceConstants, NEW b, AreOutcomes(b), NEW o, AreOutcomes(o)
    PROVE  Exposure(b, o) \in Key(2)
<1>1. PICK g : g = [p \in Projects |->
          IF Nil \in {b[p].p50, o[p].p50} /\ b[p].unknown + o[p].unknown > 0 THEN 1 ELSE 0]
  OBVIOUS
<1>2. IsFiniteSet(Projects) /\ Nil \notin Int
  BY DEF ChoiceConstants
<1>3. g \in [Projects -> Nat]
  BY <1>1
<1>4. Total(g) \in Nat
  BY <1>2, <1>3, TotalNat
<1>5. CASE Total(g) > 0
  <2>1. Exposure(b, o) = Metric(Nil, Total(g))
    BY <1>1, <1>5 DEF Exposure
  <2> QED BY <1>2, <1>4, <2>1, MetricIs
<1>6. CASE ~(Total(g) > 0)
  <2>1. PICK h : h = [p \in Projects |-> IF Nil \in {b[p].p50, o[p].p50} THEN 0
                                        ELSE Max({0, o[p].p50 - b[p].p50})]
    OBVIOUS
  <2>2. ASSUME NEW p \in Projects, Nil \notin {b[p].p50, o[p].p50}
        PROVE  Max({0, o[p].p50 - b[p].p50}) \in Int
    <3>1. PICK n : n = o[p].p50 - b[p].p50
      OBVIOUS
    <3>2. IsOutcome(o[p]) /\ IsOutcome(b[p])
      BY DEF AreOutcomes
    <3>3. o[p].p50 \in Int /\ b[p].p50 \in Int
      BY <2>2, <3>2 DEF IsOutcome
    <3>4. {0, n} \in SUBSET Int
      BY <3>1, <3>3
    <3>5. {0, n} # {} /\ IsFiniteSet({0, n})
      <4>1. IsFiniteSet({0}) /\ {0, n} = {0} \cup {n}
        BY FS_Singleton
      <4> QED BY <4>1, FS_AddElement
    <3>6. Max({0, n}) \in {0, n}
      BY <3>4, <3>5, MaxIs
    <3> QED BY <3>1, <3>4, <3>6
  <2>3. h \in [Projects -> Int]
    <3>1. ASSUME NEW p \in Projects PROVE h[p] \in Int
      <4>1. CASE Nil \in {b[p].p50, o[p].p50}
        BY <2>1, <4>1
      <4>2. CASE Nil \notin {b[p].p50, o[p].p50}
        <5>1. h[p] = Max({0, o[p].p50 - b[p].p50})
          BY <2>1, <4>2
        <5> QED BY <2>2, <4>2, <5>1
      <4> QED BY <4>1, <4>2
    <3> QED BY <2>1, <3>1
  <2>4. Total(h) \in Int
    BY <1>2, <2>3, TotalInt
  <2>5. Exposure(b, o) = Metric(Total(h), 0)
    BY <1>1, <1>6, <2>1 DEF Exposure
  <2> QED BY <1>2, <2>4, <2>5, MetricIs
<1> QED BY <1>5, <1>6

-----------------------------------------------------------------------------
\* What holds in every state: outcomes are those of the finishes, guardrails were looked at
\* with them, and what is chosen was chosen from all that was run.
RunSet == {[finishes |-> f, outcomes |-> Outcomes(f), cost |-> k,
            feasible |-> Guarded(Outcomes(f), k)] : f \in Finishes, k \in Costs}

ChoiceInv ==
    /\ setting \in Settings
    /\ base # Nil => \E f \in BaseFinishes : base = [finishes |-> f, outcomes |-> Outcomes(f)]
    /\ runs \in Seq(RunSet)
    /\ base = Nil => runs = << >> /\ chosen = Nil
    /\ chosen # Nil => Len(runs) = Candidates /\ chosen = Published(Different, RankingKeys)

\* It holds before anything is run.
LEMMA InitChoiceInv == ChoiceInit => ChoiceInv
BY DEF ChoiceInit, ChoiceInv

\* A step that changes no setting changes no outcomes.
LEMMA SameOutcomes == ASSUME setting' = setting, NEW f PROVE Outcomes(f)' = Outcomes(f)
<1>1. \A p \in Projects : Outcome(f[p], Due(p)') = Outcome(f[p], Due(p))
  BY DEF Due
<1> QED BY <1>1 DEF Outcomes

\* Nor what a candidate may be, once the baseline was run.
LEMMA SameRuns == ASSUME setting' = setting, base' = base PROVE RunSet' = RunSet
<1>1. \A f : Outcomes(f)' = Outcomes(f)
  BY SameOutcomes
<1>2. \A o, k : Guarded(o, k)' = Guarded(o, k)
  BY DEF Guarded, Before
<1>3. ASSUME NEW f \in Finishes, NEW k \in Costs PROVE Guarded(Outcomes(f), k)' = Guarded(Outcomes(f), k)
  BY <1>1 DEF Guarded, Before
<1> QED BY <1>1, <1>3 DEF RunSet

\* A step that changes no runs leaves the choice among them what it was.
LEMMA SameChoice ==
    ASSUME setting' = setting, base' = base, runs' = runs
    PROVE  Published(Different, RankingKeys)' = Published(Different, RankingKeys)
<1>1. Before' = Before /\ \A c : After(c)' = After(c) /\ Disruption(c)' = Disruption(c)
  BY DEF Before, After, Disruption
<1>2. \A p : Due(p)' = Due(p)
  BY DEF Due
<1>3. Weights' = Weights
  <2>1. \A p \in Projects : Weights[p]' = Weights[p]
    BY DEF Weights
  <2> QED BY <2>1 DEF Weights
<1>4. \A c : FastKey(c)' = FastKey(c)
  BY <1>1, <1>2 DEF FastKey
<1>5. \A c : BalancedKey(c)' = BalancedKey(c)
  BY <1>1, <1>3 DEF BalancedKey
<1>6. ASSUME NEW c PROVE SafeKey(c)' = SafeKey(c)
  <2>1. PICK o : o = After(c)
    OBVIOUS
  <2>2. After(c)' = o
    BY <1>1, <2>1
  <2>3. [p \in Projects |-> IF After(c)'[p].p90 = Nil THEN AtLeast1(After(c)'[p].unknown) ELSE 0]
        = [p \in Projects |-> IF After(c)[p].p90 = Nil THEN AtLeast1(After(c)[p].unknown) ELSE 0]
    BY <1>1
  <2>4. {After(c)'[p].risk : p \in Projects} = {After(c)[p].risk : p \in Projects}
    BY <1>1
  <2>5. {After(c)'[p].p90 - 10 * Due(p)' : p \in Projects}
        = {After(c)[p].p90 - 10 * Due(p) : p \in Projects}
    BY <1>1, <1>2
  <2> QED BY <1>1, <2>3, <2>4, <2>5 DEF SafeKey
<1>7. RankingKeys' = RankingKeys
  BY <1>4, <1>5, <1>6 DEF RankingKeys
<1>8. \A c : Signature(c)' = Signature(c)
  BY <1>1 DEF Signature
<1>9. \A c : Improves(c)' = Improves(c)
  BY <1>1, <1>3 DEF Improves
<1>10. Beneficial' = Beneficial
  BY <1>9 DEF Beneficial
<1>11. Different' = Different
  BY <1>8, <1>10 DEF Different
<1>12. Leaders(Different, RankingKeys)' = Leaders(Different, RankingKeys)
  BY <1>7, <1>11 DEF Leaders
<1>13. ByApproach(Different, RankingKeys)' = ByApproach(Different, RankingKeys)
  BY <1>7, <1>12 DEF ByApproach
<1> QED BY <1>7, <1>11, <1>13 DEF Published

\* Every state is between the baseline, its candidates and the choice.
LEMMA NextChoiceInv == ASSUME ChoiceInv, [ChoiceNext]_choiceVars PROVE ChoiceInv'
<1>1. CASE RunBaseline
  <2>1. /\ setting' = setting /\ runs' = << >> /\ chosen' = Nil
        /\ \E f \in BaseFinishes : base' = [finishes |-> f, outcomes |-> Outcomes(f)]
    BY <1>1 DEF RunBaseline, ChoiceInv
  <2> QED BY <2>1, SameOutcomes DEF ChoiceInv
<1>2. CASE Evaluate
  <2>1. /\ setting' = setting /\ base' = base /\ chosen' = chosen /\ base # Nil /\ Len(runs) < Candidates
        /\ \E r \in RunSet : runs' = Append(runs, r)
    BY <1>2 DEF Evaluate, RunSet
  <2>2. runs' \in Seq(RunSet) /\ RunSet' = RunSet
    BY <2>1, SameRuns DEF ChoiceInv
  <2>3. chosen = Nil
    <3>1. runs \in Seq(RunSet) /\ (chosen # Nil => Len(runs) = Candidates)
      BY DEF ChoiceInv
    <3>2. Len(runs) \in Nat
      BY <3>1
    <3> QED BY <2>1, <3>1, <3>2
  <2> QED BY <2>1, <2>2, <2>3, SameOutcomes DEF ChoiceInv
<1>3. CASE Select \/ UNCHANGED choiceVars
  <2>1. /\ setting' = setting /\ base' = base /\ runs' = runs
        /\ (chosen' = chosen \/ (/\ base # Nil /\ Len(runs) = Candidates
                                 /\ chosen' = Published(Different, RankingKeys)))
    BY <1>3 DEF Select, choiceVars
  <2>2. RunSet' = RunSet /\ Published(Different, RankingKeys)' = Published(Different, RankingKeys)
    BY <2>1, SameRuns, SameChoice
  <2> QED BY <2>1, <2>2, SameOutcomes DEF ChoiceInv
<1> QED BY <1>1, <1>2, <1>3 DEF ChoiceNext

-----------------------------------------------------------------------------
\* What the outcomes o of a project say of its finishes.
Says(f, o, p) ==
    /\ IsOutcome(o)
    /\ Finished(f, p) <=> o.unfinished = 0
    /\ OnTime(f, p) = IF HorizonEnd < Due(p) THEN Samples - o.unfinished ELSE Samples - o.late
    /\ o.unknown = IF HorizonEnd < Due(p) THEN o.unfinished ELSE 0

\* They say it of the baseline and of every candidate.
LEMMA BaseIs ==
    ASSUME ChoiceConstants, ChoiceInv, base # Nil, NEW p \in Projects
    PROVE  Says(base.finishes, Before[p], p)
<1>1. PICK f \in BaseFinishes : base = [finishes |-> f, outcomes |-> Outcomes(f)]
  BY DEF ChoiceInv
<1>2. IsFinishes(f) /\ setting \in Settings
  BY DEF ChoiceConstants, ChoiceInv
<1>3. base.finishes = f /\ Before[p] = Outcome(f[p], Due(p))
  BY <1>1 DEF Before, Outcomes
<1> QED BY <1>2, <1>3, OutcomeIs DEF Says

LEMMA RunIs ==
    ASSUME ChoiceConstants, ChoiceInv, NEW c \in DOMAIN runs
    PROVE  /\ base # Nil /\ c \in Nat /\ runs[c].cost \in Costs
           /\ runs[c].feasible <=> Guarded(After(c), runs[c].cost)
           /\ \A p \in Projects : Says(runs[c].finishes, After(c)[p], p)
<1>1. runs \in Seq(RunSet) /\ (base = Nil => runs = << >>) /\ setting \in Settings
  BY DEF ChoiceInv
<1>2. base # Nil /\ c \in Nat /\ runs[c] \in RunSet
  BY <1>1
<1>3. PICK f \in Finishes, k \in Costs :
         runs[c] = [finishes |-> f, outcomes |-> Outcomes(f), cost |-> k,
                    feasible |-> Guarded(Outcomes(f), k)]
  BY <1>2 DEF RunSet
<1>4. IsFinishes(f)
  BY DEF ChoiceConstants
<1>5. ASSUME NEW p \in Projects PROVE Says(runs[c].finishes, After(c)[p], p)
  <2>1. runs[c].finishes = f /\ After(c)[p] = Outcome(f[p], Due(p))
    BY <1>3 DEF After, Outcomes
  <2> QED BY <1>1, <1>4, <2>1, OutcomeIs DEF Says
<1>6. After(c) = Outcomes(f) /\ runs[c].cost = k
  BY <1>3 DEF After
<1>7. runs[c].feasible <=> Guarded(After(c), runs[c].cost)
  BY <1>3, <1>6
<1> QED BY <1>2, <1>5, <1>6, <1>7

\* Before the disruption of a candidate there are so many numbers, and it ends with the candidate.
Ends(k, n, c) == k \in Key(n) /\ k[n] = c

LEMMA DisruptionIs ==
    ASSUME ChoiceConstants, ChoiceInv, NEW c \in DOMAIN runs, NEW n \in Nat, NEW k \in Key(n)
    PROVE  Ends(k \o Disruption(c), n + 4, c) /\ \A i \in 1..n : (k \o Disruption(c))[i] = k[i]
<1>1. runs[c].cost \in Costs /\ c \in Int
  BY RunIs
<1>2. PICK a, b, d : a = runs[c].cost.days /\ b = runs[c].cost.overtime /\ d = runs[c].cost.overhead
  OBVIOUS
<1>3. {a, b, d} \subseteq Int
  BY <1>1, <1>2 DEF ChoiceConstants
<1>4. PICK l : l = <<a, b, d, c>>
  OBVIOUS
<1>5. l \in Key(4) /\ l[4] = c
  BY <1>1, <1>3, <1>4 DEF Key
<1>6. Disruption(c) = l
  BY <1>2, <1>4 DEF Disruption
<1>7. PICK x : x = k \o l
  OBVIOUS
<1>8. IsJoined(x, n + 4, k, n, l, 4)
  BY <1>5, <1>7, KeyJoin
<1>9. x[n + 4] = l[4]
  BY <1>8 DEF IsJoined
<1> QED BY <1>5, <1>6, <1>7, <1>8, <1>9 DEF Ends, IsJoined

\* The outcomes of a candidate, and those before, make keys.
LEMMA KeyParts ==
    ASSUME ChoiceConstants, ChoiceInv, base # Nil
    PROVE  /\ AreOutcomes(Before) /\ Weights \in [Projects -> Int] /\ setting \in Settings
           /\ PortfolioKey(Weights, Before) \in Key(6)
           /\ \A c \in DOMAIN runs : /\ AreOutcomes(After(c))
                                     /\ PortfolioKey(Weights, After(c)) \in Key(6)
                                     /\ Weighted(Weights, After(c), "risk") \in Key(2)
                                     /\ Weighted(Weights, After(c), "delay") \in Key(2)
                                     /\ Exposure(Before, After(c)) \in Key(2)
<1>1. setting \in Settings
  BY DEF ChoiceInv
<1>2. Weights \in [Projects -> Int]
  BY <1>1, WeightsAre
<1>3. AreOutcomes(Before)
  BY BaseIs DEF Says, AreOutcomes
<1>4. ASSUME NEW c \in DOMAIN runs PROVE AreOutcomes(After(c))
  BY RunIs DEF Says, AreOutcomes
<1> QED BY <1>1, <1>2, <1>3, <1>4, WeightedIs, PortfolioKeyIs, ExposureIs

\* The metrics of one project.
LEMMA OneMetric ==
    ASSUME Nil \notin Int, NEW o, IsOutcome(o), NEW d \in Int
    PROVE  /\ Metric(o.risk, o.unknown) \in Key(2) /\ Metric(o.delay, o.unknown) \in Key(2)
           /\ Metric(IF o.p90 = Nil THEN Nil ELSE o.p90 - d, o.unknown) \in Key(2)
<1>1. o.unknown \in Int /\ o.unfinished \in Nat
  BY DEF IsOutcome
<1>2. o.risk # Nil => o.risk \in Int
  BY DEF IsOutcome
<1>3. o.delay # Nil => o.delay \in Int
  BY <1>1 DEF IsOutcome
<1>4. o.p90 # Nil => o.p90 \in Int
  BY <1>1 DEF IsOutcome
<1>5. PICK x : x = IF o.p90 = Nil THEN Nil ELSE o.p90 - d
  OBVIOUS
<1>6. x # Nil => x \in Int
  BY <1>4, <1>5
<1> QED BY <1>1, <1>2, <1>3, <1>5, <1>6, MetricIs

\* The key of the fast strategy begins with the outcomes of the project in focus.
FocusKey(c) ==
    LET o == After(c)[setting.focus] IN Metric(o.risk, o.unknown) \o Metric(o.delay, o.unknown)

LEMMA FastKeyIs ==
    ASSUME ChoiceConstants, ChoiceInv, NEW c \in DOMAIN runs
    PROVE  /\ FocusKey(c) \in Key(4) /\ Ends(FastKey(c), 10, c)
           /\ \A i \in 1..4 : FastKey(c)[i] = FocusKey(c)[i]
<1>1. base # Nil /\ setting \in Settings /\ setting.focus \in Projects /\ Nil \notin Int
  BY RunIs DEF ChoiceInv, ChoiceConstants
<1>2. PICK o : o = After(c)[setting.focus]
  OBVIOUS
<1>3. IsOutcome(o)
  BY <1>1, <1>2, KeyParts DEF AreOutcomes
<1>4. 10 * Due(setting.focus) \in Int
  BY <1>1 DEF ChoiceConstants, Due
<1>5. PICK a, b, e : /\ a = Metric(o.risk, o.unknown) /\ b = Metric(o.delay, o.unknown)
                     /\ e = Metric(IF o.p90 = Nil THEN Nil ELSE o.p90 - 10 * Due(setting.focus),
                                   o.unknown)
  OBVIOUS
<1>6. a \in Key(2) /\ b \in Key(2) /\ e \in Key(2)
  BY <1>1, <1>3, <1>4, <1>5, OneMetric
<1>7. PICK x : x = a \o b
  OBVIOUS
<1>8. x \in Key(4)
  BY <1>6, <1>7, KeyConcat
<1>9. PICK y : y = x \o e
  OBVIOUS
<1>10. y \in Key(6) /\ \A i \in 1..4 : y[i] = x[i]
  <2>1. 6 = 4 + 2 /\ 4 \in Nat /\ 2 \in Nat
    OBVIOUS
  <2>2. IsJoined(y, 6, x, 4, e, 2)
    BY <1>6, <1>8, <1>9, <2>1, KeyJoin, Zenon
  <2> QED BY <2>2 DEF IsJoined
<1>11. Ends(y \o Disruption(c), 10, c) /\ \A i \in 1..6 : (y \o Disruption(c))[i] = y[i]
  <2>1. 6 + 4 = 10 /\ 6 \in Nat
    OBVIOUS
  <2>2. Ends(y \o Disruption(c), 6 + 4, c) /\ \A i \in 1..6 : (y \o Disruption(c))[i] = y[i]
    BY <1>10, <2>1, DisruptionIs, Zenon
  <2> QED BY <2>1, <2>2
<1>12. FastKey(c) = y \o Disruption(c) /\ FocusKey(c) = x
  BY <1>2, <1>5, <1>7, <1>9 DEF FastKey, FocusKey
<1>13. PICK z : z = y \o Disruption(c)
  OBVIOUS
<1>14. Ends(z, 10, c) /\ \A i \in 1..4 : z[i] = x[i]
  <2>1. Ends(z, 10, c) /\ \A i \in 1..6 : z[i] = y[i]
    BY <1>11, <1>13
  <2> QED BY <1>10, <2>1
<1> QED BY <1>8, <1>12, <1>13, <1>14

\* Three metrics after a key, and the disruption at the end.
LEMMA ThreeMetrics ==
    ASSUME ChoiceConstants, ChoiceInv, NEW c \in DOMAIN runs, NEW m \in Nat, NEW k \in Key(m),
           NEW u \in Key(2), NEW v \in Key(2), NEW w \in Key(2),
           NEW z, z = (((k \o u) \o v) \o w) \o Disruption(c)
    PROVE  Ends(z, m + 10, c) /\ Begins(z, m, k)
<1>1. PICK m2, m4, m6 : m2 = m + 2 /\ m4 = m2 + 2 /\ m6 = m4 + 2
  OBVIOUS
<1>2. m2 \in Nat /\ m4 \in Nat /\ m6 \in Nat /\ 2 \in Nat /\ m6 + 4 = m + 10
  BY <1>1
<1>3. PICK x1 : x1 = k \o u
  OBVIOUS
<1>4. PICK x2 : x2 = x1 \o v
  OBVIOUS
<1>5. PICK x3 : x3 = x2 \o w
  OBVIOUS
<1>6. IsJoined(x1, m2, k, m, u, 2)
  BY <1>1, <1>2, <1>3, KeyJoin, Zenon
<1>7. x1 \in Key(m2)
  BY <1>6 DEF IsJoined
<1>8. IsJoined(x2, m4, x1, m2, v, 2)
  BY <1>1, <1>2, <1>4, <1>7, KeyJoin, Zenon
<1>9. x2 \in Key(m4)
  BY <1>8 DEF IsJoined
<1>10. IsJoined(x3, m6, x2, m4, w, 2)
  BY <1>1, <1>2, <1>5, <1>9, KeyJoin, Zenon
<1>11. x3 \in Key(m6)
  BY <1>10 DEF IsJoined
<1>12. z = x3 \o Disruption(c)
  BY <1>3, <1>4, <1>5
<1>13. Ends(z, m6 + 4, c) /\ \A i \in 1..m6 : z[i] = x3[i]
  <2>1. Ends(x3 \o Disruption(c), m6 + 4, c) /\ \A i \in 1..m6 : (x3 \o Disruption(c))[i] = x3[i]
    BY <1>2, <1>11, DisruptionIs, Zenon
  <2> QED BY <1>12, <2>1
<1>14. ASSUME NEW i \in 1..m PROVE z[i] = k[i]
  <2>1. i \in 1..m2 /\ i \in 1..m4 /\ i \in 1..m6
    BY <1>1, <1>2
  <2>2. z[i] = x3[i] /\ x3[i] = x2[i] /\ x2[i] = x1[i] /\ x1[i] = k[i]
    BY <1>6, <1>8, <1>10, <1>13, <2>1 DEF IsJoined
  <2> QED BY <2>2
<1> QED BY <1>2, <1>13, <1>14 DEF Begins

\* The key of the balanced strategy begins with the portfolio's key, if that is the scope.
BalancedLength == IF setting.scope = "portfolio" THEN 16 ELSE 10

LEMMA BalancedKeyIs ==
    ASSUME ChoiceConstants, ChoiceInv, NEW c \in DOMAIN runs
    PROVE  /\ Ends(BalancedKey(c), BalancedLength, c)
           /\ setting.scope = "portfolio" => /\ PortfolioKey(Weights, After(c)) \in Key(6)
                                             /\ \A i \in 1..6 :
                                                   BalancedKey(c)[i] = PortfolioKey(Weights, After(c))[i]
<1>1. base # Nil
  BY RunIs
<1>2. PICK k : k = IF setting.scope = "portfolio" THEN PortfolioKey(Weights, After(c)) ELSE << >>
  OBVIOUS
<1>3. PICK u, v, w : /\ u = Weighted(Weights, After(c), "risk") /\ v = Weighted(Weights, After(c), "delay")
                     /\ w = Exposure(Before, After(c))
  OBVIOUS
<1>4. u \in Key(2) /\ v \in Key(2) /\ w \in Key(2) /\ PortfolioKey(Weights, After(c)) \in Key(6)
  BY <1>1, <1>3, KeyParts
<1>5. PICK z : z = BalancedKey(c)
  OBVIOUS
<1>6. z = (((k \o u) \o v) \o w) \o Disruption(c)
  BY <1>2, <1>3, <1>5 DEF BalancedKey
<1>7. CASE setting.scope = "portfolio"
  <2>1. k \in Key(6) /\ 6 \in Nat /\ 6 + 10 = 16
    BY <1>2, <1>4, <1>7
  <2>2. Ends(z, 6 + 10, c) /\ Begins(z, 6, k)
    BY <1>4, <1>6, <2>1, ThreeMetrics, Zenon
  <2> QED BY <1>2, <1>4, <1>5, <1>7, <2>1, <2>2 DEF BalancedLength, Begins
<1>8. CASE setting.scope # "portfolio"
  <2>1. k \in Key(0) /\ 0 \in Nat /\ 0 + 10 = 10
    BY <1>2, <1>8 DEF Key
  <2>2. Ends(z, 0 + 10, c)
    BY <1>4, <1>6, <2>1, ThreeMetrics, Zenon
  <2> QED BY <1>5, <1>8, <2>1, <2>2 DEF BalancedLength
<1> QED BY <1>7, <1>8

\* The key of the safe strategy is of the worst project.
LEMMA SafeKeyIs ==
    ASSUME ChoiceConstants, ChoiceInv, NEW c \in DOMAIN runs
    PROVE  Ends(SafeKey(c), 10, c)
<1>1. base # Nil /\ setting \in Settings /\ Nil \notin Int /\ IsFiniteSet(Projects)
  BY RunIs DEF ChoiceInv, ChoiceConstants
<1>2. PICK o : o = After(c)
  OBVIOUS
<1>3. AreOutcomes(o) /\ Exposure(Before, o) \in Key(2)
  BY <1>1, <1>2, KeyParts
<1>4. PICK g : g = [p \in Projects |-> IF o[p].p90 = Nil THEN AtLeast1(o[p].unknown) ELSE 0]
  OBVIOUS
<1>5. g \in [Projects -> Nat] /\ \A p \in Projects : o[p].p90 = Nil => g[p] >= 1
  BY <1>3, <1>4, AtLeastOne DEF AreOutcomes
<1>6. Total(g) \in Nat /\ (~(Total(g) > 0) => \A p \in Projects : g[p] = 0)
  BY <1>1, <1>5, TotalNat
<1>7. PICK rs, ts : rs = {o[p].risk : p \in Projects} /\ ts = {o[p].p90 - 10 * Due(p) : p \in Projects}
  OBVIOUS
<1>8. ASSUME ~(Total(g) > 0) PROVE Max(rs) \in Int /\ Max(ts) \in Int
  <2>1. \A p \in Projects : o[p].p90 # Nil
    BY <1>5, <1>6, <1>8
  <2>2. ASSUME NEW p \in Projects PROVE o[p].risk \in Int /\ o[p].p90 - 10 * Due(p) \in Int
    <3>1. IsOutcome(o[p]) /\ o[p].p90 # Nil
      BY <1>3, <2>1 DEF AreOutcomes
    <3>2. o[p].unfinished = 0 /\ o[p].p90 \in Int /\ o[p].unknown = 0 /\ o[p].risk \in Int
      BY <3>1 DEF IsOutcome
    <3>3. Due(p) \in Int
      BY <1>1 DEF ChoiceConstants, Due
    <3> QED BY <3>2, <3>3
  <2>3. rs \in SUBSET Int /\ ts \in SUBSET Int
    BY <1>7, <2>2
  <2>4. rs # {} /\ ts # {}
    <3>1. setting.focus \in Projects
      BY <1>1 DEF ChoiceConstants
    <3> QED BY <1>7, <3>1
  <2>5. IsFiniteSet(rs) /\ IsFiniteSet(ts)
    <3>1. PICK hr, ht : hr = [p \in Projects |-> o[p].risk] /\ ht = [p \in Projects |-> o[p].p90 - 10 * Due(p)]
      OBVIOUS
    <3>2. rs = {hr[p] : p \in Projects} /\ ts = {ht[p] : p \in Projects}
      BY <1>7, <3>1
    <3> QED BY <1>1, <3>2, ImageIsFinite
  <2> QED BY <2>3, <2>4, <2>5, MaxIs
<1>9. PICK worst, tail : /\ worst = IF Total(g) > 0 THEN Nil ELSE Max(rs)
                         /\ tail = IF Total(g) > 0 THEN Nil ELSE Max(ts)
  OBVIOUS
<1>10. (worst # Nil => worst \in Int) /\ (tail # Nil => tail \in Int)
  BY <1>8, <1>9
<1>11. PICK u, v, w : u = Metric(worst, Total(g)) /\ v = Metric(tail, Total(g)) /\ w = Exposure(Before, o)
  OBVIOUS
<1>12. u \in Key(2) /\ v \in Key(2) /\ w \in Key(2) /\ Total(g) \in Int
  BY <1>1, <1>3, <1>6, <1>10, <1>11, MetricIs
<1>13. PICK x : x = u \o v
  OBVIOUS
<1>14. PICK y : y = x \o w
  OBVIOUS
<1>15. 2 \in Nat /\ 4 \in Nat /\ 6 \in Nat /\ 4 = 2 + 2 /\ 6 = 4 + 2 /\ 6 + 4 = 10
  OBVIOUS
<1>16. IsJoined(x, 4, u, 2, v, 2)
  BY <1>12, <1>13, <1>15, KeyJoin, Zenon
<1>17. x \in Key(4)
  BY <1>16 DEF IsJoined
<1>18. IsJoined(y, 6, x, 4, w, 2)
  BY <1>12, <1>14, <1>15, <1>17, KeyJoin, Zenon
<1>19. y \in Key(6)
  BY <1>18 DEF IsJoined
<1>20. Ends(y \o Disruption(c), 6 + 4, c)
  BY <1>15, <1>19, DisruptionIs, Zenon
<1>21. SafeKey(c) = y \o Disruption(c)
  BY <1>2, <1>4, <1>7, <1>9, <1>11, <1>13, <1>14 DEF SafeKey
<1> QED BY <1>15, <1>20, <1>21

-----------------------------------------------------------------------------
\* Every role puts all candidates in an order.
RoleLength(r) == IF r = "balanced" THEN BalancedLength ELSE 10

LEMMA KeysAre ==
    ASSUME ChoiceConstants, ChoiceInv, NEW c \in DOMAIN runs, NEW r \in {"fast", "balanced", "safe"}
    PROVE  RoleLength(r) \in Nat /\ Ends(RankingKeys[c][r], RoleLength(r), c)
<1>1. RoleLength(r) \in Nat
  BY DEF RoleLength, BalancedLength
<1>2. Ends(FastKey(c), 10, c) /\ Ends(SafeKey(c), 10, c) /\ Ends(BalancedKey(c), BalancedLength, c)
  BY FastKeyIs, SafeKeyIs, BalancedKeyIs
<1>3. RankingKeys[c] = [fast |-> FastKey(c), balanced |-> BalancedKey(c), safe |-> SafeKey(c)]
  BY DEF RankingKeys
<1>4. CASE r = "fast"
  BY <1>1, <1>2, <1>3, <1>4 DEF RoleLength
<1>5. CASE r = "balanced"
  BY <1>1, <1>2, <1>3, <1>5 DEF RoleLength
<1>6. CASE r = "safe"
  BY <1>1, <1>2, <1>3, <1>6 DEF RoleLength
<1> QED BY <1>4, <1>5, <1>6

\* The keys of a role, by candidate, are of one length and differ.
LEMMA KeysOrdered ==
    ASSUME ChoiceConstants, ChoiceInv, NEW r \in {"fast", "balanced", "safe"},
           NEW K, K = [c \in DOMAIN runs |-> RankingKeys[c][r]], NEW S \in SUBSET DOMAIN runs
    PROVE  /\ IsFiniteSet(S)
           /\ \A c \in S : K[c] = RankingKeys[c][r] /\ K[c] \in Key(RoleLength(r))
           /\ \A c, d \in S : c # d => KeyLess(K[c], K[d]) \/ KeyLess(K[d], K[c])
<1>1. runs \in Seq(RunSet)
  BY DEF ChoiceInv
<1>2. PICK m : m = Len(runs)
  OBVIOUS
<1>3. m \in Nat /\ DOMAIN runs = 1..m
  BY <1>1, <1>2
<1>4. IsFiniteSet(S)
  BY <1>3, FS_Interval, FS_Subset
<1>5. PICK n : n = RoleLength(r)
  OBVIOUS
<1>6. \A c \in S : K[c] = RankingKeys[c][r] /\ n \in Nat /\ Ends(K[c], n, c)
  BY <1>5, KeysAre
<1>7. ASSUME NEW c \in S, NEW d \in S, c # d PROVE KeyLess(K[c], K[d]) \/ KeyLess(K[d], K[c])
  <2>1. K[c] \in Key(n) /\ K[d] \in Key(n) /\ K[c][n] = c /\ K[d][n] = d /\ n \in Nat
    BY <1>6, <1>7 DEF Ends
  <2>2. n \in 1..n
    BY <1>5, <2>1 DEF RoleLength, BalancedLength
  <2>3. K[c][n] # K[d][n]
    BY <1>7, <2>1
  <2> QED BY <2>1, <2>2, <2>3, KeyTotal
<1> QED BY <1>4, <1>5, <1>6, <1>7 DEF Ends

\* The first candidate of a role is one, and before all others.
LEMMA FirstIs ==
    ASSUME ChoiceConstants, ChoiceInv, NEW r \in {"fast", "balanced", "safe"},
           NEW S \in SUBSET DOMAIN runs, S # {}, NEW c, c = Best(S, RankingKeys, r)
    PROVE  c \in S /\ \A d \in S \ {c} : KeyLess(RankingKeys[c][r], RankingKeys[d][r])
<1>1. PICK K : K = [x \in DOMAIN runs |-> RankingKeys[x][r]]
  OBVIOUS
<1>2. /\ IsFiniteSet(S)
      /\ \A x \in S : K[x] = RankingKeys[x][r] /\ K[x] \in Key(RoleLength(r))
      /\ \A x, y \in S : x # y => KeyLess(K[x], K[y]) \/ KeyLess(K[y], K[x])
  BY <1>1, KeysOrdered
<1>3. RoleLength(r) \in Nat
  BY DEF RoleLength, BalancedLength
<1>4. \E x \in S : \A d \in S \ {x} : KeyLess(K[x], K[d])
  BY <1>2, <1>3, KeyBest
<1>5. \E x \in S : \A d \in S \ {x} : KeyLess(RankingKeys[x][r], RankingKeys[d][r])
  BY <1>2, <1>4
<1> QED BY <1>5 DEF Best

\* There is one of every rank.
LEMMA RankedIs ==
    ASSUME ChoiceConstants, ChoiceInv, NEW S \in SUBSET DOMAIN runs, NEW n \in Nat, n < Cardinality(S)
    PROVE  /\ Ranked(n, S, RankingKeys) \in S
           /\ Cardinality(Ahead(Ranked(n, S, RankingKeys), S, RankingKeys)) = n
<1>1. PICK K : K = [x \in DOMAIN runs |-> RankingKeys[x]["balanced"]]
  OBVIOUS
<1>2. /\ IsFiniteSet(S)
      /\ \A x \in S : K[x] = RankingKeys[x]["balanced"] /\ K[x] \in Key(RoleLength("balanced"))
      /\ \A x, y \in S : x # y => KeyLess(K[x], K[y]) \/ KeyLess(K[y], K[x])
  BY <1>1, KeysOrdered
<1>3. RoleLength("balanced") \in Nat
  BY DEF RoleLength, BalancedLength
<1>4. \E c \in S : Cardinality(Under(c, S, K)) = n
  BY <1>2, <1>3, KeyRank
<1>5. \A c \in S : Ahead(c, S, RankingKeys) = Under(c, S, K)
  BY <1>2 DEF Ahead, Under
<1>6. \E c \in S : Cardinality(Ahead(c, S, RankingKeys)) = n
  BY <1>4, <1>5
<1> QED BY <1>6 DEF Ranked

-----------------------------------------------------------------------------
\* Every candidate that helps has the outcomes of one that is kept.
LEMMA DifferentIs ==
    ASSUME ChoiceConstants, ChoiceInv
    PROVE  /\ Different \in SUBSET Beneficial /\ Beneficial \in SUBSET DOMAIN runs
           /\ \A d \in Beneficial : \E e \in Different : Signature(e) = Signature(d)
<1>1. Different \in SUBSET Beneficial /\ Beneficial \in SUBSET DOMAIN runs
  BY DEF Different, Beneficial
<1>2. ASSUME NEW d \in Beneficial PROVE \E e \in Different : Signature(e) = Signature(d)
  <2>1. PICK T : T = {e \in Beneficial : Signature(e) = Signature(d)}
    OBVIOUS
  <2>2. T \in SUBSET Nat /\ T # {}
    BY <1>1, <1>2, <2>1, RunIs
  <2>3. PICK e \in T : \A x \in T : e <= x
    BY <2>2, LeastNumber
  <2>4. ASSUME NEW x \in Beneficial, x < e PROVE Signature(x) # Signature(e)
    <3>1. x \notin T
      BY <2>2, <2>3, <2>4, <1>1, RunIs
    <3> QED BY <2>1, <2>3, <3>1
  <2> QED BY <2>1, <2>3, <2>4 DEF Different
<1> QED BY <1>1, <1>2

\* The role that the first strategy has.
FirstRole == IF setting.scope = "portfolio" THEN "balanced" ELSE "fast"

\* Of each role the best is published, the fast one first.
LEMMA ByRoleIs ==
    ASSUME NEW S, NEW keys, \A r \in {"fast", "balanced", "safe"} : Best(S, keys, r) \in S,
           NEW q, q = ByRole(S, keys)
    PROVE  /\ \A i \in DOMAIN q : q[i].id \in S
           /\ q[1].id = Best(S, keys, "fast")
<1>1. PICK best : best = [role \in {"fast", "balanced", "safe"} |-> Best(S, keys, role)]
  OBVIOUS
<1>2. PICK f, b, s : f = best.fast /\ b = best.balanced /\ s = best.safe
  OBVIOUS
<1>3. f \in S /\ b \in S /\ s \in S /\ f = Best(S, keys, "fast")
  BY <1>1, <1>2
<1>4. PICK ids : ids = <<f>> \o (IF b = f THEN << >> ELSE <<b>>)
                             \o (IF s \in {f, b} THEN << >> ELSE <<s>>)
  OBVIOUS
<1>5. 1 \in DOMAIN ids /\ ids[1] = f /\ \A i \in DOMAIN ids : ids[i] \in S
  <2>1. PICK x, y, z : /\ x = <<f>>
                       /\ y = IF b = f THEN << >> ELSE <<b>>
                       /\ z = IF s \in {f, b} THEN << >> ELSE <<s>>
    OBVIOUS
  <2>2. x \in Seq(S) /\ y \in Seq(S) /\ z \in Seq(S) /\ Len(x) = 1 /\ x[1] = f
    BY <1>3, <2>1
  <2>3. PICK v : v = x \o y
    OBVIOUS
  <2>4. v \in Seq(S) /\ Len(v) = 1 + Len(y) /\ Len(y) \in Nat /\ Len(z) \in Nat
    <3>1. x \o y \in Seq(S) /\ Len(x \o y) = Len(x) + Len(y)
      BY <2>2, ConcatProperties
    <3>2. Len(y) \in Nat /\ Len(z) \in Nat
      BY <2>2
    <3> QED BY <2>2, <2>3, <3>1, <3>2
  <2>5. 1 \in 1..Len(v)
    BY <2>4
  <2>6. v[1] = f
    BY <2>2, <2>3, <2>4, <2>5, ConcatProperties
  <2>7. ids = v \o z
    BY <1>4, <2>1, <2>3
  <2>8. ids \in Seq(S) /\ Len(ids) = Len(v) + Len(z)
    BY <2>2, <2>4, <2>7, ConcatProperties
  <2>9. 1 \in 1..Len(ids) /\ 1 <= Len(v)
    BY <2>4, <2>8
  <2>10. ids[1] = v[1]
    BY <2>2, <2>4, <2>7, <2>8, <2>9, ConcatProperties
  <2> QED BY <2>6, <2>8, <2>9, <2>10
<1>6. q = [i \in DOMAIN ids |-> [id |-> ids[i], roles |-> {r \in DOMAIN best : best[r] = ids[i]}]]
  BY <1>1, <1>2, <1>4 DEF ByRole
<1> QED BY <1>3, <1>5, <1>6

\* A portfolio's are candidates, the best of all of them first.
LEMMA ByApproachIs ==
    ASSUME ChoiceConstants, ChoiceInv, NEW S \in SUBSET DOMAIN runs, S # {},
           NEW q, q = ByApproach(S, RankingKeys)
    PROVE  /\ \A i \in DOMAIN q : q[i].id \in S
           /\ DOMAIN q # {} => q[1].id = Best(S, RankingKeys, "balanced")
<1>1. PICK L : L = Leaders(S, RankingKeys)
  OBVIOUS
<1>2. L \in SUBSET S /\ L \in SUBSET DOMAIN runs
  BY <1>1 DEF Leaders
<1>3. PICK K : K = [x \in DOMAIN runs |-> RankingKeys[x]["balanced"]]
  OBVIOUS
<1>4. IsFiniteSet(L)
  BY <1>2, <1>3, KeysOrdered
<1>5. PICK m : m = Cardinality(L)
  OBVIOUS
<1>6. m \in Nat
  BY <1>4, <1>5, FS_CardinalityType
<1>7. PICK h : h = Min({4, m})
  OBVIOUS
<1>8. h \in Nat /\ h <= m
  <2>1. \E x \in {4, m} : \A y \in {4, m} : x <= y
    BY <1>6
  <2>2. h \in {4, m} /\ \A y \in {4, m} : h <= y
    BY <1>7, <2>1 DEF Min
  <2> QED BY <1>6, <2>2
<1>9. /\ DOMAIN q = 1..h
      /\ \A i \in 1..h : q[i].id = Ranked(i - 1, L, RankingKeys)
  BY <1>1, <1>5, <1>7 DEF ByApproach
<1>10. ASSUME NEW i \in 1..h
       PROVE  /\ Ranked(i - 1, L, RankingKeys) \in L
              /\ Cardinality(Ahead(Ranked(i - 1, L, RankingKeys), L, RankingKeys)) = i - 1
  <2>1. i - 1 \in Nat /\ i - 1 < Cardinality(L)
    BY <1>5, <1>6, <1>8
  <2> QED BY <1>2, <2>1, RankedIs
<1>11. ASSUME DOMAIN q # {} PROVE q[1].id = Best(S, RankingKeys, "balanced")
  <2>1. 1 \in 1..h
    BY <1>8, <1>9, <1>11
  <2>2. PICK c : c = Ranked(1 - 1, L, RankingKeys)
    OBVIOUS
  <2>3. c \in L /\ Cardinality(Ahead(c, L, RankingKeys)) = 0 /\ q[1].id = c
    <3>1. 1 - 1 = 0
      OBVIOUS
    <3> QED BY <1>9, <1>10, <2>1, <2>2, <3>1
  <2>4. Ahead(c, L, RankingKeys) = {}
    <3>1. IsFiniteSet(Ahead(c, L, RankingKeys))
      BY <1>4, FS_Subset DEF Ahead
    <3> QED BY <2>3, <3>1, FS_EmptySet
  <2>5. PICK b : b = Best(S, RankingKeys, "balanced")
    OBVIOUS
  <2>6. b \in S /\ \A d \in S \ {b} : KeyLess(RankingKeys[b]["balanced"], RankingKeys[d]["balanced"])
    BY <2>5, FirstIs
  <2>7. b \in L
    <3>1. ASSUME NEW d \in S PROVE ~KeyLess(RankingKeys[d]["balanced"], RankingKeys[b]["balanced"])
      <4>1. PICK n : n = RoleLength("balanced")
        OBVIOUS
      <4>2. n \in Nat /\ RankingKeys[d]["balanced"] \in Key(n) /\ RankingKeys[b]["balanced"] \in Key(n)
        BY <2>6, <4>1, KeysAre DEF Ends
      <4> QED BY <2>6, <4>2, KeyAsym
    <3> QED BY <1>1, <2>6, <3>1 DEF Leaders
  <2>8. ASSUME b # c PROVE FALSE
    <3>1. KeyLess(RankingKeys[b]["balanced"], RankingKeys[c]["balanced"])
      BY <1>2, <2>3, <2>6, <2>8
    <3> QED BY <2>4, <2>7, <3>1 DEF Ahead
  <2> QED BY <2>3, <2>5, <2>8
<1> QED BY <1>2, <1>9, <1>10, <1>11

\* What is chosen was kept, and the first of it is the first of all that was kept.
LEMMA ChosenIs ==
    ASSUME ChoiceConstants, ChoiceInv
    PROVE  \A c \in Chosen : /\ c \in Different
                             /\ c = chosen[1].id => \A d \in Different \ {c} :
                                    KeyLess(RankingKeys[c][FirstRole], RankingKeys[d][FirstRole])
<1> SUFFICES ASSUME NEW c \in Chosen
             PROVE  /\ c \in Different
                    /\ c = chosen[1].id => \A d \in Different \ {c} :
                           KeyLess(RankingKeys[c][FirstRole], RankingKeys[d][FirstRole])
  OBVIOUS
<1>1. PICK S : S = Different
  OBVIOUS
<1>2. chosen = Published(S, RankingKeys) /\ \E i \in DOMAIN chosen : c = chosen[i].id
  BY <1>1 DEF Chosen, ChoiceInv
<1>3. S \in SUBSET DOMAIN runs /\ S # {}
  BY <1>1, <1>2, DifferentIs DEF Published
<1>4. CASE setting.scope = "portfolio"
  <2>1. chosen = ByApproach(S, RankingKeys)
    BY <1>2, <1>3, <1>4 DEF Published
  <2>2. c \in S /\ (c = chosen[1].id => c = Best(S, RankingKeys, "balanced"))
    BY <1>2, <1>3, <2>1, ByApproachIs
  <2>3. \A d \in S \ {Best(S, RankingKeys, "balanced")} :
           KeyLess(RankingKeys[Best(S, RankingKeys, "balanced")]["balanced"], RankingKeys[d]["balanced"])
    BY <1>3, FirstIs
  <2> QED BY <1>1, <1>4, <2>2, <2>3 DEF FirstRole
<1>5. CASE setting.scope # "portfolio"
  <2>1. chosen = ByRole(S, RankingKeys)
    BY <1>2, <1>3, <1>5 DEF Published
  <2>2. c \in S /\ (c = chosen[1].id => c = Best(S, RankingKeys, "fast"))
    BY <1>2, <1>3, <2>1, FirstIs, ByRoleIs
  <2>3. \A d \in S \ {Best(S, RankingKeys, "fast")} :
           KeyLess(RankingKeys[Best(S, RankingKeys, "fast")]["fast"], RankingKeys[d]["fast"])
    BY <1>3, FirstIs
  <2> QED BY <1>1, <1>5, <2>2, <2>3 DEF FirstRole
<1> QED BY <1>4, <1>5

-----------------------------------------------------------------------------
\* A project that is not worse has as many samples on time, and all finished if they were.
LEMMA NotWorse ==
    ASSUME ChoiceConstants, setting \in Settings, NEW p \in Projects,
           NEW f, NEW b, Says(f, b, p), NEW g, NEW a, Says(g, a, p), ~Worse(b, a)
    PROVE  /\ OnTime(g, p) >= OnTime(f, p)
           /\ Finished(f, p) => Finished(g, p) /\ a.delay \in Int /\ b.delay \in Int
<1>1. HorizonEnd \in Int /\ Due(p) \in Int /\ Samples \in Nat
  BY DEF ChoiceConstants, Due
<1>2. a.unfinished \in Nat /\ a.unknown \in Nat /\ a.late \in Nat
      /\ b.unfinished \in Nat /\ b.unknown \in Nat /\ b.late \in Nat
  BY DEF Says, IsOutcome
<1>3. a.unknown <= b.unknown /\ a.unfinished <= b.unfinished /\ ~(a.unknown = b.unknown /\ a.late > b.late)
  BY <1>2 DEF Worse
<1>4. OnTime(g, p) >= OnTime(f, p)
  <2>1. CASE HorizonEnd < Due(p)
    BY <1>1, <1>2, <1>3, <2>1 DEF Says
  <2>2. CASE ~(HorizonEnd < Due(p))
    BY <1>1, <1>2, <1>3, <2>2 DEF Says
  <2> QED BY <2>1, <2>2
<1>5. ASSUME Finished(f, p) PROVE Finished(g, p) /\ a.delay \in Int /\ b.delay \in Int
  <2>1. b.unfinished = 0 /\ a.unfinished = 0
    BY <1>2, <1>3, <1>5 DEF Says
  <2> QED BY <2>1 DEF Says, IsOutcome
<1> QED BY <1>4, <1>5

\* Candidates with the same outcomes are as good, the samples that are unknown included.
LEMMA SameHeadline ==
    ASSUME ChoiceConstants, ChoiceInv, NEW c \in DOMAIN runs, NEW d \in DOMAIN runs,
           Signature(c) = Signature(d)
    PROVE  HeadlineKey(c) = HeadlineKey(d)
<1>1. PICK a, b : a = After(c) /\ b = After(d)
  OBVIOUS
<1>2. ASSUME NEW p \in Projects
      PROVE  /\ a[p].unfinished = b[p].unfinished /\ a[p].unknown = b[p].unknown
             /\ a[p].risk = b[p].risk /\ a[p].delay = b[p].delay
             /\ a[p]["risk"] = b[p]["risk"] /\ a[p]["delay"] = b[p]["delay"]
  <2>1. Signature(c)[p] = <<a[p].p50, a[p].risk, a[p].delay, a[p].unfinished>>
    BY <1>1 DEF Signature
  <2>2. Signature(d)[p] = <<b[p].p50, b[p].risk, b[p].delay, b[p].unfinished>>
    BY <1>1 DEF Signature
  <2>3. a[p].unfinished = b[p].unfinished /\ a[p].risk = b[p].risk /\ a[p].delay = b[p].delay
    BY <2>1, <2>2
  <2>4. Says(runs[c].finishes, a[p], p) /\ Says(runs[d].finishes, b[p], p)
    BY <1>1, RunIs
  <2> QED BY <2>3, <2>4 DEF Says
<1>3. ASSUME NEW x \in {"risk", "delay"} PROVE Weighted(Weights, a, x) = Weighted(Weights, b, x)
  <2>1. \A p \in Projects : a[p][x] = b[p][x] /\ a[p].unknown = b[p].unknown
    BY <1>2
  <2> QED BY <2>1 DEF Weighted
<1>4. PortfolioKey(Weights, a) = PortfolioKey(Weights, b)
  BY <1>2, <1>3 DEF PortfolioKey
<1>5. setting.focus \in Projects
  BY DEF ChoiceInv, ChoiceConstants
<1> QED BY <1>1, <1>2, <1>4, <1>5 DEF HeadlineKey

\* The keys of the first role begin with the outcomes.
LEMMA HeadlineIs ==
    ASSUME ChoiceConstants, ChoiceInv, NEW c \in DOMAIN runs, NEW d \in DOMAIN runs,
           KeyLess(HeadlineKey(c), HeadlineKey(d))
    PROVE  KeyLess(RankingKeys[c][FirstRole], RankingKeys[d][FirstRole]) /\ c # d
<1>1. /\ RankingKeys[c].fast = FastKey(c) /\ RankingKeys[c].balanced = BalancedKey(c)
      /\ RankingKeys[d].fast = FastKey(d) /\ RankingKeys[d].balanced = BalancedKey(d)
  BY DEF RankingKeys
<1>2. PICK k, l : k = HeadlineKey(c) /\ l = HeadlineKey(d)
  OBVIOUS
<1>3. PICK x, y : x = RankingKeys[c][FirstRole] /\ y = RankingKeys[d][FirstRole]
  OBVIOUS
<1>4. CASE setting.scope = "portfolio"
  <2>1. k = PortfolioKey(Weights, After(c)) /\ l = PortfolioKey(Weights, After(d))
    BY <1>2, <1>4 DEF HeadlineKey
  <2>2. x = BalancedKey(c) /\ y = BalancedKey(d)
    BY <1>1, <1>3, <1>4 DEF FirstRole
  <2>3. k \in Key(6) /\ l \in Key(6) /\ x \in Key(6 + 10) /\ y \in Key(6 + 10)
    <3>1. 6 + 10 = 16
      OBVIOUS
    <3> QED BY <1>4, <2>1, <2>2, <3>1, BalancedKeyIs DEF Ends, BalancedLength
  <2>4. Begins(x, 6, k) /\ Begins(y, 6, l)
    BY <1>4, <2>1, <2>2, BalancedKeyIs DEF Begins
  <2>5. KeyLess(k, l) /\ 6 \in Nat /\ 10 \in Nat
    BY <1>2
  <2>6. KeyLess(x, y)
    BY <2>3, <2>4, <2>5, KeyPrefix, Zenon
  <2>7. k # l
    BY <2>3, <2>5, KeyAsym
  <2> QED BY <1>2, <1>3, <2>6, <2>7
<1>5. CASE setting.scope # "portfolio"
  <2>1. k = FocusKey(c) /\ l = FocusKey(d)
    BY <1>2, <1>5 DEF HeadlineKey, FocusKey
  <2>2. x = FastKey(c) /\ y = FastKey(d)
    BY <1>1, <1>3, <1>5 DEF FirstRole
  <2>3. k \in Key(4) /\ l \in Key(4) /\ x \in Key(4 + 6) /\ y \in Key(4 + 6)
    <3>1. 4 + 6 = 10
      OBVIOUS
    <3> QED BY <2>1, <2>2, <3>1, FastKeyIs DEF Ends
  <2>4. Begins(x, 4, k) /\ Begins(y, 4, l)
    BY <2>1, <2>2, FastKeyIs DEF Begins
  <2>5. KeyLess(k, l) /\ 4 \in Nat /\ 6 \in Nat
    BY <1>2
  <2>6. KeyLess(x, y)
    BY <2>3, <2>4, <2>5, KeyPrefix, Zenon
  <2>7. k # l
    BY <2>3, <2>5, KeyAsym
  <2> QED BY <1>2, <1>3, <2>6, <2>7
<1> QED BY <1>4, <1>5

\* What is published was chosen from all that was run, with its outcomes and guardrails.
LEMMA SoundFromInv == ASSUME ChoiceConstants, ChoiceInv PROVE ChoiceIsSound
<1>1. \A c \in Chosen : c \in Different /\ c \in Beneficial /\ c \in DOMAIN runs
  BY ChosenIs, DifferentIs
<1>2. setting \in Settings /\ setting.protected \in SUBSET Projects /\ Nil \notin Int
  BY DEF ChoiceInv, ChoiceConstants
<1>3. ASSUME NEW c \in Chosen, NEW p \in Projects, setting.scope = "portfolio" => p \in setting.protected
      PROVE  /\ Says(base.finishes, Before[p], p) /\ Says(runs[c].finishes, After(c)[p], p)
             /\ ~Worse(Before[p], After(c)[p])
  <2>1. Improves(c) /\ c \in DOMAIN runs
    BY <1>1 DEF Beneficial
  <2>2. ~Worse(Before[p], After(c)[p])
    BY <1>3, <2>1 DEF Improves
  <2> QED BY <2>1, <2>2, BaseIs, RunIs
<1>4. NobodyLosesTime
  <2> SUFFICES ASSUME NEW c \in Chosen,
                      NEW p \in (IF setting.scope = "project" THEN Projects ELSE setting.protected)
               PROVE  OnTime(runs[c].finishes, p) >= OnTime(base.finishes, p)
    BY DEF NobodyLosesTime
  <2>1. p \in Projects /\ (setting.scope = "portfolio" => p \in setting.protected)
    BY <1>2
  <2> QED BY <1>2, <1>3, <2>1, NotWorse
<1>5. ProtectedKept
  <2> SUFFICES ASSUME NEW c \in Chosen, NEW p \in setting.protected, Finished(base.finishes, p)
               PROVE  Finished(runs[c].finishes, p) /\ After(c)[p].delay <= Before[p].delay
    BY DEF ProtectedKept
  <2>1. p \in Projects
    BY <1>2
  <2>2. Finished(runs[c].finishes, p) /\ After(c)[p].delay \in Int /\ Before[p].delay \in Int
    BY <1>2, <1>3, <2>1, NotWorse
  <2>3. Guarded(After(c), runs[c].cost)
    BY <1>1, RunIs DEF Beneficial
  <2>4. DelayGrowth(Before[p], After(c)[p]) <= 0
    BY <2>3 DEF Guarded
  <2> QED BY <1>2, <2>2, <2>4 DEF DelayGrowth
<1>6. BestIsFirst
  <2> SUFFICES ASSUME NEW c \in Chosen, c = chosen[1].id, NEW d \in Beneficial,
                      KeyLess(HeadlineKey(d), HeadlineKey(c))
               PROVE  FALSE
    BY DEF BestIsFirst
  <2>1. PICK e \in Different : Signature(e) = Signature(d)
    BY DifferentIs
  <2>2. c \in DOMAIN runs /\ d \in DOMAIN runs /\ e \in DOMAIN runs
    BY <1>1, DifferentIs
  <2>3. HeadlineKey(e) = HeadlineKey(d)
    BY <2>1, <2>2, SameHeadline
  <2>4. KeyLess(RankingKeys[e][FirstRole], RankingKeys[c][FirstRole]) /\ e # c
    BY <2>2, <2>3, HeadlineIs
  <2>5. KeyLess(RankingKeys[c][FirstRole], RankingKeys[e][FirstRole])
    BY <2>4, ChosenIs
  <2>6. FirstRole \in {"fast", "balanced", "safe"}
    BY DEF FirstRole
  <2>7. PICK n : n = RoleLength(FirstRole)
    OBVIOUS
  <2>8. n \in Nat /\ RankingKeys[e][FirstRole] \in Key(n) /\ RankingKeys[c][FirstRole] \in Key(n)
    BY <2>2, <2>6, <2>7, KeysAre DEF Ends
  <2> QED BY <2>4, <2>5, <2>8, KeyAsym
<1> QED BY <1>4, <1>5, <1>6 DEF ChoiceIsSound

\* The state of the choice is as described, whatever is run and however it ends.
THEOREM ChoiceIsFromRuns == ASSUME ChoiceConstants PROVE ChoiceSpec => []ChoiceInv
<1>1. ChoiceInit => ChoiceInv
  BY InitChoiceInv
<1>2. ChoiceInv /\ [ChoiceNext]_choiceVars => ChoiceInv'
  BY NextChoiceInv
<1> QED BY <1>1, <1>2, PTL DEF ChoiceSpec

\* A published strategy costs nobody time, nor a protected project its end, and the first
\* is the best of all that help: for any projects, samples, horizon, finishes, costs and
\* settings.
THEOREM ChoiceIsAlwaysSound == ASSUME ChoiceConstants PROVE ChoiceSpec => []ChoiceIsSound
<1>1. ChoiceInv => ChoiceIsSound
  BY SoundFromInv
<1> QED BY <1>1, ChoiceIsFromRuns, PTL
=============================================================================
