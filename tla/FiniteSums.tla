------------------------------ MODULE FiniteSums ------------------------------
(***************************************************************************)
(* The sum of a function over a finite set, as MapThenSumSet computes it:   *)
(* what a total of the reports, or the equity an employee was granted, is   *)
(* made of.  The library's induction theorems cannot be used here, so each  *)
(* induction on the size of a set is one over a set of numbers, by the      *)
(* least number outside it (Numbers).                                       *)
(***************************************************************************)
EXTENDS Integers, FiniteSetsExt, FiniteSetTheorems, WellFoundedInduction, TLAPS

\* The element a fold takes next.
Pick(s) == CHOOSE x \in s : TRUE

\* A set of numbers that holds zero and every successor holds them all.
LEMMA Numbers ==
  ASSUME NEW N, 0 \in N, \A n \in Nat : n \in N => n + 1 \in N
  PROVE  Nat \subseteq N
<1> SUFFICES ASSUME Nat \ N # {} PROVE FALSE
  OBVIOUS
<1>1. PICK n \in Nat \ N : \A m \in Nat \ N : ~ (<<m, n>> \in OpToRel(<, Nat))
  <2>1. Nat \ N \subseteq Nat
    OBVIOUS
  <2> QED BY <2>1, NatLessThanWellFounded, WFMin, Zenon
<1>2. n # 0 /\ n - 1 \in Nat
  OBVIOUS
<1>3. <<n - 1, n>> \in OpToRel(<, Nat)
  BY <1>2 DEF OpToRel
<1>4. n - 1 \in N
  BY <1>1, <1>2, <1>3
<1> QED BY <1>2, <1>4

\* A family of subsets of a finite set that is closed under adding an element.
LEMMA Subsets ==
  ASSUME NEW S, IsFiniteSet(S), NEW Q, {} \in Q,
         \A T \in SUBSET S, x \in S : T \in Q /\ x \notin T => T \cup {x} \in Q
  PROVE  \A T \in SUBSET S : T \in Q
<1> DEFINE N == { n \in Nat : \A T \in SUBSET S : Cardinality(T) = n => T \in Q }
<1>1. \A T \in SUBSET S : IsFiniteSet(T) /\ Cardinality(T) \in Nat
  BY FS_Subset, FS_CardinalityType
<1>2. 0 \in N
  BY <1>1, FS_EmptySet
<1>3. ASSUME NEW n \in Nat, n \in N PROVE n + 1 \in N
  <2> SUFFICES ASSUME NEW T \in SUBSET S, Cardinality(T) = n + 1 PROVE T \in Q
    OBVIOUS
  <2>1. PICK x : x \in T
    BY <1>1, FS_EmptySet
  <2>2. IsFiniteSet(T)
    BY <1>1
  <2>3. Cardinality(T \ {x}) = n
    <3>1. Cardinality(T \ {x}) = Cardinality(T) - 1
      BY <2>1, <2>2, FS_RemoveElement
    <3> QED BY <3>1
  <2>4. T \ {x} \in Q
    BY <1>3, <2>3
  <2>5. PICK U : U = T \ {x}
    OBVIOUS
  <2>6. x \in S /\ U \in SUBSET S /\ x \notin U /\ U \in Q /\ T = U \cup {x}
    BY <2>1, <2>4, <2>5
  <2> QED BY <2>6, Zenon
<1>4. Nat \subseteq N
  <2> HIDE DEF N
  <2> QED BY <1>2, <1>3, Numbers
<1> QED BY <1>1, <1>4

\* The sum of a function over a set, as the model's folds compute it.
SumOf(w, S) == MapThenSumSet(LAMBDA x : w[x], S)

\* The partial sums such a fold goes through.
Partial(w, S, it) ==
  it = [s \in SUBSET S |-> IF s = {} THEN 0 ELSE w[Pick(s)] + it[s \ {Pick(s)}]]

LEMMA SumIsPartial ==
  ASSUME NEW w, NEW S
  PROVE  SumOf(w, S) = (CHOOSE it : Partial(w, S, it))[S]
BY DEF SumOf, MapThenSumSet, MapThenFoldSet, Partial, Pick

LEMMA PartialExists ==
  ASSUME NEW w, NEW S, IsFiniteSet(S)
  PROVE  \E it : Partial(w, S, it)
<1> DEFINE Small(n) == { s \in SUBSET S : Cardinality(s) <= n }
           Upto(n, f) == f = [s \in Small(n) |-> IF s = {} THEN 0 ELSE w[Pick(s)] + f[s \ {Pick(s)}]]
           N == { n \in Nat : \E f : Upto(n, f) }
<1>1. \A s \in SUBSET S : IsFiniteSet(s) /\ Cardinality(s) \in Nat /\ Cardinality(s) <= Cardinality(S)
  BY FS_Subset, FS_CardinalityType
<1>2. Small(0) = {{}}
  BY <1>1, FS_EmptySet
<1>3. Upto(0, [s \in {{}} |-> 0])
  BY <1>2
<1>4. 0 \in N
  BY <1>3
<1>5. ASSUME NEW n \in Nat, n \in N PROVE n + 1 \in N
  <2>1. PICK f : Upto(n, f)
    BY <1>5
  <2> DEFINE g == [s \in Small(n + 1) |-> IF s = {} THEN 0 ELSE w[Pick(s)] + f[s \ {Pick(s)}]]
  <2>2. ASSUME NEW s \in Small(n) PROVE s \in Small(n + 1) /\ f[s] = g[s]
    <3>1. s \in Small(n + 1)
      BY <1>1
    <3> HIDE DEF Small
    <3>2. f[s] = IF s = {} THEN 0 ELSE w[Pick(s)] + f[s \ {Pick(s)}]
      BY <2>1
    <3>3. g[s] = IF s = {} THEN 0 ELSE w[Pick(s)] + f[s \ {Pick(s)}]
      BY <3>1
    <3> QED BY <3>1, <3>2, <3>3
  <2>3. ASSUME NEW s \in Small(n + 1), s # {} PROVE g[s] = w[Pick(s)] + g[s \ {Pick(s)}]
    <3>1. Pick(s) \in s
      BY <2>3 DEF Pick
    <3>2. IsFiniteSet(s) /\ s \in SUBSET S
      BY <1>1
    <3>3. Cardinality(s \ {Pick(s)}) = Cardinality(s) - 1
      BY <3>1, <3>2, FS_RemoveElement
    <3>4. s \ {Pick(s)} \in Small(n)
      BY <1>1, <3>2, <3>3
    <3>5. f[s \ {Pick(s)}] = g[s \ {Pick(s)}]
      BY <2>2, <3>4, Zenon
    <3> QED BY <2>3, <3>5
  <2>4. \A s \in Small(n + 1) : g[s] = IF s = {} THEN 0 ELSE w[Pick(s)] + g[s \ {Pick(s)}]
    BY <2>3
  <2>5. g = [s \in Small(n + 1) |-> g[s]]
    OBVIOUS
  <2>6. PICK h : h = g
    OBVIOUS
  <2> HIDE DEF g, Small
  <2>7. h = [s \in Small(n + 1) |-> h[s]]
    BY <2>5, <2>6
  <2>8. \A s \in Small(n + 1) : h[s] = IF s = {} THEN 0 ELSE w[Pick(s)] + h[s \ {Pick(s)}]
    BY <2>4, <2>6
  <2>9. Upto(n + 1, h)
    BY <2>7, <2>8
  <2>10. \E k : Upto(n + 1, k)
    BY <2>9
  <2> HIDE DEF Upto
  <2> QED BY <2>10
<1>6. Nat \subseteq N
  <2> HIDE DEF N
  <2> QED BY <1>4, <1>5, Numbers
<1>7. Cardinality(S) \in Nat
  BY FS_CardinalityType
<1>8. Small(Cardinality(S)) = SUBSET S
  BY <1>1
<1>9. PICK f : Upto(Cardinality(S), f)
  BY <1>6, <1>7
<1> QED BY <1>8, <1>9 DEF Partial

\* Two such partial sums agree on every set both of them know.
LEMMA PartialUnique ==
  ASSUME NEW w, NEW S, IsFiniteSet(S), NEW T \in SUBSET S, NEW f, NEW g,
         Partial(w, S, f), Partial(w, T, g)
  PROVE  f[T] = g[T]
<1> DEFINE N == { n \in Nat : \A s \in SUBSET T : Cardinality(s) = n => f[s] = g[s] }
<1>1. \A s \in SUBSET S : IsFiniteSet(s) /\ Cardinality(s) \in Nat
  BY FS_Subset, FS_CardinalityType
<1>2. \A s \in SUBSET S : f[s] = IF s = {} THEN 0 ELSE w[Pick(s)] + f[s \ {Pick(s)}]
  BY DEF Partial
<1>3. \A s \in SUBSET T : g[s] = IF s = {} THEN 0 ELSE w[Pick(s)] + g[s \ {Pick(s)}]
  BY DEF Partial
<1>4. 0 \in N
  <2> SUFFICES ASSUME NEW s \in SUBSET T, Cardinality(s) = 0 PROVE f[s] = g[s]
    OBVIOUS
  <2>1. s = {} /\ s \in SUBSET S
    BY <1>1, FS_EmptySet
  <2> QED BY <2>1, <1>2, <1>3
<1>5. ASSUME NEW n \in Nat, n \in N PROVE n + 1 \in N
  <2> SUFFICES ASSUME NEW s \in SUBSET T, Cardinality(s) = n + 1 PROVE f[s] = g[s]
    OBVIOUS
  <2>1. s \in SUBSET S /\ IsFiniteSet(s)
    BY <1>1
  <2>2. s # {}
    BY FS_EmptySet
  <2>3. Pick(s) \in s
    BY <2>2 DEF Pick
  <2>4. PICK r : r = s \ {Pick(s)}
    OBVIOUS
  <2>5. Cardinality(r) = Cardinality(s) - 1
    BY <2>1, <2>3, <2>4, FS_RemoveElement
  <2>6. r \in SUBSET T /\ Cardinality(r) = n
    BY <2>4, <2>5
  <2>7. f[r] = g[r]
    BY <1>5, <2>6
  <2>8. f[s] = w[Pick(s)] + f[r] /\ g[s] = w[Pick(s)] + g[r]
    BY <1>2, <1>3, <2>1, <2>2, <2>4
  <2> QED BY <2>7, <2>8
<1>6. Nat \subseteq N
  <2> HIDE DEF N
  <2> QED BY <1>4, <1>5, Numbers
<1> QED BY <1>1, <1>6

\* A fold that goes through these partial sums is this sum, however it is written.
LEMMA PartialSum ==
  ASSUME NEW w, NEW S, IsFiniteSet(S), NEW T \in SUBSET S, NEW f, Partial(w, S, f)
  PROVE  f[T] = SumOf(w, T)
<1>1. IsFiniteSet(T)
  BY FS_Subset
<1>2. PICK g : g = CHOOSE it : Partial(w, T, it)
  OBVIOUS
<1>3. Partial(w, T, g)
  BY <1>1, <1>2, PartialExists
<1> QED BY <1>2, <1>3, PartialUnique, SumIsPartial

LEMMA SumStep ==
  ASSUME NEW w, NEW S, IsFiniteSet(S)
  PROVE  SumOf(w, S) = IF S = {} THEN 0 ELSE w[Pick(S)] + SumOf(w, S \ {Pick(S)})
<1>1. PICK f : Partial(w, S, f)
  BY PartialExists
<1>2. f[S] = IF S = {} THEN 0 ELSE w[Pick(S)] + f[S \ {Pick(S)}]
  BY <1>1 DEF Partial
<1>3. f[S] = SumOf(w, S) /\ f[S \ {Pick(S)}] = SumOf(w, S \ {Pick(S)})
  BY <1>1, PartialSum
<1> QED BY <1>2, <1>3

\* The sum of integers is one.
LEMMA SumInt ==
  ASSUME NEW w, NEW S, IsFiniteSet(S), \A x \in S : w[x] \in Int
  PROVE  SumOf(w, S) \in Int
<1> DEFINE N == { n \in Nat : \A s \in SUBSET S : Cardinality(s) = n => SumOf(w, s) \in Int }
<1>1. \A s \in SUBSET S : IsFiniteSet(s) /\ Cardinality(s) \in Nat
  BY FS_Subset, FS_CardinalityType
<1>2. 0 \in N
  <2> SUFFICES ASSUME NEW s \in SUBSET S, Cardinality(s) = 0 PROVE SumOf(w, s) \in Int
    OBVIOUS
  <2>1. s = {} /\ IsFiniteSet(s)
    BY <1>1, FS_EmptySet
  <2>2. SumOf(w, s) = 0
    BY <2>1, SumStep
  <2> QED BY <2>2
<1>3. ASSUME NEW n \in Nat, n \in N PROVE n + 1 \in N
  <2> SUFFICES ASSUME NEW s \in SUBSET S, Cardinality(s) = n + 1 PROVE SumOf(w, s) \in Int
    OBVIOUS
  <2>1. IsFiniteSet(s) /\ s # {}
    BY <1>1, FS_EmptySet
  <2>2. PICK p : p = Pick(s)
    OBVIOUS
  <2>3. p \in s
    BY <2>1, <2>2 DEF Pick
  <2>4. PICK r : r = s \ {p}
    OBVIOUS
  <2>5. Cardinality(r) = Cardinality(s) - 1
    BY <2>1, <2>3, <2>4, FS_RemoveElement
  <2>6. SumOf(w, r) \in Int
    BY <1>3, <2>4, <2>5
  <2>7. SumOf(w, s) = w[p] + SumOf(w, r)
    BY <2>1, <2>2, <2>4, SumStep
  <2> QED BY <2>3, <2>6, <2>7
<1>4. Nat \subseteq N
  <2> HIDE DEF N
  <2> QED BY <1>2, <1>3, Numbers
<1> QED BY <1>1, <1>4

\* Any element may be taken out first.
LEMMA SumTake ==
  ASSUME NEW w, NEW S, IsFiniteSet(S), \A x \in S : w[x] \in Int
  PROVE  \A x \in S : SumOf(w, S) = w[x] + SumOf(w, S \ {x})
<1> DEFINE OK(s) == \A x \in s : SumOf(w, s) = w[x] + SumOf(w, s \ {x})
           N == { n \in Nat : \A s \in SUBSET S : Cardinality(s) = n => OK(s) }
<1>1. \A s \in SUBSET S : IsFiniteSet(s) /\ Cardinality(s) \in Nat /\ SumOf(w, s) \in Int
  BY FS_Subset, FS_CardinalityType, SumInt
<1>2. 0 \in N
  BY <1>1, FS_EmptySet
<1>3. ASSUME NEW n \in Nat, n \in N PROVE n + 1 \in N
  <2> SUFFICES ASSUME NEW s \in SUBSET S, Cardinality(s) = n + 1, NEW x \in s
               PROVE  SumOf(w, s) = w[x] + SumOf(w, s \ {x})
    OBVIOUS
  <2>1. IsFiniteSet(s) /\ s # {}
    BY <1>1, FS_EmptySet
  <2>2. PICK p : p = Pick(s)
    OBVIOUS
  <2>3. p \in s
    BY <2>1, <2>2 DEF Pick
  <2>4. SumOf(w, s) = w[p] + SumOf(w, s \ {p})
    BY <2>1, <2>2, SumStep
  <2>5. ASSUME NEW y \in s, NEW z \in s \ {y}
        PROVE  SumOf(w, s \ {y}) = w[z] + SumOf(w, (s \ {y}) \ {z})
    <3>1. PICK r : r = s \ {y}
      OBVIOUS
    <3>2. Cardinality(r) = Cardinality(s) - 1
      BY <2>1, <3>1, FS_RemoveElement
    <3>3. r \in SUBSET S /\ Cardinality(r) = n
      BY <3>1, <3>2
    <3>4. OK(r)
      BY <1>3, <3>3
    <3> QED BY <3>1, <3>4
  <2>6. CASE x # p
    <3>1. PICK rest : rest = SumOf(w, (s \ {x}) \ {p})
      OBVIOUS
    <3>2. (s \ {p}) \ {x} = (s \ {x}) \ {p}
      OBVIOUS
    <3>3. rest \in Int
      BY <1>1, <3>1
    <3>4. SumOf(w, s \ {p}) = w[x] + rest
      BY <2>3, <2>5, <2>6, <3>1, <3>2
    <3>5. SumOf(w, s \ {x}) = w[p] + rest
      BY <2>3, <2>5, <2>6, <3>1
    <3>6. w[x] \in Int /\ w[p] \in Int
      BY <2>3
    <3> QED BY <2>4, <3>3, <3>4, <3>5, <3>6
  <2> QED BY <2>4, <2>6
<1>4. Nat \subseteq N
  <2> HIDE DEF N
  <2> QED BY <1>2, <1>3, Numbers
<1> QED BY <1>1, <1>4

\* An element that is added adds its value.
LEMMA SumAdd ==
  ASSUME NEW w, NEW S, IsFiniteSet(S), NEW T \in SUBSET S, NEW x \in S \ T,
         \A y \in S : w[y] \in Int
  PROVE  /\ SumOf(w, T \cup {x}) = w[x] + SumOf(w, T)
         /\ SumOf(w, T) \in Int
<1>1. IsFiniteSet(T) /\ IsFiniteSet(T \cup {x})
  BY FS_Subset
<1>2. (T \cup {x}) \ {x} = T
  OBVIOUS
<1>3. SumOf(w, T \cup {x}) = w[x] + SumOf(w, (T \cup {x}) \ {x})
  <2>1. PICK U : U = T \cup {x}
    OBVIOUS
  <2>2. IsFiniteSet(U) /\ x \in U /\ \A y \in U : w[y] \in Int
    BY <1>1, <2>1
  <2> QED BY <2>1, <2>2, SumTake
<1>4. SumOf(w, T) \in Int
  BY <1>1, SumInt
<1> QED BY <1>2, <1>3, <1>4

\* Sums compare as their values do: u grows by no more than what v has in R.
LEMMA SumGrowth ==
  ASSUME NEW u, NEW w, NEW v, NEW S, IsFiniteSet(S), NEW R \in SUBSET S,
         \A x \in S : u[x] \in Int /\ w[x] \in Int /\ v[x] \in Int,
         \A x \in S : u[x] <= w[x] + (IF x \in R THEN v[x] ELSE 0)
  PROVE  SumOf(u, S) <= SumOf(w, S) + SumOf(v, R)
<1> DEFINE Q == { T \in SUBSET S : SumOf(u, T) <= SumOf(w, T) + SumOf(v, T \cap R) }
<1>1. {} \in Q
  <2>1. IsFiniteSet({}) /\ {} \cap R = {}
    BY FS_EmptySet
  <2>2. SumOf(u, {}) = 0 /\ SumOf(w, {}) = 0 /\ SumOf(v, {}) = 0
    BY <2>1, SumStep
  <2> QED BY <2>1, <2>2
<1>2. ASSUME NEW T \in SUBSET S, NEW x \in S, T \in Q, x \notin T PROVE T \cup {x} \in Q
  <2>1. SumOf(u, T \cup {x}) = u[x] + SumOf(u, T) /\ SumOf(u, T) \in Int
    BY <1>2, SumAdd
  <2>2. SumOf(w, T \cup {x}) = w[x] + SumOf(w, T) /\ SumOf(w, T) \in Int
    BY <1>2, SumAdd
  <2>3. T \cap R \in SUBSET S
    OBVIOUS
  <2>4. SumOf(v, T \cap R) \in Int
    <3>1. IsFiniteSet(T \cap R)
      BY <2>3, FS_Subset
    <3> QED BY <2>3, <3>1, SumInt
  <2>5. SumOf(u, T) <= SumOf(w, T) + SumOf(v, T \cap R)
    BY <1>2
  <2>6. \E k \in Int : /\ SumOf(v, (T \cup {x}) \cap R) = k + SumOf(v, T \cap R)
                       /\ u[x] <= w[x] + k
    <3>1. CASE x \in R
      <4>1. (T \cup {x}) \cap R = (T \cap R) \cup {x}
        BY <3>1
      <4>2. SumOf(v, (T \cap R) \cup {x}) = v[x] + SumOf(v, T \cap R)
        BY <1>2, <2>3, SumAdd
      <4>3. u[x] <= w[x] + v[x] /\ v[x] \in Int
        BY <3>1
      <4> QED BY <4>1, <4>2, <4>3
    <3>2. CASE x \notin R
      <4>1. (T \cup {x}) \cap R = T \cap R
        BY <3>2
      <4>2. u[x] <= w[x] + 0
        BY <3>2
      <4>3. SumOf(v, (T \cup {x}) \cap R) = SumOf(v, T \cap R)
        BY <4>1, Zenon
      <4>4. SumOf(v, (T \cup {x}) \cap R) = 0 + SumOf(v, T \cap R)
        BY <2>4, <4>3
      <4> QED BY <4>2, <4>4
    <3> QED BY <3>1, <3>2
  <2>7. PICK k \in Int : /\ SumOf(v, (T \cup {x}) \cap R) = k + SumOf(v, T \cap R)
                         /\ u[x] <= w[x] + k
    BY <2>6
  <2>8. PICK U : U = T \cup {x}
    OBVIOUS
  <2>9. PICK V : V = U \cap R
    OBVIOUS
  <2>10. PICK Y : Y = T \cap R
    OBVIOUS
  <2>11. SumOf(u, U) = u[x] + SumOf(u, T) /\ SumOf(w, U) = w[x] + SumOf(w, T)
    BY <2>1, <2>2, <2>8
  <2>12. SumOf(v, V) = k + SumOf(v, Y) /\ SumOf(v, Y) \in Int
    BY <2>4, <2>7, <2>8, <2>9, <2>10
  <2>13. SumOf(u, T) <= SumOf(w, T) + SumOf(v, Y)
    BY <2>5, <2>10
  <2>14. u[x] \in Int /\ w[x] \in Int
    OBVIOUS
  <2>15. SumOf(u, U) <= SumOf(w, U) + SumOf(v, V)
    BY <2>1, <2>2, <2>7, <2>11, <2>12, <2>13, <2>14
  <2> QED BY <2>8, <2>9, <2>15
<1>3. S \in Q
  <2> HIDE DEF Q
  <2> QED BY <1>1, <1>2, Subsets
<1>4. S \cap R = R
  OBVIOUS
<1> QED BY <1>3, <1>4

LEMMA SumEmpty == ASSUME NEW w PROVE SumOf(w, {}) = 0
<1>1. IsFiniteSet({})
  BY FS_EmptySet
<1> QED BY <1>1, SumStep

\* A sum of natural numbers is one, and zero when they all are.
LEMMA SumNat ==
  ASSUME NEW w, NEW S, IsFiniteSet(S), \A x \in S : w[x] \in Nat
  PROVE  /\ SumOf(w, S) \in Nat
         /\ (\A x \in S : w[x] = 0) => SumOf(w, S) = 0
<1> DEFINE Q == { T \in SUBSET S : /\ SumOf(w, T) \in Nat
                                   /\ (\A x \in T : w[x] = 0) => SumOf(w, T) = 0 }
<1>1. {} \in Q
  BY SumEmpty
<1>2. ASSUME NEW T \in SUBSET S, NEW x \in S, T \in Q, x \notin T PROVE T \cup {x} \in Q
  <2>1. SumOf(w, T \cup {x}) = w[x] + SumOf(w, T)
    BY <1>2, SumAdd
  <2>2. w[x] \in Nat /\ SumOf(w, T) \in Nat
    BY <1>2
  <2>3. SumOf(w, T \cup {x}) \in Nat
    BY <2>1, <2>2
  <2>4. ASSUME \A y \in T \cup {x} : w[y] = 0 PROVE SumOf(w, T \cup {x}) = 0
    <3>1. w[x] = 0 /\ SumOf(w, T) = 0
      BY <1>2, <2>4
    <3> QED BY <2>1, <3>1
  <2> QED BY <2>3, <2>4
<1>3. S \in Q
  <2> HIDE DEF Q
  <2> QED BY <1>1, <1>2, Subsets
<1> QED BY <1>3

\* Equal values, equal sums.
LEMMA SumEqual ==
  ASSUME NEW u, NEW w, NEW S, IsFiniteSet(S),
         \A x \in S : u[x] \in Int /\ w[x] = u[x]
  PROVE  SumOf(u, S) = SumOf(w, S)
<1>1. SumOf(u, {}) = 0
  BY SumEmpty
<1>2. \A x \in S : /\ u[x] \in Int /\ w[x] \in Int
                  /\ u[x] <= w[x] + (IF x \in {} THEN u[x] ELSE 0)
                  /\ w[x] <= u[x] + (IF x \in {} THEN u[x] ELSE 0)
  OBVIOUS
<1>3. /\ SumOf(u, S) <= SumOf(w, S) + SumOf(u, {})
      /\ SumOf(w, S) <= SumOf(u, S) + SumOf(u, {})
  <2>1. {} \in SUBSET S
    OBVIOUS
  <2> QED BY <1>2, <2>1, SumGrowth, Zenon
<1>4. SumOf(u, S) \in Int /\ SumOf(w, S) \in Int
  BY <1>2, SumInt
<1> QED BY <1>1, <1>3, <1>4

\* One value that grows by k makes the sum grow by k.
LEMMA SumBump ==
  ASSUME NEW u, NEW w, NEW D, IsFiniteSet(D), NEW d \in D, NEW k \in Int,
         \A x \in D : u[x] \in Int /\ w[x] = IF x = d THEN k + u[x] ELSE u[x]
  PROVE  SumOf(w, D) = k + SumOf(u, D)
<1>1. IsFiniteSet(D \ {d})
  BY FS_Subset
<1>2. SumOf(u, D \ {d}) = SumOf(w, D \ {d})
  <2>1. \A x \in D \ {d} : u[x] \in Int /\ w[x] = u[x]
    OBVIOUS
  <2> QED BY <1>1, <2>1, SumEqual
<1>3. \A x \in D : w[x] \in Int
  OBVIOUS
<1>4. SumOf(u, D) = u[d] + SumOf(u, D \ {d}) /\ SumOf(w, D) = w[d] + SumOf(w, D \ {d})
  BY <1>3, SumTake
<1>5. PICK m : m = SumOf(u, D \ {d})
  OBVIOUS
<1>6. m \in Int
  <2>1. \A x \in D \ {d} : u[x] \in Int
    OBVIOUS
  <2> QED BY <1>1, <1>5, <2>1, SumInt
<1>7. u[d] \in Int /\ w[d] = k + u[d]
  OBVIOUS
<1>8. SumOf(u, D) = u[d] + m /\ SumOf(w, D) = w[d] + m
  BY <1>2, <1>4, <1>5
<1> QED BY <1>6, <1>7, <1>8

\* A set that is split into classes is summed class by class.
LEMMA SumByClass ==
  ASSUME NEW w, NEW S, IsFiniteSet(S), NEW D, IsFiniteSet(D), NEW class,
         \A x \in S : w[x] \in Int /\ class[x] \in D
  PROVE  SumOf([d \in D |-> SumOf(w, { x \in S : class[x] = d })], D) = SumOf(w, S)
<1> DEFINE Of(T, d) == { x \in T : class[x] = d }
           Table(T) == [d \in D |-> SumOf(w, Of(T, d))]
           Q == { T \in SUBSET S : SumOf(Table(T), D) = SumOf(w, T) }
<1>1. \A T \in SUBSET S : /\ SumOf(w, T) \in Int
                          /\ \A d \in D : Table(T)[d] = SumOf(w, Of(T, d)) /\ Table(T)[d] \in Int
  <2>1. \A T \in SUBSET S : IsFiniteSet(T)
    BY FS_Subset
  <2>2. \A T \in SUBSET S : SumOf(w, T) \in Int
    BY <2>1, SumInt
  <2>3. \A T \in SUBSET S, d \in D : Of(T, d) \in SUBSET S
    OBVIOUS
  <2> QED BY <2>2, <2>3
<1>2. {} \in Q
  <2>1. \A d \in D : Of({}, d) = {}
    OBVIOUS
  <2>2. \A d \in D : Table({})[d] = 0
    BY <2>1, SumEmpty
  <2>3. SumOf(Table({}), D) = 0
    <3> HIDE DEF Table
    <3> QED BY <2>2, SumNat
  <2> QED BY <2>3, SumEmpty
<1>3. ASSUME NEW T \in SUBSET S, NEW x \in S, T \in Q, x \notin T PROVE T \cup {x} \in Q
  <2>1. PICK U : U = T \cup {x}
    OBVIOUS
  <2>2. U \in SUBSET S
    BY <2>1
  <2>3. \A d \in D : Table(U)[d] = IF d = class[x] THEN w[x] + Table(T)[d] ELSE Table(T)[d]
    <3> SUFFICES ASSUME NEW d \in D
                 PROVE  SumOf(w, Of(U, d)) =
                          IF d = class[x] THEN w[x] + SumOf(w, Of(T, d)) ELSE SumOf(w, Of(T, d))
      OBVIOUS
    <3>1. CASE d = class[x]
      <4>1. Of(U, d) = Of(T, d) \cup {x}
        BY <2>1, <3>1
      <4>2. Of(T, d) \in SUBSET S /\ x \in S \ Of(T, d)
        BY <1>3
      <4>3. SumOf(w, Of(T, d) \cup {x}) = w[x] + SumOf(w, Of(T, d))
        <5> HIDE DEF Of
        <5> QED BY <4>2, SumAdd
      <4>4. SumOf(w, Of(U, d)) = SumOf(w, Of(T, d) \cup {x})
        BY <4>1, Zenon
      <4> HIDE DEF Of
      <4> QED BY <3>1, <4>3, <4>4
    <3>2. CASE d # class[x]
      <4>1. Of(U, d) = Of(T, d)
        BY <2>1, <3>2
      <4> HIDE DEF Of
      <4> QED BY <3>2, <4>1
    <3> QED BY <3>1, <3>2
  <2>4. PICK t : t = Table(T)
    OBVIOUS
  <2>5. PICK v : v = Table(U)
    OBVIOUS
  <2>6. \A d \in D : t[d] \in Int /\ v[d] = IF d = class[x] THEN w[x] + t[d] ELSE t[d]
    <3> HIDE DEF Table
    <3> QED BY <1>1, <2>3, <2>4, <2>5
  <2>7. class[x] \in D /\ w[x] \in Int
    OBVIOUS
  <2>8. SumOf(v, D) = w[x] + SumOf(t, D)
    BY <2>6, <2>7, SumBump
  <2>9. SumOf(w, U) = w[x] + SumOf(w, T)
    BY <1>3, <2>1, SumAdd
  <2>10. SumOf(t, D) = SumOf(w, T)
    BY <1>3, <2>4
  <2>11. SumOf(Table(U), D) = SumOf(w, U)
    <3> HIDE DEF Table
    <3> QED BY <2>5, <2>8, <2>9, <2>10
  <2>12. U \in Q
    BY <2>2, <2>11
  <2> QED BY <2>1, <2>12
<1>4. S \in Q
  <2> HIDE DEF Q
  <2> QED BY <1>2, <1>3, Subsets
<1> QED BY <1>4


\* A set that is split in two is summed part by part.
LEMMA SumSplit ==
  ASSUME NEW w, NEW S, IsFiniteSet(S), NEW R \in SUBSET S, \A x \in S : w[x] \in Int
  PROVE  SumOf(w, S) = SumOf(w, R) + SumOf(w, S \ R)
<1> DEFINE Q == { T \in SUBSET S : SumOf(w, T) = SumOf(w, T \cap R) + SumOf(w, T \ R) }
<1>1. {} \in Q
  <2>1. {} \cap R = {} /\ {} \ R = {}
    OBVIOUS
  <2>2. SumOf(w, {}) = 0
    BY SumEmpty
  <2> QED BY <2>1, <2>2
<1>2. ASSUME NEW T \in SUBSET S, NEW x \in S, T \in Q, x \notin T PROVE T \cup {x} \in Q
  <2>1. PICK U, A, B : U = T \cup {x} /\ A = T \cap R /\ B = T \ R
    OBVIOUS
  <2>2. SumOf(w, U) = w[x] + SumOf(w, T) /\ w[x] \in Int
    BY <1>2, <2>1, SumAdd
  <2>3. A \in SUBSET S /\ B \in SUBSET S /\ x \notin A /\ x \notin B
    BY <1>2, <2>1
  <2>4. /\ SumOf(w, A \cup {x}) = w[x] + SumOf(w, A) /\ SumOf(w, A) \in Int
        /\ SumOf(w, B \cup {x}) = w[x] + SumOf(w, B) /\ SumOf(w, B) \in Int
    BY <2>3, SumAdd
  <2>5. SumOf(w, T) = SumOf(w, A) + SumOf(w, B)
    BY <1>2, <2>1
  <2>6. SumOf(w, U) = SumOf(w, U \cap R) + SumOf(w, U \ R)
    <3>1. CASE x \in R
      <4>1. U \cap R = A \cup {x} /\ U \ R = B
        BY <1>2, <2>1, <3>1
      <4>2. SumOf(w, U \cap R) = SumOf(w, A \cup {x}) /\ SumOf(w, U \ R) = SumOf(w, B)
        BY <4>1, Zenon
      <4> QED BY <2>1, <2>2, <2>4, <2>5, <4>2
    <3>2. CASE x \notin R
      <4>1. U \cap R = A /\ U \ R = B \cup {x}
        BY <1>2, <2>1, <3>2
      <4>2. SumOf(w, U \cap R) = SumOf(w, A) /\ SumOf(w, U \ R) = SumOf(w, B \cup {x})
        BY <4>1, Zenon
      <4> QED BY <2>1, <2>2, <2>4, <2>5, <4>2
    <3> QED BY <3>1, <3>2
  <2>7. U \in SUBSET S
    BY <2>1
  <2>8. U \in Q
    BY <2>6, <2>7
  <2> QED BY <2>1, <2>8
<1>3. S \in Q
  <2> HIDE DEF Q
  <2> QED BY <1>1, <1>2, Subsets
<1>4. S \cap R = R
  OBVIOUS
<1> QED BY <1>3, <1>4

\* Values that are added are added in the sum.
LEMMA SumPlus ==
  ASSUME NEW u, NEW v, NEW w, NEW S, IsFiniteSet(S),
         \A x \in S : u[x] \in Int /\ v[x] \in Int /\ w[x] = u[x] + v[x]
  PROVE  SumOf(w, S) = SumOf(u, S) + SumOf(v, S)
<1> DEFINE Q == { T \in SUBSET S : SumOf(w, T) = SumOf(u, T) + SumOf(v, T) }
<1>1. {} \in Q
  BY SumEmpty
<1>2. ASSUME NEW T \in SUBSET S, NEW x \in S, T \in Q, x \notin T PROVE T \cup {x} \in Q
  <2>1. \A y \in S : w[y] \in Int /\ u[y] \in Int /\ v[y] \in Int
    OBVIOUS
  <2>2. /\ SumOf(u, T \cup {x}) = u[x] + SumOf(u, T) /\ SumOf(u, T) \in Int
        /\ SumOf(v, T \cup {x}) = v[x] + SumOf(v, T) /\ SumOf(v, T) \in Int
        /\ SumOf(w, T \cup {x}) = w[x] + SumOf(w, T)
    <3>1. /\ SumOf(u, T \cup {x}) = u[x] + SumOf(u, T)
          /\ SumOf(u, T) \in Int
      BY <1>2, <2>1, SumAdd
    <3>2. /\ SumOf(v, T \cup {x}) = v[x] + SumOf(v, T)
          /\ SumOf(v, T) \in Int
      BY <1>2, <2>1, SumAdd
    <3>3. SumOf(w, T \cup {x}) = w[x] + SumOf(w, T)
      BY <1>2, <2>1, SumAdd
    <3> QED BY <3>1, <3>2, <3>3
  <2>3. SumOf(w, T) = SumOf(u, T) + SumOf(v, T) /\ w[x] = u[x] + v[x] /\ u[x] \in Int /\ v[x] \in Int
    BY <1>2
  <2>4. SumOf(w, T \cup {x}) = SumOf(u, T \cup {x}) + SumOf(v, T \cup {x})
    BY <2>2, <2>3
  <2>5. PICK U : U = T \cup {x}
    OBVIOUS
  <2>6. SumOf(w, U) = SumOf(u, U) + SumOf(v, U) /\ U \in SUBSET S
    BY <2>4, <2>5
  <2>7. U \in Q
    BY <2>6
  <2> QED BY <2>5, <2>7
<1>3. S \in Q
  <2> HIDE DEF Q
  <2> QED BY <1>1, <1>2, Subsets
<1> QED BY <1>3

\* A sum of numbers between two bounds is between as many times each.
LEMMA SumBounds ==
  ASSUME NEW w, NEW S, IsFiniteSet(S), NEW a \in Int, NEW b \in Int,
         \A x \in S : w[x] \in Int /\ a <= w[x] /\ w[x] <= b
  PROVE  a * Cardinality(S) <= SumOf(w, S) /\ SumOf(w, S) <= b * Cardinality(S)
<1> DEFINE Q == { T \in SUBSET S : /\ a * Cardinality(T) <= SumOf(w, T)
                                   /\ SumOf(w, T) <= b * Cardinality(T) }
<1>1. {} \in Q
  <2>1. Cardinality({}) = 0 /\ SumOf(w, {}) = 0
    BY SumEmpty, FS_EmptySet
  <2> QED BY <2>1
<1>2. ASSUME NEW T \in SUBSET S, NEW x \in S, T \in Q, x \notin T PROVE T \cup {x} \in Q
  <2>1. SumOf(w, T \cup {x}) = w[x] + SumOf(w, T) /\ SumOf(w, T) \in Int
    BY <1>2, SumAdd
  <2>2. IsFiniteSet(T) /\ Cardinality(T) \in Nat
    BY FS_Subset, FS_CardinalityType
  <2>3. Cardinality(T \cup {x}) = Cardinality(T) + 1
    BY <1>2, <2>2, FS_AddElement
  <2>4. PICK n \in Nat : n = Cardinality(T)
    BY <2>2
  <2>5. a * (n + 1) = a * n + a /\ b * (n + 1) = b * n + b
    OBVIOUS
  <2>6. a * n <= SumOf(w, T) /\ SumOf(w, T) <= b * n
    BY <1>2, <2>4
  <2>7. w[x] \in Int /\ a <= w[x] /\ w[x] <= b
    OBVIOUS
  <2>8. PICK p \in Int, q \in Int : p = a * n /\ q = b * n
    OBVIOUS
  <2>9. p + a <= w[x] + SumOf(w, T) /\ w[x] + SumOf(w, T) <= q + b
    BY <2>1, <2>6, <2>7, <2>8
  <2>10. PICK U : U = T \cup {x}
    OBVIOUS
  <2>11. /\ a * Cardinality(U) <= SumOf(w, U) /\ SumOf(w, U) <= b * Cardinality(U)
         /\ U \in SUBSET S
    BY <2>1, <2>3, <2>4, <2>5, <2>8, <2>9, <2>10
  <2>12. U \in Q
    BY <2>11
  <2> QED BY <2>10, <2>12
<1>3. S \in Q
  <2> HIDE DEF Q
  <2> QED BY <1>1, <1>2, Subsets
<1> QED BY <1>3

\* The image of a finite set is finite (the library's FS_Image takes an operator).
LEMMA ImageFinite ==
  ASSUME NEW f, NEW S, IsFiniteSet(S)
  PROVE  IsFiniteSet({ f[x] : x \in S })
<1> DEFINE Image(T) == { f[x] : x \in T }
           Q == { T \in SUBSET S : IsFiniteSet(Image(T)) }
<1>1. {} \in Q
  <2>1. Image({}) = {}
    OBVIOUS
  <2> QED BY <2>1, FS_EmptySet
<1>2. ASSUME NEW T \in SUBSET S, NEW x \in S, T \in Q, x \notin T PROVE T \cup {x} \in Q
  <2>1. Image(T \cup {x}) = Image(T) \cup {f[x]}
    OBVIOUS
  <2>2. IsFiniteSet(Image(T))
    BY <1>2
  <2>3. IsFiniteSet(Image(T) \cup {f[x]})
    <3> HIDE DEF Image
    <3> QED BY <2>2, FS_AddElement
  <2>4. IsFiniteSet(Image(T \cup {x}))
    <3> HIDE DEF Image
    <3> QED BY <2>1, <2>3
  <2>5. T \cup {x} \in SUBSET S
    OBVIOUS
  <2> QED BY <2>4, <2>5
<1>3. S \in Q
  <2> HIDE DEF Q
  <2> QED BY <1>1, <1>2, Subsets
<1> QED BY <1>3

\* The sum over an image is the sum over what is mapped there, one to one.
LEMMA SumOfImage ==
  ASSUME NEW w, NEW v, NEW f, NEW S, IsFiniteSet(S), NEW R, R = { f[x] : x \in S },
         \A x \in S : v[x] \in Int /\ v[x] = w[f[x]],
         \A x, y \in S : f[x] = f[y] => x = y
  PROVE  SumOf(w, R) = SumOf(v, S)
<1> DEFINE Image(T) == { f[x] : x \in T }
           Q == { T \in SUBSET S : SumOf(w, Image(T)) = SumOf(v, T) }
<1>1. {} \in Q
  <2>1. Image({}) = {}
    OBVIOUS
  <2> QED BY <2>1, SumEmpty
<1>2. ASSUME NEW T \in SUBSET S, NEW x \in S, T \in Q, x \notin T PROVE T \cup {x} \in Q
  <2>1. PICK U, A, B : U = T \cup {x} /\ A = Image(T) /\ B = Image(S)
    OBVIOUS
  <2>2. Image(U) = A \cup {f[x]} /\ f[x] \notin A /\ A \in SUBSET B /\ f[x] \in B
    BY <1>2, <2>1
  <2>3. IsFiniteSet(B) /\ \A y \in B : w[y] \in Int
    <3>1. IsFiniteSet(R)
      BY ImageFinite
    <3>2. R = B
      BY <2>1
    <3>3. IsFiniteSet(B)
      BY <3>1, <3>2
    <3>4. \A y \in R : w[y] \in Int
      OBVIOUS
    <3> QED BY <3>2, <3>3, <3>4
  <2>4. SumOf(w, A \cup {f[x]}) = w[f[x]] + SumOf(w, A)
    BY <2>2, <2>3, SumAdd
  <2>5. \A y \in S : v[y] \in Int
    OBVIOUS
  <2>6. v[x] = w[f[x]]
    OBVIOUS
  <2>7. SumOf(v, U) = v[x] + SumOf(v, T)
    BY <1>2, <2>1, <2>5, SumAdd
  <2>8. SumOf(w, A) = SumOf(v, T)
    BY <1>2, <2>1
  <2>9. SumOf(w, Image(U)) = SumOf(v, U)
    <3> HIDE DEF Image
    <3> QED BY <2>2, <2>4, <2>6, <2>7, <2>8
  <2>10. U \in SUBSET S
    BY <2>1
  <2>11. U \in Q
    BY <2>9, <2>10
  <2> QED BY <2>1, <2>11
<1>3. S \in Q
  <2> HIDE DEF Q
  <2> QED BY <1>1, <1>2, Subsets
<1>4. Image(S) = R
  OBVIOUS
<1>5. SumOf(w, Image(S)) = SumOf(v, S)
  BY <1>3
<1> HIDE DEF Image
<1> QED BY <1>4, <1>5

\* A finite set of numbers that is not empty has a greatest.
LEMMA Greatest ==
  ASSUME NEW S \in SUBSET Nat, IsFiniteSet(S), S # {}
  PROVE  \E m \in S : \A y \in S : y <= m
<1> DEFINE Q == { T \in SUBSET S : T # {} => \E m \in T : \A y \in T : y <= m }
<1>1. {} \in Q
  OBVIOUS
<1>2. ASSUME NEW T \in SUBSET S, NEW x \in S, T \in Q, x \notin T PROVE T \cup {x} \in Q
  <2>1. CASE T = {}
    BY <2>1
  <2>2. CASE T # {}
    <3>1. PICK m \in T : \A y \in T : y <= m
      BY <1>2, <2>2
    <3>2. x \in Nat /\ \A y \in T : y \in Nat
      OBVIOUS
    <3>3. CASE x <= m
      BY <3>1, <3>3
    <3>4. CASE ~ (x <= m)
      <4>1. \A y \in T \cup {x} : y <= x
        BY <3>1, <3>2, <3>4
      <4> QED BY <4>1
    <3> QED BY <3>3, <3>4
  <2> QED BY <2>1, <2>2
<1>3. S \in Q
  <2> HIDE DEF Q
  <2>1. \A T \in SUBSET S : T \in Q
    BY <1>1, <1>2, Subsets
  <2> QED BY <2>1
<1> QED BY <1>3
==============================================================================
