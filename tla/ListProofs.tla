----------------------------- MODULE ListProofs -----------------------------
(***************************************************************************)
(* What the proofs need to know of finite sets, sums and folds.            *)
(*                                                                         *)
(* The provers cannot instantiate an induction theorem that takes a        *)
(* predicate, so the two principles of induction are stated about sets of  *)
(* things for which the claim holds, and derived from the fact that strict *)
(* inclusion of finite sets is well founded.                               *)
(***************************************************************************)
EXTENDS Integers, Sequences, FiniteSets, Lists, FiniteSetsExt, SequencesExt,
        FiniteSetTheorems, WellFoundedInduction, TLAPS

-----------------------------------------------------------------------------
(* Induction.                                                              *)

(* Among sets that are subsets of a finite one, one is minimal. *)
LEMMA MinimalSet ==
  ASSUME NEW S, IsFiniteSet(S), NEW U \in SUBSET (SUBSET S), U # {}
  PROVE  \E A \in U : \A B \in U : B \subseteq A => B = A
<1>1. IsWellFoundedOn(StrictSubsetOrdering(S), SUBSET S)
  <2>1. FiniteSubsetsOf(S) = SUBSET S
    BY FS_FiniteSubsetsOfFinite
  <2> QED
    BY <2>1, FS_StrictSubsetOrderingWellFounded
<1>2. PICK A \in U : \A B \in U : ~(<<B, A>> \in StrictSubsetOrdering(S))
  BY <1>1, WFMin
<1>3. ASSUME NEW B \in U, B \subseteq A, B # A PROVE FALSE
  <2>1. <<B, A>> \in StrictSubsetOrdering(S)
    BY <1>3 DEF StrictSubsetOrdering
  <2> QED
    BY <1>2, <2>1
<1> QED
  BY <1>3

(* A set of sets with {} that keeps growing has all subsets of S. *)
LEMMA FiniteInduction ==
  ASSUME NEW S, IsFiniteSet(S), NEW T, {} \in T,
         \A A \in SUBSET S : \A x \in S \ A : A \in T => A \cup {x} \in T
  PROVE  SUBSET S \subseteq T
<1> DEFINE U == (SUBSET S) \ T
<1> SUFFICES ASSUME U # {} PROVE FALSE
  OBVIOUS
<1>1. PICK A \in U : \A B \in U : B \subseteq A => B = A
  <2>1. U \in SUBSET (SUBSET S)
    OBVIOUS
  <2> HIDE DEF U
  <2> QED
    BY <2>1, MinimalSet
<1>2. PICK x : x \in A
  <2>1. A # {}
    BY <1>1
  <2> QED
    BY <2>1
<1>3. A \ {x} \in SUBSET S /\ x \in S \ (A \ {x})
  BY <1>1, <1>2
<1>4. A \ {x} \in T
  BY <1>1, <1>2
<1>5. (A \ {x}) \cup {x} \in T
  BY <1>3, <1>4
<1>6. (A \ {x}) \cup {x} = A
  BY <1>2
<1> QED
  BY <1>5, <1>6

(* A set of numbers that is not empty has a least one. *)
LEMMA Least ==
  ASSUME NEW U \in SUBSET Nat, U # {}
  PROVE  \E m \in U : \A k \in U : m <= k
<1>1. PICK n : n \in U
  OBVIOUS
<1> DEFINE S == 1..n
           W == {A \in SUBSET S : \E k \in U : k <= n /\ A = 1..k}
<1>2. IsFiniteSet(S)
  BY <1>1, FS_Interval
<1>3. PICK A \in W : \A B \in W : B \subseteq A => B = A
  <2>1. W \in SUBSET (SUBSET S) /\ S \in W
    BY <1>1
  <2> HIDE DEF W, S
  <2>2. W # {}
    BY <2>1
  <2> QED
    BY <1>2, <2>1, <2>2, MinimalSet
<1>4. PICK m \in U : m <= n /\ A = 1..m
  OBVIOUS
<1>5. ASSUME NEW k \in U, ~(m <= k) PROVE FALSE
  <2>1. k \in Nat /\ m \in Nat /\ n \in Nat /\ k < m /\ k <= n
    BY <1>1, <1>4, <1>5
  <2>2. 1..k \in SUBSET S
    BY <2>1
  <2>3. 1..k \in W
    BY <2>1, <2>2
  <2>4. 1..k \subseteq 1..m /\ m \in 1..m /\ m \notin 1..k
    BY <2>1
  <2> QED
    BY <1>3, <1>4, <2>3, <2>4
<1> QED
  BY <1>4, <1>5

(* A set with 0 that has k + 1 with k has every number up to n. *)
LEMMA UpTo ==
  ASSUME NEW n \in Nat, NEW T, 0 \in T, \A k \in 0..(n - 1) : k \in T => k + 1 \in T
  PROVE  \A k \in 0..n : k \in T
<1> SUFFICES ASSUME NEW m \in 0..n, m \notin T PROVE FALSE
  OBVIOUS
<1> DEFINE U == {k \in 0..n : k \notin T}
<1>1. PICK k \in U : \A i \in U : k <= i
  <2>1. U \in SUBSET Nat /\ m \in U
    OBVIOUS
  <2> HIDE DEF U
  <2> QED
    BY <2>1, Least
<1>2. k # 0
  OBVIOUS
<1>3. k - 1 \in 0..(n - 1) /\ k - 1 \notin U
  BY <1>1, <1>2
<1>4. k - 1 \in T
  BY <1>3
<1>5. (k - 1) + 1 \in T
  BY <1>3, <1>4
<1> QED
  BY <1>5

(* A bounded set of numbers has a greatest one, which is what Max chooses. *)
LEMMA Greatest ==
  ASSUME NEW n \in Nat, NEW U \in SUBSET (0..n), U # {}
  PROVE  Max(U) \in U /\ \A k \in U : k <= Max(U)
<1> DEFINE W == {k \in 0..n : \A u \in U : u <= k}
<1>1. PICK m \in W : \A k \in W : m <= k
  <2>1. W \in SUBSET Nat /\ n \in W
    OBVIOUS
  <2> HIDE DEF W
  <2> QED
    BY <2>1, Least
<1>2. m \in U
  <2>1. SUFFICES ASSUME m \notin U PROVE FALSE
    OBVIOUS
  <2>2. PICK u : u \in U
    OBVIOUS
  <2>3. m \in Nat /\ u \in Nat /\ u <= m /\ u # m
    BY <2>1, <2>2
  <2>4. m - 1 \in W
    BY <2>1, <2>3
  <2> QED
    BY <1>1, <2>3, <2>4
<1>3. \E x \in U : \A y \in U : x >= y
  BY <1>2
<1> QED
  BY <1>3 DEF Max

-----------------------------------------------------------------------------
(* Folds.                                                                  *)

(* The recursion behind every fold over a finite set: c chooses the next   *)
(* element, f[x, v] combines it with the value of the rest.                *)
IsFold(h, S, base, f, c) ==
  \A s \in SUBSET S : h[s] = IF s = {} THEN base ELSE f[<<c[s], h[s \ {c[s]}]>>]

LEMMA FoldExists ==
  ASSUME NEW S, IsFiniteSet(S), NEW V, NEW base, base \in V, NEW f, f \in [S \X V -> V],
         NEW c, \A s \in SUBSET S : s # {} => c[s] \in s
  PROVE  \E h \in [SUBSET S -> V] : IsFold(h, S, base, f, c)
<1> DEFINE n == Cardinality(S)
           Small(k) == {s \in SUBSET S : Cardinality(s) <= k}
           Value(h, s) == IF s = {} THEN base ELSE f[<<c[s], h[s \ {c[s]}]>>]
           T == {k \in 0..n : \E h \in [Small(k) -> V] : \A s \in Small(k) : h[s] = Value(h, s)}
<1>1. n \in Nat /\ \A s \in SUBSET S : IsFiniteSet(s) /\ Cardinality(s) \in 0..n
  <2>1. n \in Nat
    BY FS_CardinalityType
  <2>2. ASSUME NEW s \in SUBSET S PROVE IsFiniteSet(s) /\ Cardinality(s) \in 0..n
    <3>1. IsFiniteSet(s) /\ Cardinality(s) <= n
      BY FS_Subset
    <3>2. Cardinality(s) \in Nat
      BY <3>1, FS_CardinalityType
    <3> QED
      BY <2>1, <3>1, <3>2
  <2> QED
    BY <2>1, <2>2
<1>2. ASSUME NEW s \in SUBSET S, s # {}
      PROVE  /\ Cardinality(s) > 0
             /\ c[s] \in s
             /\ s \ {c[s]} \in SUBSET S
             /\ Cardinality(s \ {c[s]}) = Cardinality(s) - 1
  <2>1. c[s] \in s
    BY <1>2
  <2>2. Cardinality(s \ {c[s]}) = Cardinality(s) - 1
    BY <1>1, <2>1, FS_RemoveElement
  <2>3. s \ {c[s]} \in SUBSET S
    OBVIOUS
  <2>4. Cardinality(s \ {c[s]}) \in Nat /\ Cardinality(s) \in Nat
    BY <1>1, <2>3
  <2> QED
    BY <2>1, <2>2, <2>3, <2>4
<1>3. 0 \in T
  <2> DEFINE h == [s \in Small(0) |-> base]
  <2>1. \A s \in Small(0) : s = {}
    <3> SUFFICES ASSUME NEW s \in Small(0), s # {} PROVE FALSE
      OBVIOUS
    <3>1. s \in SUBSET S /\ s # {} /\ Cardinality(s) <= 0
      OBVIOUS
    <3>2. Cardinality(s) > 0
      BY <1>2, <3>1
    <3>3. Cardinality(s) \in Nat
      BY <1>1, <3>1
    <3> QED
      BY <3>1, <3>2, <3>3
  <2>2. h \in [Small(0) -> V] /\ \A s \in Small(0) : h[s] = Value(h, s)
    BY <2>1
  <2>3. 0 \in 0..n
    BY <1>1
  <2> QED
    BY <2>2, <2>3
<1>4. ASSUME NEW k \in 0..(n - 1), k \in T PROVE k + 1 \in T
  <2>1. PICK h \in [Small(k) -> V] : \A s \in Small(k) : h[s] = Value(h, s)
    BY <1>4
  <2>2. \A s \in Small(k + 1) : s # {} => s \ {c[s]} \in Small(k)
    <3> SUFFICES ASSUME NEW s \in Small(k + 1), s # {} PROVE s \ {c[s]} \in Small(k)
      OBVIOUS
    <3>1. s \ {c[s]} \in SUBSET S /\ Cardinality(s \ {c[s]}) = Cardinality(s) - 1 /\ Cardinality(s) \in Nat
      BY <1>1, <1>2
    <3> QED
      BY <1>1, <3>1
  <2>3. \A s \in Small(k + 1) : Value(h, s) \in V
    <3> SUFFICES ASSUME NEW s \in Small(k + 1), s # {} PROVE f[<<c[s], h[s \ {c[s]}]>>] \in V
      OBVIOUS
    <3>1. c[s] \in S /\ h[s \ {c[s]}] \in V
      BY <1>2, <2>2
    <3> QED
      BY <3>1
  <2> DEFINE g == [s \in Small(k + 1) |-> Value(h, s)]
  <2>4. g \in [Small(k + 1) -> V]
    BY <2>3
  <2>5. \A s \in Small(k) : s \in Small(k + 1) /\ g[s] = h[s]
    <3> SUFFICES ASSUME NEW s \in Small(k) PROVE s \in Small(k + 1) /\ g[s] = h[s]
      OBVIOUS
    <3>1. s \in Small(k + 1)
      BY <1>1
    <3>2. g[s] = Value(h, s)
      BY <3>1
    <3> QED
      BY <2>1, <3>1, <3>2
  <2>6. \A s \in Small(k + 1) : g[s] = Value(g, s)
    <3> SUFFICES ASSUME NEW s \in Small(k + 1) PROVE g[s] = Value(g, s)
      OBVIOUS
    <3>1. s # {} => g[s \ {c[s]}] = h[s \ {c[s]}]
      BY <2>2, <2>5
    <3>2. g[s] = Value(h, s)
      OBVIOUS
    <3> HIDE DEF g
    <3> QED
      BY <3>1, <3>2
  <2>7. k + 1 \in 0..n
    BY <1>1
  <2> HIDE DEF g
  <2> QED
    BY <2>4, <2>6, <2>7
<1>5. n \in T
  <2> HIDE DEF T
  <2>1. \A k \in 0..n : k \in T
    BY <1>1, <1>3, <1>4, UpTo
  <2> QED
    BY <1>1, <2>1
<1>6. PICK h \in [Small(n) -> V] : \A s \in Small(n) : h[s] = Value(h, s)
  BY <1>5
<1>7. Small(n) = SUBSET S
  BY <1>1
<1> QED
  BY <1>6, <1>7 DEF IsFold

(* What a FoldLeft iterates, as far as it stays in V. *)
Obeys(iter, n, V, base, f) ==
  /\ iter[{}] = base
  /\ \A A \in SUBSET (1..n) : A # {} =>
       \A v \in V : iter[A \ {Max(A)}] = v => iter[A] = f[<<Max(A), v>>]

(* The values a FoldLeft goes through: g[k] after k of n steps. *)
Trace(g, n, V, base, f) ==
  /\ g \in [0..n -> V]
  /\ g[0] = base
  /\ \A k \in 1..n : g[k] = f[<<k, g[k - 1]>>]
  /\ \A A \in SUBSET (1..n) : A # {} => Max(A) \in A
  /\ \E h \in [SUBSET (1..n) -> V] : Obeys(h, n, V, base, f)
  /\ \A iter : Obeys(iter, n, V, base, f) => iter[1..n] = g[n]

LEMMA TraceExists ==
  ASSUME NEW n \in Nat, NEW V, NEW base \in V, NEW f \in [(1..n) \X V -> V]
  PROVE  \E g : Trace(g, n, V, base, f)
<1> DEFINE S == 1..n
           c == [A \in SUBSET S |-> Max(A)]
<1>1. IsFiniteSet(S)
  BY FS_Interval
<1>2. \A A \in SUBSET S : A # {} => Max(A) \in A /\ (\A k \in A : k <= Max(A)) /\ c[A] = Max(A)
  <2> SUFFICES ASSUME NEW A \in SUBSET S, A # {}
               PROVE  Max(A) \in A /\ (\A k \in A : k <= Max(A)) /\ c[A] = Max(A)
    OBVIOUS
  <2>1. A \in SUBSET (0..n)
    OBVIOUS
  <2> QED
    BY <2>1, Greatest
<1>3. PICK h \in [SUBSET S -> V] : IsFold(h, S, base, f, c)
  <2>1. \A A \in SUBSET S : A # {} => c[A] \in A
    BY <1>2
  <2> HIDE DEF S, c
  <2>2. f \in [S \X V -> V]
    BY DEF S
  <2> QED
    BY <1>1, <2>1, <2>2, FoldExists
<1>4. h[{}] = base /\ \A A \in SUBSET S : A # {} => h[A] = f[<<Max(A), h[A \ {Max(A)}]>>]
  BY <1>2, <1>3 DEF IsFold
<1> DEFINE g == [k \in 0..n |-> h[1..k]]
<1>5. g \in [0..n -> V]
  OBVIOUS
<1>6. ASSUME NEW k \in 1..n  PROVE g[k] = f[<<k, g[k - 1]>>]
  <2>1. 1..k \in SUBSET S /\ 1..k # {} /\ k \in 1..k
    OBVIOUS
  <2>2. Max(1..k) = k
    <3>1. Max(1..k) \in 1..k /\ k <= Max(1..k)
      BY <1>2, <2>1
    <3> QED
      BY <3>1
  <2>3. (1..k) \ {k} = 1..(k - 1)
    OBVIOUS
  <2>4. g[k] = h[1..k] /\ g[k - 1] = h[1..(k - 1)]
    OBVIOUS
  <2>5. h[1..k] = f[<<k, h[1..(k - 1)]>>]
    <3> HIDE DEF S
    <3> QED
      BY <1>4, <2>1, <2>2, <2>3
  <2> QED
    BY <2>4, <2>5
<1>7. g[0] = base
  <2>1. 1..0 = {}
    OBVIOUS
  <2> QED
    BY <1>4, <2>1
<1>8. g[n] = h[1..n]
  OBVIOUS
<1> HIDE DEF g
<1>9. Obeys(h, n, V, base, f)
  BY <1>4 DEF Obeys
<1>10. ASSUME NEW iter, Obeys(iter, n, V, base, f)  PROVE iter[1..n] = g[n]
  <2> DEFINE U == {A \in SUBSET S : iter[A] # h[A]}
  <2>1. SUFFICES ASSUME U # {} PROVE FALSE
    BY <1>8
  <2>2. PICK B \in U : \A D \in U : D \subseteq B => D = B
    <3>1. U \in SUBSET (SUBSET S)
      OBVIOUS
    <3> HIDE DEF U, S
    <3> QED
      BY <1>1, <2>1, <3>1, MinimalSet
  <2>3. B \in SUBSET S /\ B # {}
    BY <1>4, <1>10, <2>2 DEF Obeys
  <2>4. Max(B) \in B /\ h[B] = f[<<Max(B), h[B \ {Max(B)}]>>]
    BY <1>2, <1>4, <2>3
  <2>5. B \ {Max(B)} \in SUBSET S /\ B \ {Max(B)} \notin U
    BY <2>2, <2>3, <2>4
  <2>6. iter[B \ {Max(B)}] = h[B \ {Max(B)}] /\ h[B \ {Max(B)}] \in V
    BY <2>5
  <2>7. iter[B] = h[B]
    BY <1>10, <2>3, <2>4, <2>6 DEF Obeys
  <2> QED
    BY <2>2, <2>7
<1>11. Trace(g, n, V, base, f)
  BY <1>2, <1>5, <1>6, <1>7, <1>9, <1>10 DEF Trace
<1> QED
  BY <1>11

Total(g, S) == MapThenSumSet(LAMBDA x : g[x], S)

IsSum(h, g, S) ==
  /\ \A A \in SUBSET S : h[A] = Total(g, A)
  /\ h[{}] = 0
  /\ \A A \in SUBSET S : \A x \in A : h[A] = g[x] + h[A \ {x}]

(* MapThenSumSet over a finite set: the sum of nothing is 0, and taking an *)
(* element out takes its value off, whichever it is.                       *)
LEMMA SumSteps ==
  ASSUME NEW S, IsFiniteSet(S), NEW g, \A x \in S : g[x] \in Nat
  PROVE  \E h \in [SUBSET S -> Nat] : IsSum(h, g, S)
<1> DEFINE c == [s \in SUBSET S |-> CHOOSE x \in s : TRUE]
           Value(h, s) == IF s = {} THEN 0 ELSE g[CHOOSE x \in s : TRUE] + h[s \ {CHOOSE x \in s : TRUE}]
<1>1. \A s \in SUBSET S : s # {} => c[s] \in s /\ c[s] = CHOOSE x \in s : TRUE
  OBVIOUS
<1>2. ASSUME NEW A \in SUBSET S
      PROVE  \E h \in [SUBSET A -> Nat] : h = [s \in SUBSET A |-> Value(h, s)]
  <2> DEFINE f == [p \in A \X Nat |-> g[p[1]] + p[2]]
  <2>1. IsFiniteSet(A)
    BY FS_Subset
  <2>2. f \in [A \X Nat -> Nat]
    OBVIOUS
  <2>3. \A s \in SUBSET A : s # {} => c[s] \in s
    BY <1>1
  <2>4. PICK h \in [SUBSET A -> Nat] : IsFold(h, A, 0, f, c)
    <3>1. 0 \in Nat
      OBVIOUS
    <3> HIDE DEF f, c
    <3> QED
      BY <2>1, <2>2, <2>3, <3>1, FoldExists
  <2>5. ASSUME NEW s \in SUBSET A PROVE h[s] = Value(h, s)
    <3>1. CASE s = {}
      BY <2>4, <3>1 DEF IsFold
    <3>2. CASE s # {}
      <4>1. c[s] \in A /\ h[s \ {c[s]}] \in Nat /\ s \in SUBSET S
        BY <2>3, <3>2
      <4>2. h[s] = f[<<c[s], h[s \ {c[s]}]>>]
        BY <2>4, <3>2 DEF IsFold
      <4>3. h[s] = g[c[s]] + h[s \ {c[s]}]
        <5> HIDE DEF c
        <5> QED
          BY <4>1, <4>2
      <4>4. c[s] = CHOOSE x \in s : TRUE
        BY <1>1, <3>2, <4>1
      <4> HIDE DEF c, f
      <4> QED
        BY <3>2, <4>3, <4>4
    <3> QED
      BY <3>1, <3>2
  <2> QED
    BY <2>4, <2>5
<1>3. PICK h \in [SUBSET S -> Nat] : h = [s \in SUBSET S |-> Value(h, s)]
  BY <1>2
<1>4. ASSUME NEW A \in SUBSET S PROVE h[A] = Total(g, A)
  <2> DEFINE Is(k) == k = [s \in SUBSET A |-> Value(k, s)]
             iter == CHOOSE k : Is(k)
  <2>1. Total(g, A) = iter[A]
    BY DEF Total, MapThenSumSet, MapThenFoldSet
  <2>2. iter = [s \in SUBSET A |-> Value(iter, s)]
    <3> HIDE DEF Value
    <3>1. PICK k \in [SUBSET A -> Nat] : Is(k)
      BY <1>2
    <3> HIDE DEF Is
    <3>2. Is(iter)
      BY <3>1, Zenon
    <3> QED
      BY <3>2 DEF Is
  <2> HIDE DEF iter
  <2> DEFINE U == {s \in SUBSET A : iter[s] # h[s]}
  <2>3. SUFFICES ASSUME U # {} PROVE FALSE
    BY <2>1
  <2>4. PICK B \in U : \A D \in U : D \subseteq B => D = B
    <3>1. IsFiniteSet(A) /\ U \in SUBSET (SUBSET A)
      BY FS_Subset
    <3> HIDE DEF U
    <3> QED
      BY <2>3, <3>1, MinimalSet
  <2>5. B \in SUBSET A /\ B \in SUBSET S /\ iter[B] # h[B]
    OBVIOUS
  <2>6. iter[B] = Value(iter, B) /\ h[B] = Value(h, B)
    BY <1>3, <2>2, <2>5
  <2>7. B # {}
    BY <2>5, <2>6
  <2> DEFINE z == CHOOSE x \in B : TRUE
  <2>8. z \in B
    BY <2>7
  <2>9. iter[B \ {z}] = h[B \ {z}]
    BY <2>4, <2>5, <2>8
  <2> QED
    BY <2>5, <2>6, <2>7, <2>9
<1>5. ASSUME NEW A \in SUBSET S, NEW x \in A PROVE h[A] = g[x] + h[A \ {x}]
  <2> DEFINE U == {s \in SUBSET S : \E y \in s : h[s] # g[y] + h[s \ {y}]}
  <2>1. SUFFICES ASSUME U # {} PROVE FALSE
    OBVIOUS
  <2>2. PICK B \in U : \A D \in U : D \subseteq B => D = B
    <3>1. U \in SUBSET (SUBSET S)
      OBVIOUS
    <3> HIDE DEF U
    <3> QED
      BY <2>1, <3>1, MinimalSet
  <2>3. PICK y \in B : h[B] # g[y] + h[B \ {y}]
    OBVIOUS
  <2> DEFINE z == CHOOSE w \in B : TRUE
  <2>4. z \in B /\ B \in SUBSET S
    BY <2>3
  <2>5. h[B] = g[z] + h[B \ {z}]
    BY <1>3, <2>4
  <2> HIDE DEF z
  <2>6. y # z
    BY <2>3, <2>5
  <2>7. B \ {z} \notin U /\ B \ {y} \notin U
    BY <2>2, <2>4
  <2>8. h[B \ {z}] = g[y] + h[(B \ {z}) \ {y}]
    BY <2>4, <2>6, <2>7
  <2>9. h[B \ {y}] = g[z] + h[(B \ {y}) \ {z}]
    BY <2>4, <2>6, <2>7
  <2>10. (B \ {z}) \ {y} = (B \ {y}) \ {z} /\ (B \ {y}) \ {z} \in SUBSET S
    BY <2>4
  <2>11. g[y] \in Nat /\ g[z] \in Nat /\ h[(B \ {y}) \ {z}] \in Nat
    BY <2>4, <2>10
  <2>12. h[(B \ {z}) \ {y}] = h[(B \ {y}) \ {z}]
    BY <2>10
  <2> QED
    BY <2>3, <2>5, <2>8, <2>9, <2>11, <2>12
<1>6. h[{}] = 0
  BY <1>3
<1> QED
  BY <1>4, <1>5, <1>6 DEF IsSum

LEMMA SumEmpty ==
  ASSUME NEW g
  PROVE  Total(g, {}) = 0
<1>1. IsFiniteSet({}) /\ \A x \in {} : g[x] \in Nat
  BY FS_EmptySet
<1>2. PICK h \in [SUBSET {} -> Nat] : IsSum(h, g, {})
  BY <1>1, SumSteps
<1> QED
  BY <1>2 DEF IsSum

LEMMA SumRemove ==
  ASSUME NEW S, IsFiniteSet(S), NEW g, \A x \in S : g[x] \in Nat, NEW x, x \in S
  PROVE  /\ Total(g, S) \in Nat
         /\ Total(g, S \ {x}) \in Nat
         /\ Total(g, S) = g[x] + Total(g, S \ {x})
<1>1. S \in SUBSET S /\ S \ {x} \in SUBSET S
  OBVIOUS
<1>2. PICK h \in [SUBSET S -> Nat] : IsSum(h, g, S)
  BY SumSteps
<1>3. h[S] \in Nat /\ h[S \ {x}] \in Nat
  BY <1>1
<1>4. h[S] = Total(g, S) /\ h[S \ {x}] = Total(g, S \ {x})
  BY <1>1, <1>2 DEF IsSum
<1>5. h[S] = g[x] + h[S \ {x}]
  BY <1>1, <1>2 DEF IsSum
<1> QED
  BY <1>3, <1>4, <1>5

(* Two functions that agree on the set have the same sum. *)
LEMMA SumSame ==
  ASSUME NEW S, IsFiniteSet(S), NEW f, NEW g, \A x \in S : g[x] \in Nat /\ f[x] = g[x]
  PROVE  Total(f, S) \in Nat /\ Total(f, S) = Total(g, S)
<1>1. PICK h \in [SUBSET S -> Nat] : IsSum(h, g, S)
  BY SumSteps
<1>2. PICK k \in [SUBSET S -> Nat] : IsSum(k, f, S)
  <2>1. \A x \in S : f[x] \in Nat
    OBVIOUS
  <2> QED
    BY <2>1, SumSteps
<1> DEFINE T == {A \in SUBSET S : h[A] = k[A]}
<1>3. {} \in T
  BY <1>1, <1>2 DEF IsSum
<1>4. ASSUME NEW A \in SUBSET S, NEW x \in S \ A, A \in T PROVE A \cup {x} \in T
  <2>1. (A \cup {x}) \ {x} = A /\ A \cup {x} \in SUBSET S /\ x \in A \cup {x}
    OBVIOUS
  <2>2. h[A \cup {x}] = g[x] + h[A]
    BY <1>1, <2>1 DEF IsSum
  <2>3. k[A \cup {x}] = f[x] + k[A]
    BY <1>2, <2>1 DEF IsSum
  <2> QED
    BY <1>4, <2>1, <2>2, <2>3
<1>5. S \in T
  <2> HIDE DEF T
  <2> QED
    BY <1>3, <1>4, FiniteInduction
<1>6. S \in SUBSET S
  OBVIOUS
<1>7. k[S] \in Nat /\ k[S] = Total(f, S)
  BY <1>2, <1>6 DEF IsSum
<1>8. h[S] = Total(g, S)
  BY <1>1, <1>6 DEF IsSum
<1> QED
  BY <1>5, <1>7, <1>8

(* More terms, a larger sum. *)
LEMMA SumSubset ==
  ASSUME NEW S, IsFiniteSet(S), NEW g, \A x \in S : g[x] \in Nat, NEW R, R \in SUBSET S
  PROVE  Total(g, R) \in Nat /\ Total(g, S) \in Nat /\ Total(g, R) <= Total(g, S)
<1>1. PICK h \in [SUBSET S -> Nat] : IsSum(h, g, S)
  BY SumSteps
<1> DEFINE T == {A \in SUBSET S : h[R] <= h[R \cup A]}
<1>2. {} \in T
  BY R \cup {} = R
<1>3. ASSUME NEW A \in SUBSET S, NEW x \in S \ A, A \in T PROVE A \cup {x} \in T
  <2>1. CASE x \in R
    <3>1. R \cup (A \cup {x}) = R \cup A
      BY <2>1
    <3> QED
      BY <1>3, <3>1
  <2>2. CASE x \notin R
    <3>1. (R \cup (A \cup {x})) \ {x} = R \cup A /\ R \cup (A \cup {x}) \in SUBSET S
          /\ x \in R \cup (A \cup {x})
      BY <2>2
    <3>2. h[R \cup (A \cup {x})] = g[x] + h[R \cup A]
      BY <1>1, <3>1 DEF IsSum
    <3>3. h[R] \in Nat /\ h[R \cup A] \in Nat /\ g[x] \in Nat
      OBVIOUS
    <3> QED
      BY <1>3, <3>2, <3>3
  <2> QED
    BY <2>1, <2>2
<1>4. S \in T
  <2> HIDE DEF T
  <2> QED
    BY <1>2, <1>3, FiniteInduction
<1>5. R \cup S = S /\ S \in SUBSET S
  OBVIOUS
<1>6. h[R] = Total(g, R) /\ h[S] = Total(g, S) /\ h[R] \in Nat /\ h[S] \in Nat
  BY <1>1, <1>5 DEF IsSum
<1> QED
  BY <1>4, <1>5, <1>6

-----------------------------------------------------------------------------
(* Listings.                                                               *)

StrictOrder(S, R) ==
  /\ \A x \in S : <<x, x>> \notin R
  /\ \A x, y \in S : x = y \/ <<x, y>> \in R \/ <<y, x>> \in R
  /\ \A x, y, z \in S : <<x, y>> \in R /\ <<y, z>> \in R => <<x, z>> \in R

(* l has every member of S once, in the order of R. *)
Lists(l, S, R) ==
  /\ Cardinality(S) \in Nat
  /\ l \in [1..Cardinality(S) -> S]
  /\ \A x \in S : \E k \in 1..Cardinality(S) : l[k] = x
  /\ \A i, j \in 1..Cardinality(S) : i < j <=> <<l[i], l[j]>> \in R

LEMMA ListingLists ==
  ASSUME NEW S, IsFiniteSet(S), NEW R, StrictOrder(S, R)
  PROVE  Lists(Listing(S, R), S, R)
<1> DEFINE n == Cardinality(S)
           Below(x) == {y \in S : <<y, x>> \in R}
           rank == [x \in S |-> Cardinality(Below(x))]
<1>1. n \in Nat
  BY FS_CardinalityType
<1>2. ASSUME NEW x \in S PROVE IsFiniteSet(Below(x)) /\ rank[x] \in 0..(n - 1)
  <2>1. IsFiniteSet(S \ {x}) /\ Cardinality(S \ {x}) = n - 1
    BY FS_RemoveElement
  <2>2. Below(x) \in SUBSET (S \ {x})
    BY DEF StrictOrder
  <2>3. IsFiniteSet(Below(x)) /\ Cardinality(Below(x)) <= n - 1
    <3> HIDE DEF Below, n
    <3> QED
      BY <2>1, <2>2, FS_Subset
  <2>4. Cardinality(Below(x)) \in Nat
    BY <2>3, FS_CardinalityType
  <2> QED
    BY <1>1, <2>3, <2>4
<1>3. ASSUME NEW x \in S, NEW y \in S, <<x, y>> \in R PROVE rank[x] < rank[y]
  <2>1. IsFiniteSet(Below(x)) /\ IsFiniteSet(Below(y)) /\ x \notin Below(x)
    BY <1>2 DEF StrictOrder
  <2>2. Cardinality(Below(x) \cup {x}) = rank[x] + 1
    BY <2>1, FS_AddElement
  <2>3. Below(x) \cup {x} \in SUBSET Below(y)
    BY <1>3 DEF StrictOrder
  <2>4. Cardinality(Below(x) \cup {x}) <= Cardinality(Below(y))
    BY <2>1, <2>3, FS_Subset
  <2>5. rank[x] \in Int /\ rank[y] \in Int /\ rank[y] = Cardinality(Below(y))
    <3>1. rank[x] \in 0..(n - 1) /\ rank[y] \in 0..(n - 1)
      BY <1>2
    <3> HIDE DEF n
    <3> QED
      BY <1>1, <3>1
  <2> HIDE DEF rank, Below
  <2> QED
    BY <2>2, <2>4, <2>5
<1>4. rank \in Injection(S, 0..(n - 1))
  <2>1. rank \in [S -> 0..(n - 1)]
    BY <1>2
  <2>2. \A x, y \in S : rank[x] = rank[y] => x = y
    <3> SUFFICES ASSUME NEW x \in S, NEW y \in S, rank[x] = rank[y], x # y PROVE FALSE
      OBVIOUS
    <3>1. rank[x] < rank[y] \/ rank[y] < rank[x]
      BY <1>3 DEF StrictOrder
    <3>2. rank[x] \in 0..(n - 1) /\ rank[y] \in 0..(n - 1)
      BY <1>2
    <3> HIDE DEF rank, n
    <3> QED
      BY <1>1, <3>1, <3>2
  <2> HIDE DEF rank
  <2> QED
    BY <2>1, <2>2 DEF Injection, IsInjective
<1>5. ASSUME NEW k \in 0..(n - 1) PROVE \E x \in S : rank[x] = k
  <2>1. IsFiniteSet(0..(n - 1)) /\ Cardinality(0..(n - 1)) = n
    BY <1>1, FS_Interval
  <2> HIDE DEF rank
  <2>2. rank \in Surjection(S, 0..(n - 1))
    BY <1>4, <2>1, FS_Injection
  <2> QED
    BY <2>2 DEF Surjection
<1> DEFINE l == Listing(S, R)
<1>6. ASSUME NEW k \in 1..n PROVE l[k] \in S /\ rank[l[k]] = k - 1
  <2>1. l[k] = CHOOSE x \in S : rank[x] = k - 1
    BY DEF Listing
  <2>2. \E x \in S : rank[x] = k - 1
    <3>1. k - 1 \in 0..(n - 1)
      <4> HIDE DEF n
      <4> QED
        BY <1>1
    <3> HIDE DEF rank
    <3> QED
      BY <1>5, <3>1
  <2> HIDE DEF l, rank
  <2> QED
    BY <2>1, <2>2
<1>7. l \in [1..n -> S]
  <2> DEFINE nth(k) == CHOOSE x \in S : Cardinality({y \in S : <<y, x>> \in R}) = k - 1
  <2>1. l = [k \in 1..n |-> nth(k)]
    BY DEF Listing
  <2> HIDE DEF l, nth
  <2> QED
    BY <1>6, <2>1
<1> HIDE DEF l
<1>8. ASSUME NEW x \in S PROVE \E k \in 1..n : l[k] = x
  <2> HIDE DEF rank
  <2>1. rank[x] + 1 \in 1..n /\ (rank[x] + 1) - 1 = rank[x]
    BY <1>1, <1>4 DEF Injection
  <2>2. l[rank[x] + 1] \in S /\ rank[l[rank[x] + 1]] = rank[x]
    BY <1>6, <2>1
  <2>3. l[rank[x] + 1] = x
    BY <1>4, <2>2 DEF Injection, IsInjective
  <2> QED
    BY <2>1, <2>3
<1>9. ASSUME NEW i \in 1..n, NEW j \in 1..n PROVE i < j <=> <<l[i], l[j]>> \in R
  <2>1. l[i] \in S /\ l[j] \in S /\ rank[l[i]] = i - 1 /\ rank[l[j]] = j - 1
    BY <1>6
  <2> HIDE DEF rank, n
  <2>2. CASE <<l[i], l[j]>> \in R
    BY <1>3, <2>1, <2>2
  <2>3. CASE l[i] = l[j]
    BY <2>1, <2>3 DEF StrictOrder
  <2>4. CASE <<l[j], l[i]>> \in R
    <3>1. j < i
      BY <1>3, <2>1, <2>4
    <3>2. <<l[i], l[j]>> \notin R
      BY <2>1, <2>4 DEF StrictOrder
    <3> QED
      BY <3>1, <3>2
  <2> QED
    BY <2>1, <2>2, <2>3, <2>4 DEF StrictOrder
<1> QED
  BY <1>1, <1>7, <1>8, <1>9 DEF Lists, l

(* Which places of s a sublist has: f gives for each place of the sublist  *)
(* the one in s, in the same order.                                        *)
Picks(f, t, s, K) ==
  /\ Len(t) = Cardinality(K) /\ Len(t) \in Nat /\ DOMAIN t = 1..Len(t)
  /\ f \in [1..Len(t) -> K]
  /\ \A k \in 1..Len(t) : t[k] = s[f[k]]
  /\ \A i \in K : \E k \in 1..Len(t) : f[k] = i
  /\ \A i, j \in 1..Len(t) : i < j => f[i] < f[j]

LEMMA SublistPicks ==
  ASSUME NEW S, NEW s \in Seq(S), NEW K \in SUBSET (1..Len(s))
  PROVE  /\ Sublist(s, K) \in Seq(S)
         /\ Len(Sublist(s, K)) <= Len(s)
         /\ \E f : Picks(f, Sublist(s, K), s, K)
<1> DEFINE l == Listing(K, Before(K))
           n == Cardinality(K)
<1>1. Len(s) \in Nat /\ IsFiniteSet(1..Len(s)) /\ Cardinality(1..Len(s)) = Len(s)
  <2>1. Len(s) \in Nat
    OBVIOUS
  <2> HIDE DEF l, n
  <2>2. ASSUME NEW m \in Nat  PROVE IsFiniteSet(1..m) /\ Cardinality(1..m) = m
    BY FS_Interval
  <2> QED
    BY <2>1, <2>2
<1>2. IsFiniteSet(K) /\ n <= Len(s)
  BY <1>1, FS_Subset
<1>3. StrictOrder(K, Before(K))
  BY DEF StrictOrder, Before
<1>4. Lists(l, K, Before(K))
  BY <1>2, <1>3, ListingLists
<1> HIDE DEF l
<1>5. n \in Nat /\ l \in [1..n -> K] /\ DOMAIN l = 1..n
  BY <1>4 DEF Lists
<1>6. \A k \in 1..n : s[l[k]] \in S
  <2>1. \A i \in K : s[i] \in S
    OBVIOUS
  <2> HIDE DEF n
  <2> QED
    BY <1>5, <2>1
<1>7. Sublist(s, K) = [k \in 1..n |-> s[l[k]]]
  BY <1>5 DEF Sublist, l
<1> HIDE DEF n
<1>8. PICK t : t = Sublist(s, K)
  OBVIOUS
<1>9. t \in Seq(S) /\ Len(t) = n /\ \A k \in 1..n : t[k] = s[l[k]]
  BY <1>5, <1>6, <1>7, <1>8
<1>10. \A i, j \in 1..n : i < j => l[i] < l[j]
  BY <1>4, <1>5 DEF Lists, Before, n
<1>11. \A i \in K : \E k \in 1..n : l[k] = i
  BY <1>4 DEF Lists, n
<1>12. Picks(l, t, s, K)
  BY <1>5, <1>9, <1>10, <1>11 DEF Picks, n
<1> QED
  BY <1>2, <1>8, <1>9, <1>12 DEF n

LEMMA ConcatRange ==
  ASSUME NEW X, NEW q \in Seq(X), NEW s \in Seq(X)
  PROVE  q \o s \in Seq(X) /\ Range(q \o s) = Range(q) \cup Range(s)
<1>1. PICK t : t = q \o s
  OBVIOUS
<1>2. /\ t \in Seq(X) /\ Len(q) \in Nat /\ Len(s) \in Nat /\ Len(t) = Len(q) + Len(s)
      /\ \A i \in 1..Len(q) : t[i] = q[i]
      /\ \A i \in 1..Len(s) : t[Len(q) + i] = s[i]
  BY <1>1
<1>3. /\ Range(t) = {t[i] : i \in 1..Len(t)} /\ Range(q) = {q[i] : i \in 1..Len(q)}
      /\ Range(s) = {s[i] : i \in 1..Len(s)}
  <2>1. DOMAIN t = 1..Len(t) /\ DOMAIN q = 1..Len(q) /\ DOMAIN s = 1..Len(s)
    BY <1>2
  <2> QED
    BY <2>1 DEF Range
<1>4. \A i \in 1..Len(t) : i \in 1..Len(q) \/ \E j \in 1..Len(s) : i = Len(q) + j
  <2> SUFFICES ASSUME NEW i \in 1..Len(t), i \notin 1..Len(q)  PROVE \E j \in 1..Len(s) : i = Len(q) + j
    OBVIOUS
  <2>1. i - Len(q) \in 1..Len(s) /\ i = Len(q) + (i - Len(q))
    BY <1>2
  <2> QED
    BY <2>1
<1>5. (\A i \in 1..Len(q) : i \in 1..Len(t)) /\ (\A i \in 1..Len(s) : Len(q) + i \in 1..Len(t))
  BY <1>2
<1>6. \A i \in 1..Len(t) : t[i] \in Range(q) \cup Range(s)
  <2> SUFFICES ASSUME NEW i \in 1..Len(t)  PROVE t[i] \in Range(q) \cup Range(s)
    OBVIOUS
  <2>1. CASE i \in 1..Len(q)
    BY <1>2, <1>3, <2>1
  <2>2. CASE \E j \in 1..Len(s) : i = Len(q) + j
    BY <1>2, <1>3, <2>2
  <2> QED
    BY <1>4, <2>1, <2>2
<1>7. \A i \in 1..Len(q) : q[i] \in Range(t)
  BY <1>2, <1>3, <1>5
<1>8. \A i \in 1..Len(s) : s[i] \in Range(t)
  BY <1>2, <1>3, <1>5
<1>9. Range(t) = Range(q) \cup Range(s)
  BY <1>3, <1>6, <1>7, <1>8
<1> QED
  BY <1>1, <1>2, <1>9

LEMMA AppendRange ==
  ASSUME NEW X, NEW q \in Seq(X), NEW x \in X
  PROVE  Append(q, x) \in Seq(X) /\ Range(Append(q, x)) = Range(q) \cup {x}
<1>1. PICK t : t = Append(q, x)
  OBVIOUS
<1>2. /\ t \in Seq(X) /\ Len(q) \in Nat /\ Len(t) = Len(q) + 1 /\ t[Len(q) + 1] = x
      /\ \A i \in 1..Len(q) : t[i] = q[i]
      /\ DOMAIN t = 1..Len(t) /\ DOMAIN q = 1..Len(q)
  BY <1>1
<1>3. \A i : i \in 1..Len(t) <=> i \in 1..Len(q) \/ i = Len(q) + 1
  BY <1>2
<1>4. Range(t) = {t[i] : i \in 1..Len(t)} /\ Range(q) = {q[i] : i \in 1..Len(q)}
  BY <1>2 DEF Range
<1>5. Range(t) = Range(q) \cup {x}
  BY <1>2, <1>3, <1>4
<1> QED
  BY <1>1, <1>2, <1>5

(* A list of a set, as long as the set is large and without repetition,    *)
(* has every member at one place.                                          *)
NoTwice(s, n) == \A i, j \in 1..n : i < j => s[i] # s[j]

AllOnce(s, n, S) ==
  /\ n \in Nat /\ s \in Seq(S) /\ Len(s) = n /\ DOMAIN s = 1..n
  /\ \A i, j \in 1..n : s[i] = s[j] => i = j
  /\ \A x \in S : \E i \in 1..n : s[i] = x

LEMMA ListsAll ==
  ASSUME NEW S, IsFiniteSet(S), NEW s \in [1..Cardinality(S) -> S], NoTwice(s, Cardinality(S))
  PROVE  AllOnce(s, Cardinality(S), S)
<1>1. PICK n \in Nat : n = Cardinality(S)
  BY FS_CardinalityType
<1>2. \A i, j \in 1..n : s[i] = s[j] => i = j
  <2> SUFFICES ASSUME NEW i \in 1..n, NEW j \in 1..n, s[i] = s[j], i # j  PROVE FALSE
    OBVIOUS
  <2>1. i < j \/ j < i
    BY <1>1
  <2> QED
    BY <1>1, <2>1 DEF NoTwice
<1>3. s \in Injection(1..n, S)
  BY <1>1, <1>2 DEF Injection, IsInjective
<1>4. IsFiniteSet(1..n) /\ Cardinality(1..n) = n
  BY <1>1, FS_Interval
<1>5. s \in Surjection(1..n, S)
  BY <1>1, <1>3, <1>4, FS_Injection
<1>6. AllOnce(s, n, S)
  BY <1>1, <1>2, <1>5 DEF Surjection, AllOnce
<1> QED
  BY <1>1, <1>6

(* As many ones. *)
LEMMA OnesCount ==
  ASSUME NEW K, IsFiniteSet(K), NEW g, \A x \in K : g[x] = 1
  PROVE  Total(g, K) = Cardinality(K)
<1> DEFINE T == {A \in SUBSET K : Total(g, A) = Cardinality(A)}
<1>1. {} \in T
  BY SumEmpty, FS_EmptySet
<1>2. ASSUME NEW A \in SUBSET K, NEW x \in K \ A, A \in T  PROVE A \cup {x} \in T
  <2>1. IsFiniteSet(A) /\ IsFiniteSet(A \cup {x}) /\ (A \cup {x}) \ {x} = A
    BY FS_Subset
  <2>2. Total(g, A \cup {x}) = g[x] + Total(g, A)
    <3>1. \A y \in A \cup {x} : g[y] \in Nat
      OBVIOUS
    <3>2. Total(g, A \cup {x}) = g[x] + Total(g, (A \cup {x}) \ {x})
      BY <2>1, <3>1, SumRemove
    <3> QED
      BY <2>1, <3>2
  <2>3. Cardinality(A \cup {x}) = Cardinality(A) + 1 /\ Cardinality(A) \in Nat
    BY <2>1, FS_AddElement, FS_CardinalityType
  <2> QED
    BY <1>2, <2>2, <2>3
<1> HIDE DEF T
<1>3. K \in T
  BY <1>1, <1>2, FiniteInduction
<1> QED
  BY <1>3 DEF T

LEMMA BeforeOrders ==
  ASSUME NEW K \in SUBSET Nat
  PROVE  StrictOrder(K, Before(K))
BY DEF StrictOrder, Before

LEMMA MaxChosen ==
  ASSUME NEW K \in SUBSET Nat, IsFiniteSet(K), K # {}
  PROVE  Max(K) \in K /\ \A x \in K : x <= Max(K)
<1> DEFINE l == Listing(K, Before(K))
<1>1. Lists(l, K, Before(K))
  BY BeforeOrders, ListingLists
<1> HIDE DEF l
<1>2. PICK n \in Nat : /\ l \in [1..n -> K] /\ (\A x \in K : \E k \in 1..n : l[k] = x)
                       /\ \A i, j \in 1..n : i < j <=> <<l[i], l[j]>> \in Before(K)
  BY <1>1 DEF Lists
<1>3. n \in 1..n
  <2>1. PICK x \in K : TRUE
    OBVIOUS
  <2>2. PICK k \in 1..n : l[k] = x
    BY <1>2
  <2> QED
    BY <2>2
<1>4. ASSUME NEW x \in K  PROVE l[n] >= x
  <2>1. PICK k \in 1..n : l[k] = x
    BY <1>2
  <2>2. CASE k = n
    <3>1. l[n] = x /\ x \in Nat
      BY <2>1, <2>2
    <3> QED
      BY <3>1
  <2>3. CASE k < n
    <3>1. <<l[k], l[n]>> \in Before(K)
      BY <1>2, <1>3, <2>1, <2>3
    <3>2. l[k] < l[n]
      BY <3>1 DEF Before
    <3>3. l[n] \in Nat /\ x \in Nat
      BY <1>2, <1>3
    <3> QED
      BY <2>1, <3>2, <3>3
  <2>4. k = n \/ k < n
    BY <1>2
  <2> QED
    BY <2>2, <2>3, <2>4
<1>5. \E x \in K : \A y \in K : x >= y
  BY <1>2, <1>3, <1>4
<1> QED
  BY <1>5 DEF Max

(* Two lists of the same things, each without repetition and both sorted   *)
(* by R, are one list.                                                     *)
SortedBy(s, n, R) == \A i, j \in 1..n : i < j => <<s[i], s[j]>> \in R
AllIn(s, m, t, n) == \A i \in 1..m : \E j \in 1..n : s[i] = t[j]

LEMMA SortedAlike ==
  ASSUME NEW m \in Nat, NEW n \in Nat, NEW s, NEW t, NEW R,
         SortedBy(s, m, R), SortedBy(t, n, R), AllIn(s, m, t, n), AllIn(t, n, s, m),
         \A x, y : ~ (<<x, y>> \in R /\ <<y, x>> \in R)
  PROVE  m = n /\ \A i \in 1..m : s[i] = t[i]
<1> DEFINE U == {i \in 1..m : i > n \/ s[i] # t[i]}
           W == {i \in 1..n : i > m \/ s[i] # t[i]}
<1>1. ASSUME NEW i \in 1..m, NEW j \in 1..m, s[i] = s[j]  PROVE i = j
  <2>1. i < j \/ j < i \/ i = j
    OBVIOUS
  <2> QED
    BY <1>1, <2>1 DEF SortedBy
<1>2. ASSUME NEW i \in 1..n, NEW j \in 1..n, t[i] = t[j]  PROVE i = j
  <2>1. i < j \/ j < i \/ i = j
    OBVIOUS
  <2> QED
    BY <1>2, <2>1 DEF SortedBy
<1>3. ASSUME U \cup W # {}  PROVE FALSE
  <2>1. PICK k \in U \cup W : \A i \in U \cup W : k <= i
    <3>1. U \cup W \in SUBSET Nat
      OBVIOUS
    <3> HIDE DEF U, W
    <3> QED
      BY <1>3, <3>1, Least
  <2>2. \A i \in 1..(k - 1) : (i \in 1..m <=> i \in 1..n) /\ (i \in 1..m => s[i] = t[i])
    <3> SUFFICES ASSUME NEW i \in 1..(k - 1)  PROVE (i \in 1..m <=> i \in 1..n) /\ (i \in 1..m => s[i] = t[i])
      OBVIOUS
    <3>1. i \notin U /\ i \notin W
      BY <2>1
    <3> QED
      BY <3>1
  <2>3. ASSUME k \in 1..m  PROVE \E j \in 1..n : s[k] = t[j] /\ (j > k \/ (j = k /\ s[k] = t[k]))
    <3>1. PICK j \in 1..n : s[k] = t[j]
      BY <2>3 DEF AllIn
    <3>2. ASSUME j < k  PROVE FALSE
      <4>1. j \in 1..(k - 1)
        BY <2>3, <3>2
      <4>2. j \in 1..m /\ s[j] = t[j]
        BY <2>2, <4>1
      <4>3. j = k
        BY <1>1, <2>3, <3>1, <4>2
      <4> QED
        BY <2>3, <3>2, <4>3
    <3> QED
      BY <2>3, <3>1, <3>2
  <2>4. ASSUME k \in 1..n  PROVE \E j \in 1..m : t[k] = s[j] /\ (j > k \/ (j = k /\ s[k] = t[k]))
    <3>1. PICK j \in 1..m : t[k] = s[j]
      BY <2>4 DEF AllIn
    <3>2. ASSUME j < k  PROVE FALSE
      <4>1. j \in 1..(k - 1)
        BY <2>4, <3>2
      <4>2. j \in 1..n /\ s[j] = t[j]
        BY <2>2, <4>1
      <4>3. j = k
        BY <1>2, <2>4, <3>1, <4>2
      <4> QED
        BY <2>4, <3>2, <4>3
    <3> QED
      BY <2>4, <3>1, <3>2
  <2>5. k \in 1..m /\ k \in 1..n
    <3>1. CASE k \in 1..m
      <4>1. PICK j \in 1..n : j >= k
        BY <2>3, <3>1
      <4> QED
        BY <3>1, <4>1
    <3>2. CASE k \in 1..n
      <4>1. PICK j \in 1..m : j >= k
        BY <2>4, <3>2
      <4> QED
        BY <3>2, <4>1
    <3> QED
      BY <2>1, <3>1, <3>2
  <2>6. s[k] # t[k]
    BY <2>1, <2>5
  <2>7. PICK j \in 1..n : s[k] = t[j] /\ k < j
    BY <2>3, <2>5, <2>6
  <2>8. PICK i \in 1..m : t[k] = s[i] /\ k < i
    BY <2>4, <2>5, <2>6
  <2>9. <<t[k], s[k]>> \in R
    BY <2>5, <2>7 DEF SortedBy
  <2>10. <<s[k], t[k]>> \in R
    BY <2>5, <2>8 DEF SortedBy
  <2> QED
    BY <2>9, <2>10
<1>4. m = n
  <2>1. m \notin U /\ n \notin W
    BY <1>3
  <2> QED
    BY <2>1
<1> QED
  BY <1>3, <1>4

LEMMA SublistRange ==
  ASSUME NEW S, NEW s \in Seq(S), NEW K \in SUBSET (1..Len(s))
  PROVE  Sublist(s, K) \in Seq(S) /\ Range(Sublist(s, K)) = {s[i] : i \in K}
<1>1. PICK t, f : t = Sublist(s, K) /\ t \in Seq(S) /\ Picks(f, t, s, K)
  BY SublistPicks
<1>2. /\ DOMAIN t = 1..Len(t) /\ f \in [1..Len(t) -> K]
      /\ \A k \in 1..Len(t) : t[k] = s[f[k]]
      /\ \A i \in K : \E k \in 1..Len(t) : f[k] = i
  BY <1>1 DEF Picks
<1>3. Range(t) = {s[i] : i \in K}
  <2>1. ASSUME NEW x \in Range(t)  PROVE x \in {s[i] : i \in K}
    <3>1. PICK k \in 1..Len(t) : x = t[k]
      BY <1>2 DEF Range
    <3>2. f[k] \in K /\ x = s[f[k]]
      BY <1>2, <3>1
    <3> QED
      BY <3>2
  <2>2. \A i \in K : s[i] \in Range(t)
    BY <1>2 DEF Range
  <2> QED
    BY <2>1, <2>2
<1> QED
  BY <1>1, <1>3

(* Two ways to tell the members of R apart that agree find as many.        *)
LEMMA ImagesAlike ==
  ASSUME NEW R, IsFiniteSet(R), NEW f, NEW g, \A a, b \in R : f[a] = f[b] <=> g[a] = g[b]
  PROVE  Cardinality({f[a] : a \in R}) = Cardinality({g[a] : a \in R})
<1> DEFINE F == {f[a] : a \in R}
           G == {g[a] : a \in R}
           from == [y \in F |-> CHOOSE a \in R : f[a] = y]
           h == [y \in F |-> g[from[y]]]
           e == [a \in R |-> f[a]]
<1>1. \A y \in F : from[y] \in R /\ f[from[y]] = y
  OBVIOUS
<1>2. IsFiniteSet(F)
  <2>1. e \in Surjection(R, F)
    BY DEF Surjection
  <2> HIDE DEF e, F
  <2> QED
    BY <2>1, FS_Surjection
<1> HIDE DEF from
<1>3. \A a \in R : f[a] \in F /\ g[a] \in G
  OBVIOUS
<1>4. \A z \in G : \E a \in R : z = g[a]
  OBVIOUS
<1> HIDE DEF F, G
<1>5. h \in [F -> G]
  BY <1>1, <1>3
<1>6. \A y, z \in F : h[y] = h[z] => y = z
  BY <1>1
<1>7. \A z \in G : \E y \in F : h[y] = z
  <2> SUFFICES ASSUME NEW z \in G  PROVE \E y \in F : h[y] = z
    OBVIOUS
  <2>1. PICK a \in R : z = g[a]
    BY <1>4
  <2>2. f[a] \in F /\ from[f[a]] \in R /\ f[from[f[a]]] = f[a]
    BY <1>1, <1>3
  <2>3. g[from[f[a]]] = g[a]
    BY <2>2
  <2>4. h[f[a]] = z
    BY <2>1, <2>2, <2>3
  <2> QED
    BY <2>2, <2>4
<1>8. h \in Bijection(F, G)
  BY <1>5, <1>6, <1>7 DEF Bijection, Injection, Surjection, IsInjective
<1> HIDE DEF h
<1> QED
  BY <1>2, <1>8, FS_Bijection DEF ExistsBijection, F, G
=============================================================================
