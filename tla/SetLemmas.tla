----------------------------- MODULE SetLemmas -----------------------------
(***************************************************************************)
(* Facts about finite sets that the proofs of several components rest on:  *)
(* the least and the greatest number of a set, and sums over a set.        *)
(***************************************************************************)
EXTENDS Integers, FiniteSets, FiniteSetsExt, FiniteSetTheorems, WellFoundedInduction, TLAPS

-----------------------------------------------------------------------------
(* A set of numbers that is not empty has a least element, ... *)
LEMMA LeastOf ==
  ASSUME NEW S \in SUBSET Nat, S # {}
  PROVE  \E x \in S : \A y \in S : x <= y
<1>1. PICK x \in S : \A y \in S : ~ (<<y, x>> \in OpToRel(<, Nat))
  BY NatLessThanWellFounded, WFMin
<1>2. ASSUME NEW y \in S PROVE x <= y
  <2>1. ~ (y < x)
    BY <1>1 DEF OpToRel
  <2> QED BY <2>1
<1> QED BY <1>2

(* ... and, when it is bounded, a greatest one. *)
LEMMA GreatestOf ==
  ASSUME NEW b \in Nat, NEW S \in SUBSET (0 .. b), S # {}
  PROVE  Max(S) \in S /\ \A y \in S : y <= Max(S)
<1> DEFINE T == {b - x : x \in S}
<1>1. T \in SUBSET Nat /\ T # {}
  <2>1. \A x \in S : b - x \in Nat
    OBVIOUS
  <2>2. PICK x \in S : TRUE
    OBVIOUS
  <2>3. b - x \in T
    BY <2>2
  <2> QED BY <2>1, <2>3
<1>2. PICK m \in T : \A y \in T : m <= y
  BY <1>1, LeastOf
<1>3. PICK x \in S : m = b - x
  OBVIOUS
<1>4. \A y \in S : x >= y
  <2>1. ASSUME NEW y \in S PROVE x >= y
    <3>1. b - y \in T
      OBVIOUS
    <3>2. m <= b - y
      BY <1>2, <3>1
    <3> QED BY <1>3, <3>2
  <2> QED BY <2>1
<1>5. Max(S) \in S /\ \A y \in S : Max(S) >= y
  BY <1>4 DEF Max
<1> QED BY <1>5

-----------------------------------------------------------------------------
(* Sums over finite sets.                                                   *)

Pick(S) == CHOOSE x \in S : TRUE

(* g adds up w over every subset of S, element by element. *)
Adds(g, w, S) ==
  g = [T \in SUBSET S |-> IF T = {} THEN 0 ELSE w[Pick(T)] + g[T \ {Pick(T)}]]

Total(w, S) == (CHOOSE g : Adds(g, w, S))[S]

(* The sum of the community modules is Total.                               *)
LEMMA SumIsTotal ==
  ASSUME NEW w, NEW S
  PROVE  MapThenSumSet(LAMBDA e : w[e], S) = Total(w, S)
BY DEF MapThenSumSet, MapThenFoldSet, Pick, Adds, Total

(* A family of finite sets has a member that loses its membership with any  *)
(* of its elements: induction over finite sets, by a least counterexample.  *)
LEMMA LeastMember ==
  ASSUME NEW S, IsFiniteSet(S), NEW B, B \subseteq SUBSET S, B # {}
  PROVE  \E T \in B : \A x \in T : T \ {x} \notin B
<1>1. IsWellFoundedOn(StrictSubsetOrdering(S), SUBSET S)
  BY FS_StrictSubsetOrderingWellFounded, FS_FiniteSubsetsOfFinite, Zenon
<1>2. PICK T \in B : \A U \in B : ~ (<<U, T>> \in StrictSubsetOrdering(S))
  BY <1>1, WFMin, Zenon
<1>3. ASSUME NEW x \in T, T \ {x} \in B PROVE FALSE
  <2>1. <<T \ {x}, T>> \in StrictSubsetOrdering(S)
    BY <1>3 DEF StrictSubsetOrdering
  <2> QED BY <1>2, <1>3, <2>1
<1> QED BY <1>2, <1>3

(* What is picked is in the set. *)
LEMMA PickIn == ASSUME NEW S, S # {} PROVE Pick(S) \in S
BY DEF Pick

(* Two sums agree on the sets both know. *)
LEMMA AddsAgree ==
  ASSUME NEW S, IsFiniteSet(S), NEW U, NEW w, NEW g, NEW h, Adds(g, w, S), Adds(h, w, U)
  PROVE  \A T \in SUBSET (S \cap U) : g[T] = h[T]
<1> DEFINE B == {T \in SUBSET (S \cap U) : g[T] # h[T]}
<1>1. SUFFICES ASSUME B # {} PROVE FALSE
  OBVIOUS
<1>2. PICK T \in B : \A x \in T : T \ {x} \notin B
  <2>1. IsFiniteSet(S \cap U)
    BY FS_Subset
  <2> QED BY <1>1, <2>1, LeastMember
<1>3. T \in SUBSET U /\ T \in SUBSET S /\ g[T] # h[T]
  BY <1>2
<1>4. /\ g[T] = IF T = {} THEN 0 ELSE w[Pick(T)] + g[T \ {Pick(T)}]
      /\ h[T] = IF T = {} THEN 0 ELSE w[Pick(T)] + h[T \ {Pick(T)}]
  BY <1>3 DEF Adds
<1>5. CASE T # {}
  <2>1. T \ {Pick(T)} \notin B /\ T \ {Pick(T)} \in SUBSET (S \cap U)
    BY <1>2, <1>3, <1>5, PickIn
  <2>2. g[T \ {Pick(T)}] = h[T \ {Pick(T)}]
    BY <2>1
  <2> QED BY <1>3, <1>4, <1>5, <2>2
<1> QED BY <1>3, <1>4, <1>5

(* Every finite set has a sum. *)
LEMMA AddsExists ==
  ASSUME NEW S, IsFiniteSet(S), NEW w
  PROVE  \E g : Adds(g, w, S)
<1> DEFINE B == {T \in SUBSET S : ~ \E g : Adds(g, w, T)}
<1>1. SUFFICES ASSUME B # {} PROVE FALSE
  OBVIOUS
<1>2. PICK M \in B : \A x \in M : M \ {x} \notin B
  BY <1>1, LeastMember
<1>3. M \in SUBSET S /\ IsFiniteSet(M)
  BY <1>2, FS_Subset
<1> DEFINE part(x) == CHOOSE g : Adds(g, w, M \ {x})
           out(T) == CHOOSE x \in M : x \notin T
           sum(T) == part(out(T))[T]
           g == [T \in SUBSET M |-> IF T = {} THEN 0
                   ELSE w[Pick(T)] + sum(T \ {Pick(T)})]
<1>4. ASSUME NEW x \in M PROVE Adds(part(x), w, M \ {x}) /\ IsFiniteSet(M \ {x})
  <2>1. \E h : Adds(h, w, M \ {x})
    BY <1>2, <1>3
  <2> QED BY <1>3, <2>1, FS_RemoveElement
<1>5. ASSUME NEW T \in SUBSET M, T # M
      PROVE  sum(T) = IF T = {} THEN 0 ELSE w[Pick(T)] + sum(T \ {Pick(T)})
  <2>1. out(T) \in M /\ out(T) \notin T
    BY <1>5
  <2> DEFINE y == out(T)
             V == T \ {Pick(T)}
             z == out(V)
  <2>2. Adds(part(y), w, M \ {y}) /\ T \in SUBSET (M \ {y})
    BY <1>4, <2>1
  <2>3. part(y)[T] = IF T = {} THEN 0 ELSE w[Pick(T)] + part(y)[V]
    BY <2>2 DEF Adds
  <2>4. ASSUME T # {} PROVE part(y)[V] = part(z)[V]
    <3>1. z \in M /\ z \notin V
      BY <2>4, PickIn
    <3>2. Adds(part(z), w, M \ {z})
      BY <1>4, <3>1
    <3>3. IsFiniteSet(M \ {y})
      BY <1>4, <2>1
    <3>4. V \in SUBSET ((M \ {y}) \cap (M \ {z}))
      BY <2>1, <3>1
    <3> HIDE DEF part, y, z, V
    <3> QED BY <2>2, <3>2, <3>3, <3>4, AddsAgree
  <2> QED BY <2>3, <2>4
<1>6. \A T \in SUBSET M : T # M => g[T] = sum(T)
  BY <1>5
<1>7. Adds(g, w, M)
  <2>1. ASSUME NEW T \in SUBSET M, T # {} PROVE g[T \ {Pick(T)}] = sum(T \ {Pick(T)})
    <3>1. T \ {Pick(T)} \in SUBSET M /\ T \ {Pick(T)} # M
      BY <2>1, PickIn
    <3> HIDE DEF g, sum
    <3> QED BY <1>6, <3>1
  <2> HIDE DEF sum
  <2>2. g = [T \in SUBSET M |-> IF T = {} THEN 0 ELSE w[Pick(T)] + g[T \ {Pick(T)}]]
    BY <2>1
  <2> HIDE DEF g
  <2> QED BY <2>2 DEF Adds
<1> HIDE DEF g
<1> QED BY <1>2, <1>7

(* How Total adds up: nothing, or one element and the rest. *)
LEMMA TotalRule ==
  ASSUME NEW S, IsFiniteSet(S), NEW w
  PROVE  Total(w, S) = IF S = {} THEN 0 ELSE w[Pick(S)] + Total(w, S \ {Pick(S)})
<1> DEFINE g == CHOOSE h : Adds(h, w, S)
           R == S \ {Pick(S)}
           k == CHOOSE h : Adds(h, w, R)
<1>1. IsFiniteSet(R) /\ R \subseteq S
  BY FS_Subset
<1>2. Adds(g, w, S) /\ Adds(k, w, R)
  BY <1>1, AddsExists
<1> HIDE DEF g, k
<1>3. g[S] = IF S = {} THEN 0 ELSE w[Pick(S)] + g[R]
  BY <1>2 DEF Adds
<1>4. g[R] = k[R]
  BY <1>1, <1>2, AddsAgree
<1> QED BY <1>3, <1>4 DEF Total, g, k

(* A sum of integers is one. *)
LEMMA TotalType ==
  ASSUME NEW S, IsFiniteSet(S), NEW w, \A x \in S : w[x] \in Int
  PROVE  Total(w, S) \in Int
<1> DEFINE B == {T \in SUBSET S : Total(w, T) \notin Int}
<1>1. SUFFICES ASSUME B # {} PROVE FALSE
  OBVIOUS
<1>2. PICK T \in B : \A x \in T : T \ {x} \notin B
  BY <1>1, LeastMember
<1>3. IsFiniteSet(T) /\ T \in SUBSET S /\ Total(w, T) \notin Int
  BY <1>2, FS_Subset
<1>4. Total(w, T) = IF T = {} THEN 0 ELSE w[Pick(T)] + Total(w, T \ {Pick(T)})
  BY <1>3, TotalRule
<1>5. CASE T # {}
  BY <1>2, <1>3, <1>4, <1>5, PickIn
<1> QED BY <1>3, <1>4, <1>5

(* A sum of nothing but zeros. *)
LEMMA TotalZero ==
  ASSUME NEW S, IsFiniteSet(S), NEW w, \A x \in S : w[x] = 0
  PROVE  Total(w, S) = 0
<1> DEFINE B == {T \in SUBSET S : Total(w, T) # 0}
<1>1. SUFFICES ASSUME B # {} PROVE FALSE
  OBVIOUS
<1>2. PICK T \in B : \A x \in T : T \ {x} \notin B
  BY <1>1, LeastMember
<1>3. IsFiniteSet(T) /\ T \in SUBSET S /\ Total(w, T) # 0
  BY <1>2, FS_Subset
<1>4. Total(w, T) = IF T = {} THEN 0 ELSE w[Pick(T)] + Total(w, T \ {Pick(T)})
  BY <1>3, TotalRule
<1>5. CASE T # {}
  BY <1>2, <1>3, <1>4, <1>5, PickIn
<1> QED BY <1>3, <1>4, <1>5

(* Any element may be taken out first. *)
LEMMA TotalRemove ==
  ASSUME NEW S, IsFiniteSet(S), NEW w, \A x \in S : w[x] \in Int, NEW e \in S
  PROVE  Total(w, S) = w[e] + Total(w, S \ {e})
<1> DEFINE B == {T \in SUBSET S : \E x \in T : Total(w, T) # w[x] + Total(w, T \ {x})}
<1>1. SUFFICES ASSUME B # {} PROVE FALSE
  OBVIOUS
<1>2. PICK T \in B : \A x \in T : T \ {x} \notin B
  BY <1>1, LeastMember
<1>3. PICK x \in T : Total(w, T) # w[x] + Total(w, T \ {x})
  BY <1>2
<1> DEFINE p == Pick(T)
<1>4. T \in SUBSET S /\ IsFiniteSet(T) /\ p \in T
  BY <1>2, <1>3, FS_Subset, PickIn
<1>5. Total(w, T) = w[p] + Total(w, T \ {p})
  BY <1>3, <1>4, TotalRule
<1> HIDE DEF p
<1>6. p # x
  BY <1>3, <1>5
<1>7. Total(w, T \ {p}) = w[x] + Total(w, (T \ {p}) \ {x})
  BY <1>2, <1>4, <1>6
<1>8. Total(w, T \ {x}) = w[p] + Total(w, (T \ {x}) \ {p})
  BY <1>2, <1>4, <1>6
<1>9. (T \ {p}) \ {x} = (T \ {x}) \ {p} /\ IsFiniteSet((T \ {x}) \ {p})
  BY <1>4, FS_Subset
<1>10. Total(w, (T \ {x}) \ {p}) \in Int /\ w[x] \in Int /\ w[p] \in Int
  BY <1>4, <1>9, TotalType
<1>11. Total(w, (T \ {p}) \ {x}) = Total(w, (T \ {x}) \ {p})
  BY <1>9
<1> DEFINE n == Total(w, (T \ {x}) \ {p})
<1> HIDE DEF n
<1>12. Total(w, T) = w[p] + (w[x] + n) /\ Total(w, T \ {x}) = w[p] + n
  BY <1>5, <1>7, <1>8, <1>11 DEF n
<1> QED BY <1>3, <1>10, <1>12 DEF n

(* What is equal element by element adds up to the same. *)
LEMMA TotalSame ==
  ASSUME NEW S, IsFiniteSet(S), NEW w, NEW v, \A x \in S : w[x] = v[x]
  PROVE  Total(w, S) = Total(v, S)
<1> DEFINE B == {T \in SUBSET S : Total(w, T) # Total(v, T)}
<1>1. SUFFICES ASSUME B # {} PROVE FALSE
  OBVIOUS
<1>2. PICK T \in B : \A x \in T : T \ {x} \notin B
  BY <1>1, LeastMember
<1>3. IsFiniteSet(T) /\ T \in SUBSET S /\ Total(w, T) # Total(v, T)
  BY <1>2, FS_Subset
<1>4. /\ Total(w, T) = IF T = {} THEN 0 ELSE w[Pick(T)] + Total(w, T \ {Pick(T)})
      /\ Total(v, T) = IF T = {} THEN 0 ELSE v[Pick(T)] + Total(v, T \ {Pick(T)})
  BY <1>3, TotalRule
<1>5. CASE T # {}
  BY <1>2, <1>3, <1>4, <1>5, PickIn
<1> QED BY <1>3, <1>4, <1>5

(* Fewer and smaller elements, none below zero, add up to no more.          *)
LEMMA TotalLess ==
  ASSUME NEW S, IsFiniteSet(S), NEW w, NEW v, NEW U, U \subseteq S,
         \A x \in S : w[x] \in Nat, \A x \in U : v[x] \in Nat /\ v[x] <= w[x]
  PROVE  Total(v, U) <= Total(w, S)
<1> DEFINE B == {T \in SUBSET S : ~ (Total(v, T \cap U) <= Total(w, T))}
<1>1. SUFFICES ASSUME B # {} PROVE FALSE
  <2>1. S \in SUBSET S /\ S \cap U = U
    OBVIOUS
  <2> QED BY <2>1
<1>2. PICK T \in B : \A x \in T : T \ {x} \notin B
  BY <1>1, LeastMember
<1>3. IsFiniteSet(T) /\ T \in SUBSET S /\ ~ (Total(v, T \cap U) <= Total(w, T))
  BY <1>2, FS_Subset
<1> DEFINE p == Pick(T)
           R == T \ {p}
<1>4. T # {}
  <2>1. ASSUME T = {} PROVE T \cap U = {} /\ Total(v, {}) = 0 /\ Total(w, {}) = 0
    BY <2>1, <1>3, TotalRule, FS_EmptySet
  <2> QED BY <1>3, <2>1
<1>5. p \in T /\ Total(w, T) = w[p] + Total(w, R)
  BY <1>3, <1>4, PickIn, TotalRule
<1> HIDE DEF p
<1>6. /\ IsFiniteSet(R) /\ IsFiniteSet(R \cap U) /\ IsFiniteSet(T \cap U)
      /\ Total(w, R) \in Int /\ Total(v, R \cap U) \in Int
  <2>1. IsFiniteSet(R) /\ IsFiniteSet(R \cap U) /\ IsFiniteSet(T \cap U)
    BY <1>3, FS_Subset
  <2>2. (\A x \in R : w[x] \in Int) /\ (\A x \in R \cap U : v[x] \in Int)
    BY <1>3
  <2> QED BY <2>1, <2>2, TotalType
<1>7. Total(v, R \cap U) <= Total(w, R)
  BY <1>2, <1>3, <1>5
<1>8. CASE p \in U
  <2>1. Total(v, T \cap U) = v[p] + Total(v, (T \cap U) \ {p})
    <3>1. p \in T \cap U /\ \A x \in T \cap U : v[x] \in Int
      BY <1>5, <1>8
    <3> QED BY <1>6, <3>1, TotalRemove
  <2>2. (T \cap U) \ {p} = R \cap U
    OBVIOUS
  <2>3. v[p] \in Nat /\ w[p] \in Nat /\ v[p] <= w[p]
    BY <1>3, <1>5, <1>8
  <2> DEFINE n == Total(v, R \cap U)
             m == Total(w, R)
  <2>4. Total(v, T \cap U) = v[p] + n /\ Total(w, T) = w[p] + m
    BY <1>5, <2>1, <2>2
  <2>5. n \in Int /\ m \in Int /\ n <= m
    BY <1>6, <1>7
  <2> HIDE DEF n, m
  <2> QED BY <1>3, <2>3, <2>4, <2>5
<1>9. CASE p \notin U
  <2>1. T \cap U = R \cap U
    BY <1>9
  <2>2. w[p] \in Nat
    BY <1>3, <1>5
  <2> HIDE DEF R
  <2> QED BY <1>3, <1>5, <1>6, <1>7, <2>1, <2>2
<1> QED BY <1>8, <1>9

(* One element more, or one by so much larger: the sum grows by no more.    *)
LEMMA TotalGrows ==
  ASSUME NEW S, IsFiniteSet(S), NEW w, NEW v, NEW U, NEW x, NEW d \in Nat,
         U \subseteq S \cup {x},
         \A y \in S : w[y] \in Nat, \A y \in U : v[y] \in Nat,
         \A y \in U \ {x} : v[y] <= w[y],
         x \in U => v[x] <= d + (IF x \in S THEN w[x] ELSE 0)
  PROVE  Total(v, U) <= Total(w, S) + d
<1>1. /\ IsFiniteSet(S \ {x}) /\ IsFiniteSet(U \ {x}) /\ IsFiniteSet(U)
  BY FS_Subset, FS_AddElement
<1>2. Total(v, U \ {x}) <= Total(w, S \ {x})
  BY <1>1, TotalLess
<1>3. Total(v, U \ {x}) \in Int /\ Total(w, S \ {x}) \in Int
  <2>1. (\A y \in U \ {x} : v[y] \in Int) /\ (\A y \in S \ {x} : w[y] \in Int)
    OBVIOUS
  <2> QED BY <1>1, <2>1, TotalType
<1>4. Total(w, S) = (IF x \in S THEN w[x] ELSE 0) + Total(w, S \ {x})
  <2>1. CASE x \in S
    BY <2>1, TotalRemove
  <2>2. CASE x \notin S
    <3>1. Total(w, S) = Total(w, S \ {x})
      <4>1. S \ {x} = S
        BY <2>2
      <4> QED BY <4>1
    <3> QED BY <1>3, <2>2, <3>1
  <2> QED BY <2>1, <2>2
<1>5. Total(v, U) = (IF x \in U THEN v[x] ELSE 0) + Total(v, U \ {x})
  <2>1. CASE x \in U
    BY <1>1, <2>1, TotalRemove
  <2>2. CASE x \notin U
    <3>1. Total(v, U) = Total(v, U \ {x})
      <4>1. U \ {x} = U
        BY <2>2
      <4> QED BY <4>1
    <3> QED BY <1>3, <2>2, <3>1
  <2> QED BY <2>1, <2>2
<1> QED BY <1>2, <1>3, <1>4, <1>5

(* A sum does not change when every element moves on by one place.          *)
LEMMA TotalShift ==
  ASSUME NEW n \in Nat, NEW w, NEW v, \A i \in 0 .. n : w[i] \in Int, v[0] = 0,
         \A i \in 1 .. n : v[i] = w[i - 1]
  PROVE  Total(v, 0 .. n) = Total(w, 0 .. n - 1)
<1> DEFINE B == {k \in 0 .. n : Total(v, 0 .. k) # Total(w, 0 .. k - 1)}
<1>1. SUFFICES ASSUME B # {} PROVE FALSE
  OBVIOUS
<1>2. PICK k \in B : \A j \in B : k <= j
  <2>1. B \in SUBSET Nat
    OBVIOUS
  <2> HIDE DEF B
  <2> QED BY <1>1, <2>1, LeastOf
<1>3. k \in 0 .. n /\ Total(v, 0 .. k) # Total(w, 0 .. k - 1)
  BY <1>2
<1>4. IsFiniteSet(0 .. k) /\ IsFiniteSet(0 .. k - 1) /\ \A i \in 0 .. n : v[i] \in Int
  <2>1. \A i \in 1 .. n : i - 1 \in 0 .. n
    OBVIOUS
  <2>2. \A i \in 0 .. n : i = 0 \/ i \in 1 .. n
    OBVIOUS
  <2>3. \A i \in 0 .. n : v[i] \in Int
    BY <2>1, <2>2
  <2> QED BY <1>3, <2>3, FS_Interval
<1>5. Total(v, 0 .. k) = v[k] + Total(v, (0 .. k) \ {k})
  <2>1. k \in 0 .. k /\ \A i \in 0 .. k : v[i] \in Int
    BY <1>3, <1>4
  <2> QED BY <1>4, <2>1, TotalRemove
<1>6. (0 .. k) \ {k} = 0 .. k - 1
  BY <1>3
<1>7. Total(v, 0 .. k) = v[k] + Total(v, 0 .. k - 1)
  BY <1>5, <1>6
<1>8. CASE k = 0
  <2>1. 0 .. k - 1 = {}
    BY <1>8
  <2>2. Total(v, {}) = 0 /\ Total(w, {}) = 0
    BY FS_EmptySet, TotalRule
  <2> QED BY <1>3, <1>7, <1>8, <2>1, <2>2
<1>9. CASE k # 0
  <2>1. k - 1 \in 0 .. n /\ ~ (k <= k - 1) /\ k \in 1 .. n
    BY <1>3, <1>9
  <2>2. Total(v, 0 .. k - 1) = Total(w, 0 .. (k - 1) - 1)
    <3>1. k - 1 \notin B
      BY <1>2, <2>1
    <3> HIDE DEF Total
    <3> QED BY <2>1, <3>1
  <2>3. Total(w, 0 .. k - 1) = w[k - 1] + Total(w, (0 .. k - 1) \ {k - 1})
    <3>1. k - 1 \in 0 .. k - 1 /\ \A i \in 0 .. k - 1 : w[i] \in Int
      BY <1>3, <2>1
    <3> QED BY <1>4, <3>1, TotalRemove
  <2>4. (0 .. k - 1) \ {k - 1} = 0 .. (k - 1) - 1
    BY <1>3, <1>9
  <2> QED BY <1>3, <1>7, <2>1, <2>2, <2>3, <2>4
<1> QED BY <1>8, <1>9

(* No number of a sum is below zero, so the sum is not.                     *)
LEMMA TotalNat ==
  ASSUME NEW S, IsFiniteSet(S), NEW w, \A x \in S : w[x] \in Nat
  PROVE  Total(w, S) \in Nat
<1>1. Total(w, S) \in Int /\ Total(w, {}) = 0
  BY TotalType, TotalRule, FS_EmptySet
<1>2. Total(w, {}) <= Total(w, S)
  BY TotalLess
<1> QED BY <1>1, <1>2
=============================================================================
