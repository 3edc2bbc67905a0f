----------------------------- MODULE FoldLemmas -----------------------------
(***************************************************************************)
(* A fold over a sequence, one element at a time: what SequencesExt's      *)
(* FoldLeft computes with an operator Op, put for it where the module is   *)
(* instantiated.                                                           *)
(***************************************************************************)
EXTENDS Integers, Sequences, SetLemmas

CONSTANT Op(_, _)

-----------------------------------------------------------------------------
Top(T) == CHOOSE x \in T : \A y \in T : x >= y

(* g folds the elements of s at the places of every part of S. *)
Folds(g, b, s, S) ==
  g = [T \in SUBSET S |-> IF T = {} THEN b ELSE Op(g[T \ {Top(T)}], s[Top(T)])]

(* The fold of all of s, and that of its first k elements. *)
Fold(b, s) == (CHOOSE g : Folds(g, b, s, DOMAIN s))[DOMAIN s]
Run(b, s, k) == (CHOOSE g : Folds(g, b, s, 1 .. Len(s)))[1 .. k]

(* The last of a set of places is one of them. *)
LEMMA TopPlace ==
  ASSUME NEW n \in Nat, NEW T \in SUBSET (1 .. n), T # {}
  PROVE  Top(T) \in T /\ \A y \in T : y <= Top(T)
<1>1. T \in SUBSET (0 .. n)
  OBVIOUS
<1>2. Max(T) \in T /\ \A y \in T : y <= Max(T)
  BY <1>1, GreatestOf
<1>3. Max(T) = Top(T)
  BY DEF Max, Top
<1> QED BY <1>2, <1>3

(* The sets of places in a sequence. *)
Places(n) == SUBSET (1 .. n)

(* Two folds agree on the sets both know, ... *)
LEMMA FoldsAgree ==
  ASSUME NEW n \in Nat, NEW S \in Places(n), NEW U \in Places(n), NEW b, NEW s, NEW g, NEW h,
         Folds(g, b, s, S), Folds(h, b, s, U)
  PROVE  \A T \in SUBSET (S \cap U) : g[T] = h[T]
<1> DEFINE B == {T \in SUBSET (S \cap U) : g[T] # h[T]}
<1>1. SUFFICES ASSUME B # {} PROVE FALSE
  OBVIOUS
<1>2. PICK T \in B : \A x \in T : T \ {x} \notin B
  <2>1. IsFiniteSet(S \cap U)
    <3>1. 1 \in Int /\ n \in Int /\ S \cap U \in SUBSET (1 .. n)
      BY DEF Places
    <3>2. IsFiniteSet(1 .. n)
      BY <3>1, FS_Interval
    <3> QED BY <3>1, <3>2, FS_Subset
  <2> QED BY <1>1, <2>1, LeastMember
<1> DEFINE m == Top(T)
<1>3. T \in SUBSET U /\ T \in SUBSET S /\ T \in SUBSET (1 .. n) /\ g[T] # h[T]
  BY <1>2 DEF Places
<1>4. /\ g[T] = IF T = {} THEN b ELSE Op(g[T \ {m}], s[m])
      /\ h[T] = IF T = {} THEN b ELSE Op(h[T \ {m}], s[m])
  BY <1>3 DEF Folds
<1>5. T # {} => m \in T
  BY <1>3, TopPlace
<1> HIDE DEF m
<1>6. CASE T # {}
  <2>1. T \ {m} \notin B /\ T \ {m} \in SUBSET (S \cap U)
    BY <1>2, <1>3, <1>5, <1>6
  <2>2. g[T \ {m}] = h[T \ {m}]
    BY <2>1
  <2> QED BY <1>3, <1>4, <1>6, <2>2
<1> QED BY <1>3, <1>4, <1>6

(* ... and every sequence has one. *)
LEMMA FoldsExists ==
  ASSUME NEW n \in Nat, NEW b, NEW s
  PROVE  \E g : Folds(g, b, s, 1 .. n)
<1> DEFINE B == {T \in SUBSET (1 .. n) : ~ \E g : Folds(g, b, s, T)}
<1>1. SUFFICES ASSUME B # {} PROVE FALSE
  OBVIOUS
<1>2. PICK M \in B : \A x \in M : M \ {x} \notin B
  <2>1. 1 \in Int /\ n \in Int
    OBVIOUS
  <2>2. IsFiniteSet(1 .. n)
    BY <2>1, FS_Interval
  <2> QED BY <1>1, <2>2, LeastMember
<1>3. M \in SUBSET (1 .. n)
  BY <1>2
<1> DEFINE part(x) == CHOOSE g : Folds(g, b, s, M \ {x})
           out(T) == CHOOSE x \in M : x \notin T
           rest(T) == part(out(T))[T]
           g == [T \in SUBSET M |-> IF T = {} THEN b ELSE Op(rest(T \ {Top(T)}), s[Top(T)])]
<1>4. ASSUME NEW x \in M PROVE Folds(part(x), b, s, M \ {x}) /\ M \ {x} \in Places(n)
  <2>1. \E h : Folds(h, b, s, M \ {x})
    BY <1>2, <1>3
  <2> QED BY <1>3, <2>1 DEF Places
<1>5. ASSUME NEW T \in SUBSET M, T # M
      PROVE  rest(T) = IF T = {} THEN b ELSE Op(rest(T \ {Top(T)}), s[Top(T)])
  <2>1. out(T) \in M /\ out(T) \notin T
    BY <1>5
  <2> DEFINE y == out(T)
             m == Top(T)
             V == T \ {m}
             z == out(V)
  <2>2. Folds(part(y), b, s, M \ {y}) /\ T \in SUBSET (M \ {y})
    BY <1>4, <2>1
  <2>3. part(y)[T] = IF T = {} THEN b ELSE Op(part(y)[V], s[m])
    BY <2>2 DEF Folds
  <2>4. ASSUME T # {} PROVE part(y)[V] = part(z)[V]
    <3>1. z \in M /\ z \notin V
      BY <2>4, <1>3, TopPlace
    <3>2. Folds(part(z), b, s, M \ {z}) /\ M \ {z} \in Places(n)
      BY <1>4, <3>1
    <3>3. M \ {y} \in Places(n)
      BY <1>4, <2>1
    <3>4. V \in SUBSET ((M \ {y}) \cap (M \ {z}))
      BY <2>1, <3>1
    <3> HIDE DEF part, y, z, V
    <3>5. Folds(part(y), b, s, M \ {y})
      BY <2>2
    <3> DEFINE a == part(y)
               c == part(z)
               A == M \ {y}
               C == M \ {z}
    <3>6. Folds(a, b, s, A) /\ Folds(c, b, s, C) /\ A \in Places(n) /\ C \in Places(n)
      BY <3>2, <3>3, <3>5
    <3> HIDE DEF a, c, A, C
    <3>7. \A W \in SUBSET (A \cap C) : a[W] = c[W]
      BY <3>6, FoldsAgree
    <3> QED BY <3>4, <3>7 DEF a, c, A, C
  <2> QED BY <2>3, <2>4
<1>6. \A T \in SUBSET M : T # M => g[T] = rest(T)
  BY <1>5
<1>7. Folds(g, b, s, M)
  <2>1. ASSUME NEW T \in SUBSET M, T # {} PROVE g[T \ {Top(T)}] = rest(T \ {Top(T)})
    <3>1. T \ {Top(T)} \in SUBSET M /\ T \ {Top(T)} # M
      BY <2>1, <1>3, TopPlace
    <3> HIDE DEF g, rest
    <3> QED BY <1>6, <3>1
  <2> HIDE DEF rest
  <2>2. g = [T \in SUBSET M |-> IF T = {} THEN b ELSE Op(g[T \ {Top(T)}], s[Top(T)])]
    BY <2>1
  <2> HIDE DEF g
  <2> QED BY <2>2 DEF Folds
<1> HIDE DEF g
<1> QED BY <1>2, <1>7

(* The whole fold, and its beginning; ... *)
LEMMA RunIsFold ==
  ASSUME NEW b, NEW s, Len(s) \in Nat, DOMAIN s = 1 .. Len(s)
  PROVE  Fold(b, s) = Run(b, s, Len(s)) /\ Run(b, s, 0) = b
<1> DEFINE g == CHOOSE h : Folds(h, b, s, 1 .. Len(s))
<1>1. Folds(g, b, s, 1 .. Len(s))
  BY FoldsExists
<1>2. Fold(b, s) = g[1 .. Len(s)] /\ \A k : Run(b, s, k) = g[1 .. k]
  BY DEF Fold, Run
<1> HIDE DEF g
<1>3. 1 .. 0 = {} /\ 1 .. 0 \in SUBSET (1 .. Len(s))
  OBVIOUS
<1> QED BY <1>1, <1>2, <1>3 DEF Folds

(* ... and the fold of one element more. *)
LEMMA RunStep ==
  ASSUME NEW b, NEW s, Len(s) \in Nat, DOMAIN s = 1 .. Len(s), NEW k \in 1 .. Len(s)
  PROVE  Run(b, s, k) = Op(Run(b, s, k - 1), s[k])
<1> DEFINE g == CHOOSE h : Folds(h, b, s, 1 .. Len(s))
<1>1. Folds(g, b, s, 1 .. Len(s))
  BY FoldsExists
<1>2. \A j : Run(b, s, j) = g[1 .. j]
  BY DEF Run
<1> HIDE DEF g
<1>3. 1 .. k \in SUBSET (1 .. Len(s)) /\ 1 .. k # {} /\ (1 .. k) \ {k} = 1 .. k - 1
  <2>1. k \in Nat /\ 1 <= k /\ k <= Len(s)
    OBVIOUS
  <2>2. k \in 1 .. k
    BY <2>1
  <2>3. \A i : i \in 1 .. k => i \in 1 .. Len(s)
    BY <2>1
  <2>4. \A i : i \in (1 .. k) \ {k} <=> i \in 1 .. k - 1
    BY <2>1
  <2> QED BY <2>2, <2>3, <2>4
<1>4. Top(1 .. k) = k
  <2>1. k \in Nat /\ 1 .. k \in SUBSET (1 .. k) /\ k \in 1 .. k
    OBVIOUS
  <2>2. Top(1 .. k) \in 1 .. k /\ k <= Top(1 .. k)
    BY <1>3, <2>1, TopPlace
  <2> QED BY <2>1, <2>2
<1>5. g[1 .. k] = Op(g[1 .. k - 1], s[k])
  BY <1>1, <1>3, <1>4 DEF Folds
<1> QED BY <1>2, <1>5
=============================================================================
