-------------------------- MODULE RoundTripsProofs --------------------------
(***************************************************************************)
(* That the round trips built are the account's, and their rows too, for   *)
(* every choice of the constants.  The positions of the fills are a path:  *)
(* each starts where the one before ended.  So the chain finds their order *)
(* whatever their ids, one fill at a time the trips built are those of the *)
(* path, and each writer adds the trips the other has not written.         *)
(***************************************************************************)
EXTENDS RoundTrips, SetLemmas, SequenceTheorems, TLAPS

Chains == INSTANCE FoldLemmas WITH Op <- ChainStep
Builds == INSTANCE FoldLemmas WITH Op <- BuildStep
Puts == INSTANCE FoldLemmas WITH Op <- PutTrip

-----------------------------------------------------------------------------
(* Induction up to a bound. *)
LEMMA UpTo ==
  ASSUME NEW n \in Nat, NEW S, 0 \in S, \A k \in Nat : k < n /\ k \in S => k + 1 \in S
  PROVE  \A k \in 0 .. n : k \in S
<1> DEFINE M == {k \in 0 .. n : k \notin S}
<1>1. SUFFICES ASSUME M # {} PROVE FALSE
  OBVIOUS
<1>2. PICK k \in M : \A j \in M : k <= j
  <2>1. M \in SUBSET Nat
    OBVIOUS
  <2> QED BY <1>1, <2>1, LeastOf
<1>3. k \in Nat /\ k # 0 /\ k <= n
  OBVIOUS
<1>4. k - 1 \in S
  <2>1. k - 1 \in 0 .. n /\ k - 1 \notin M
    BY <1>2, <1>3
  <2> QED BY <2>1
<1>5. k \in S
  BY <1>3, <1>4
<1> QED BY <1>5

(* What a set of numbers has is counted up to n. *)
LEMMA CountTo ==
  ASSUME NEW m \in Nat, NEW n \in Nat, m <= n
  PROVE  IsFiniteSet(m + 1 .. n) /\ Cardinality(m + 1 .. n) = n - m
<1>1. m + 1 \in Int /\ n \in Int
  OBVIOUS
<1>2. IsFiniteSet(m + 1 .. n) /\ Cardinality(m + 1 .. n) = IF m + 1 > n THEN 0 ELSE n - (m + 1) + 1
  BY <1>1, FS_Interval, Zenon
<1> QED BY <1>2

(* The folds of the module, as those of FoldLemmas. *)
Start(rows) == [out |-> <<>>, left |-> rows, pos |-> [known |-> FALSE, at |-> 0]]
Count(n) == [k \in 1 .. n |-> k]

(* The fills in order, as a fold of the chain step. *)
LEMMA ChainFold ==
  ASSUME NEW rows
  PROVE  ChainSameTime(rows) = Chains!Fold(Start(rows), Count(Cardinality(rows))).out
BY DEF ChainSameTime, FoldLeft, MapThenFoldSet, Max, Chains!Fold, Chains!Folds, Chains!Top, Start, Count

(* The trips built, as a fold of the step of one fill. *)
LEMMA BuildFold ==
  ASSUME NEW rows
  PROVE  BuildTrips(rows) = Builds!Fold(Unbuilt, ChainSameTime(rows)).trips
BY DEF BuildTrips, FoldLeft, MapThenFoldSet, Max, Builds!Fold, Builds!Folds, Builds!Top

(* The rows after a write, as a fold over the trips written. *)
LEMMA UpsertFold ==
  ASSUME NEW new
  PROVE  Upsert(new) = Puts!Fold(written, new)
BY DEF Upsert, FoldLeft, MapThenFoldSet, Max, Puts!Fold, Puts!Folds, Puts!Top

-----------------------------------------------------------------------------
(* The path: each fill starts where the one before it ended, and is not     *)
(* before it.                                                                *)
Path ==
  /\ fills \in Seq(FillRec) /\ Len(fills) <= MaxFills /\ (fills = <<>> => over)
  /\ \A i \in 1 .. Len(fills) : fills[i].start # fills[i].end /\ fills[i].ms # 0
  /\ \A i \in 1 .. Len(fills) : i > 1 => fills[i].start = fills[i - 1].end
  /\ \A i, j \in 1 .. Len(fills) : i < j => fills[i].ms <= fills[j].ms

(* A fill of the path. *)
LEMMA FillTypes ==
  ASSUME Path, NEW i \in 1 .. Len(fills)
  PROVE  /\ fills[i] \in FillRec /\ fills[i].ms \in Nat \ {0} /\ fills[i].start \in Int /\ fills[i].end \in Int
         /\ fills[i].start # fills[i].end
<1>1. fills[i] \in FillRec
  BY DEF Path
<1> QED BY <1>1, TripsConstants DEF Path, FillRec

(* The fills from cut on. *)
From(cut) == {fills[i] : i \in cut + 1 .. Len(fills)}

(* What is stored, where everything from some fill on is. *)
LEMMA StoredIs ==
  ASSUME Path, NEW cut \in 0 .. Len(fills), StoredFrom(cut)
  PROVE  Stored = From(cut)
<1>1. Len(fills) \in Nat
  BY DEF Path
<1>2. \A i : i \in {j \in 1 .. Len(fills) : fills[j].stored} <=> i \in cut + 1 .. Len(fills)
  BY <1>1 DEF StoredFrom
<1> QED BY <1>2 DEF Stored, From

(* Where no position comes twice in a millisecond no two fills are alike. *)
LEMMA FillsDiffer ==
  ASSUME Path, Distinct, NEW i \in 1 .. Len(fills), NEW j \in 1 .. Len(fills), i # j
  PROVE  fills[i] # fills[j]
<1>1. Len(fills) \in Nat /\ i \in Nat /\ j \in Nat
  BY DEF Path
<1>2. CASE i < j
  BY <1>2 DEF Distinct
<1>3. CASE j < i
  BY <1>3 DEF Distinct
<1> QED BY <1>1, <1>2, <1>3

(* As many fills are stored as were made since. *)
LEMMA CountFrom ==
  ASSUME Path, Distinct, NEW cut \in 0 .. Len(fills)
  PROVE  IsFiniteSet(From(cut)) /\ Cardinality(From(cut)) = Len(fills) - cut
<1> DEFINE I == cut + 1 .. Len(fills)
           h == [i \in I |-> fills[i]]
<1>1. Len(fills) \in Nat /\ cut \in Nat /\ cut <= Len(fills) /\ I \subseteq 1 .. Len(fills)
  BY DEF Path
<1>2. IsFiniteSet(I) /\ Cardinality(I) = Len(fills) - cut
  BY <1>1, CountTo
<1>3. h \in Bijection(I, From(cut))
  <2>1. h \in [I -> From(cut)]
    BY DEF From
  <2>2. \A i, j \in I : h[i] = h[j] => i = j
    BY <1>1, FillsDiffer
  <2>3. \A f \in From(cut) : \E i \in I : h[i] = f
    BY DEF From
  <2> QED BY <2>1, <2>2, <2>3 DEF Bijection, Injection, Surjection, IsInjective
<1> HIDE DEF I, h
<1>4. IsFiniteSet(From(cut)) /\ Cardinality(From(cut)) = Cardinality(I)
  <2>1. ExistsBijection(I, From(cut))
    BY <1>3 DEF ExistsBijection
  <2> QED BY <1>2, <2>1, FS_Bijection
<1> QED BY <1>2, <1>4

-----------------------------------------------------------------------------
(* The chain takes the fills in the order they happened.                    *)

(* The first group of what is left begins at the next fill. *)
LEMMA GroupIs ==
  ASSUME Path, NEW p \in 1 .. Len(fills)
  PROVE  FirstGroup(From(p - 1)) = {fills[i] : i \in {j \in p .. Len(fills) : fills[j].ms = fills[p].ms}}
<1>1. Len(fills) \in Nat /\ p \in Nat /\ p - 1 + 1 = p
  BY DEF Path
<1>2. From(p - 1) = {fills[i] : i \in p .. Len(fills)}
  BY <1>1 DEF From
<1>3. \A i \in p .. Len(fills) : i \in 1 .. Len(fills) /\ fills[i].ms \in Nat /\ fills[p].ms <= fills[i].ms
  <2>1. ASSUME NEW i \in p .. Len(fills)
        PROVE  i \in 1 .. Len(fills) /\ fills[i].ms \in Nat /\ fills[p].ms <= fills[i].ms
    <3>1. i \in 1 .. Len(fills) /\ i \in Nat /\ (i = p \/ p < i)
      BY <1>1
    <3>2. fills[i].ms \in Nat /\ fills[p].ms \in Nat
      BY <3>1, FillTypes
    <3> QED BY <3>1, <3>2 DEF Path
  <2> QED BY <2>1
<1>4. p \in p .. Len(fills) /\ fills[p].ms \in Nat
  BY <1>1, FillTypes
<1>5. ASSUME NEW i \in p .. Len(fills)
      PROVE  (\A g \in From(p - 1) : fills[i].ms <= g.ms) <=> fills[i].ms = fills[p].ms
  <2>1. fills[i].ms \in Nat /\ fills[p].ms <= fills[i].ms
    BY <1>3
  <2> QED BY <1>2, <1>3, <1>4, <2>1
<1> QED BY <1>2, <1>5 DEF FirstGroup

(* The first of one fill. *)
LEMMA FirstOfOne == ASSUME NEW f, f.tid \in Nat PROVE FirstByTid({f}) = f
<1>1. \E h \in {f} : \A g \in {f} : h.tid <= g.tid
  OBVIOUS
<1> QED BY <1>1 DEF FirstByTid

(* Wherever the chain begins, and wherever it stands, the next fill follows. *)
LEMMA NextFill ==
  ASSUME Path, Distinct, NEW p \in 1 .. Len(fills), NEW pos,
         ~pos.known \/ (pos.known = TRUE /\ pos.at = fills[p].start)
  PROVE  NextOf(FirstGroup(From(p - 1)), pos) = fills[p]
<1> DEFINE I == {j \in p .. Len(fills) : fills[j].ms = fills[p].ms}
           group == {fills[i] : i \in I}
           follows == {f \in group : pos.known /\ f.start = pos.at}
           roots == {f \in group : \A g \in group : g.end # f.start}
<1>1. Len(fills) \in Nat /\ p \in Nat /\ p \in I /\ I \subseteq 1 .. Len(fills)
  BY DEF Path
<1>2. FirstGroup(From(p - 1)) = group
  BY GroupIs
<1>3. fills[p].tid \in Nat
  BY FillTypes, TripsConstants DEF FillRec
<1>4. ASSUME NEW i \in I, i # p PROVE fills[i].start # fills[p].start /\ fills[i].end # fills[p].start
  <2>1. p < i /\ i \in 1 .. Len(fills) /\ fills[i].ms = fills[p].ms
    BY <1>1, <1>4
  <2> QED BY <2>1 DEF Distinct
<1>5. CASE ~pos.known
  <2>1. follows = {}
    BY <1>5
  <2>2. fills[p] \in roots
    <3>1. \A i \in I : fills[i].end # fills[p].start
      <4>1. fills[p].end # fills[p].start
        BY FillTypes
      <4> QED BY <1>4, <4>1
    <3> QED BY <1>1, <3>1
  <2>3. ASSUME NEW i \in I, i # p PROVE fills[i] \notin roots
    <3>1. i \in Nat /\ p < i /\ i <= Len(fills) /\ i - 1 \in 1 .. Len(fills) /\ i - 1 \in p .. Len(fills) /\ i \in 1 .. Len(fills)
      BY <1>1, <2>3
    <3>2. fills[i - 1].ms = fills[p].ms
      <4>1. fills[i - 1].ms \in Nat /\ fills[i].ms \in Nat /\ fills[p].ms \in Nat /\ fills[i].ms = fills[p].ms
        BY <3>1, FillTypes
      <4>2. fills[i - 1].ms <= fills[i].ms
        BY <3>1 DEF Path
      <4>3. i - 1 = p \/ p < i - 1
        BY <3>1, <1>1
      <4>4. fills[p].ms <= fills[i - 1].ms
        BY <3>1, <4>1, <4>3 DEF Path
      <4> QED BY <4>1, <4>2, <4>4
    <3>3. fills[i - 1] \in group
      BY <3>1, <3>2
    <3>4. fills[i - 1].end = fills[i].start
      <4>1. i > 1
        BY <3>1, <1>1
      <4> QED BY <3>1, <4>1 DEF Path
    <3> QED BY <3>3, <3>4
  <2>4. roots = {fills[p]}
    BY <2>2, <2>3
  <2>5. NextOf(group, pos) = FirstByTid(roots)
    <3> HIDE DEF group
    <3>1. roots # {}
      BY <2>4
    <3> QED BY <2>1, <3>1 DEF NextOf
  <2> QED BY <1>2, <1>3, <2>4, <2>5, FirstOfOne
<1>6. CASE pos.known = TRUE /\ pos.at = fills[p].start
  <2>1. follows = {fills[p]}
    BY <1>1, <1>4, <1>6
  <2>2. NextOf(group, pos) = FirstByTid(follows)
    <3> HIDE DEF group
    <3>1. follows # {}
      BY <2>1
    <3> QED BY <3>1 DEF NextOf
  <2> QED BY <1>2, <1>3, <2>1, <2>2, FirstOfOne
<1> QED BY <1>5, <1>6

(* The fills from cut on, in order. *)
FillsInOrder(cut) == [n \in 1 .. Len(fills) - cut |-> fills[cut + n]]

(* The chain puts the fills in the order they happened in, whatever order *)
(* their ids put them in.                                                 *)
LEMMA ChainInOrder ==
  ASSUME Path, Distinct, NEW cut \in 0 .. Len(fills)
  PROVE  ChainSameTime(From(cut)) = FillsInOrder(cut)
<1> DEFINE M == Len(fills) - cut
           st(k) == Chains!Run(Start(From(cut)), Count(M), k)
           want(k) == [out |-> [n \in 1 .. k |-> fills[cut + n]], left |-> From(cut + k),
                       pos |-> IF k = 0 THEN [known |-> FALSE, at |-> 0]
                               ELSE [known |-> TRUE, at |-> fills[cut + k].end]]
           S == {k \in 0 .. M : st(k) = want(k)}
<1>1. Len(fills) \in Nat /\ cut \in Nat /\ M \in Nat /\ cut <= Len(fills)
  BY DEF Path
<1>2. Len(Count(M)) = M /\ DOMAIN Count(M) = 1 .. M
  BY <1>1 DEF Count
<1>3. Cardinality(From(cut)) = M
  BY CountFrom
<1>4. /\ Chains!Fold(Start(From(cut)), Count(M)) = st(M) /\ st(0) = Start(From(cut))
      /\ \A k \in 1 .. M : st(k) = ChainStep(st(k - 1), Count(M)[k])
  <2> DEFINE s == Count(M)
             b == Start(From(cut))
  <2>1. Len(s) \in Nat /\ DOMAIN s = 1 .. Len(s)
    BY <1>1, <1>2
  <2>2. Len(s) = M
    BY <1>2
  <2> HIDE DEF s, b, M
  <2>3. Chains!Fold(b, s) = Chains!Run(b, s, Len(s)) /\ Chains!Run(b, s, 0) = b
    BY <2>1, Chains!RunIsFold
  <2>4. ASSUME NEW k \in 1 .. Len(s) PROVE Chains!Run(b, s, k) = ChainStep(Chains!Run(b, s, k - 1), s[k])
    BY <2>1, Chains!RunStep
  <2> QED BY <2>2, <2>3, <2>4 DEF s, b
<1>5. 0 \in S
  <2>1. [n \in 1 .. 0 |-> fills[cut + n]] = <<>>
    OBVIOUS
  <2>2. cut + 0 = cut
    BY <1>1
  <2> QED BY <1>1, <1>4, <2>1, <2>2 DEF Start
<1>6. ASSUME NEW k \in Nat, k < M, k \in S PROVE k + 1 \in S
  <2> DEFINE p == cut + k + 1
             a == want(k)
  <2>1. p \in 1 .. Len(fills) /\ p - 1 = cut + k /\ p \in Nat /\ k + 1 \in 1 .. M /\ k + 1 - 1 = k /\ cut + (k + 1) = p
    BY <1>1, <1>6
  <2>2. st(k + 1) = ChainStep(a, Count(M)[k + 1])
    <3> HIDE DEF M, want, st
    <3> QED BY <1>4, <1>6, <2>1
  <2>3. NextOf(FirstGroup(a.left), a.pos) = fills[p]
    <3>1. a.left = From(p - 1)
      BY <2>1
    <3>2. ~a.pos.known \/ (a.pos.known = TRUE /\ a.pos.at = fills[p].start)
      <4>1. CASE k = 0
        BY <4>1
      <4>2. CASE k # 0
        <5>1. p > 1 /\ fills[p].start = fills[p - 1].end
          BY <1>1, <2>1, <4>2 DEF Path
        <5> QED BY <4>2, <5>1, <2>1
      <4> QED BY <4>1, <4>2
    <3> HIDE DEF a, p
    <3> QED BY <2>1, <3>1, <3>2, NextFill
  <2>4. a.left \ {fills[p]} = From(p)
    <3>1. \A i \in p + 1 .. Len(fills) : fills[i] # fills[p]
      <4>1. \A i \in p + 1 .. Len(fills) : i \in 1 .. Len(fills) /\ i # p
        BY <1>1, <2>1
      <4> QED BY <2>1, <4>1, FillsDiffer
    <3>2. \A i : i \in p .. Len(fills) <=> (i = p \/ i \in p + 1 .. Len(fills))
      BY <1>1, <2>1
    <3>3. a.left = {fills[i] : i \in p .. Len(fills)}
      BY <1>1 DEF From
    <3> QED BY <3>1, <3>2, <3>3 DEF From
  <2>5. Append(a.out, fills[p]) = [n \in 1 .. k + 1 |-> fills[cut + n]]
    BY <1>1, <1>6, <2>1
  <2>6. st(k + 1) = [out |-> Append(a.out, fills[p]), left |-> a.left \ {fills[p]}, pos |-> [known |-> TRUE, at |-> fills[p].end]]
    BY <2>2, <2>3 DEF ChainStep
  <2>7. st(k + 1) = want(k + 1)
    <3> HIDE DEF st, a
    <3>1. k + 1 # 0
      BY <1>6
    <3> QED BY <2>1, <2>4, <2>5, <2>6, <3>1
  <2> QED BY <2>1, <2>7
<1>7. st(M) = want(M)
  <2> HIDE DEF st, want
  <2>1. \A k \in 0 .. M : k \in S
    <3> HIDE DEF S, M
    <3> QED BY <1>1, <1>5, <1>6, UpTo
  <2>2. M \in 0 .. M
    BY <1>1
  <2> QED BY <2>1, <2>2
<1> QED BY <1>3, <1>4, <1>7, ChainFold DEF FillsInOrder

-----------------------------------------------------------------------------
(* One fill of the trips: what it closes and opens, and what is built.      *)
Moves(f) == f.start \in Int /\ f.end \in Int /\ f.start # f.end /\ f.ms \in Nat

(* Every fill of the path moves the position. *)
LEMMA PathMoves == ASSUME Path, NEW i \in 1 .. Len(fills) PROVE Moves(fills[i])
BY FillTypes DEF Moves

Begins(f) == f.start = 0
Grows(f) == f.start # 0 /\ f.end # 0 /\ ~Opposite(f.start, f.end) /\ Abs(f.start) < Abs(f.end)
Shrinks(f) == f.start # 0 /\ f.end # 0 /\ ~Opposite(f.start, f.end) /\ Abs(f.end) < Abs(f.start)
Flattens(f) == f.start # 0 /\ f.end = 0

(* A fill begins a position, grows it, shrinks it, flattens it or flips it. *)
LEMMA Kinds ==
  ASSUME NEW f, Moves(f)
  PROVE  Begins(f) \/ Grows(f) \/ Shrinks(f) \/ Flattens(f) \/ Flips(f)
BY DEF Moves, Begins, Grows, Shrinks, Flattens, Flips, Opposite, Abs

(* What each kind of fill closes and opens. *)
LEMMA PartsOf ==
  ASSUME NEW f, Moves(f)
  PROVE  /\ Abs(f.start) \in Nat /\ Abs(f.end) \in Nat
         /\ Begins(f) => ClosedPart(f) = 0 /\ OpenedPart(f) = Abs(f.end) /\ Abs(f.end) > 0 /\ ~EndsTrip(f)
         /\ Grows(f) => ClosedPart(f) = 0 /\ OpenedPart(f) = Abs(f.end) - Abs(f.start) /\ ~EndsTrip(f)
         /\ Shrinks(f) => ClosedPart(f) = Abs(f.start) - Abs(f.end) /\ OpenedPart(f) = 0 /\ ~EndsTrip(f)
         /\ Flattens(f) => ClosedPart(f) = Abs(f.start) /\ Abs(f.start) > 0 /\ OpenedPart(f) = 0 /\ EndsTrip(f)
         /\ Flips(f) => ClosedPart(f) = Abs(f.start) /\ Abs(f.start) > 0 /\ Abs(f.end) > 0
                        /\ OpenedPart(f) = Abs(f.end) /\ EndsTrip(f)
<1> USE DEF Moves, Abs
<1>1. Abs(f.start) \in Nat /\ Abs(f.end) \in Nat
  OBVIOUS
<1>2. ASSUME Begins(f)
      PROVE  ClosedPart(f) = 0 /\ OpenedPart(f) = Abs(f.end) /\ Abs(f.end) > 0 /\ ~EndsTrip(f)
  BY <1>2 DEF Begins, ClosedPart, OpenedPart, EndsTrip
<1>3. ASSUME Grows(f)
      PROVE  ClosedPart(f) = 0 /\ OpenedPart(f) = Abs(f.end) - Abs(f.start) /\ ~EndsTrip(f)
  BY <1>3 DEF Grows, ClosedPart, OpenedPart, EndsTrip, Opposite
<1>4. ASSUME Shrinks(f)
      PROVE  ClosedPart(f) = Abs(f.start) - Abs(f.end) /\ OpenedPart(f) = 0 /\ ~EndsTrip(f)
  BY <1>4 DEF Shrinks, ClosedPart, OpenedPart, EndsTrip, Opposite, Lesser
<1>5. ASSUME Flattens(f)
      PROVE  ClosedPart(f) = Abs(f.start) /\ Abs(f.start) > 0 /\ OpenedPart(f) = 0 /\ EndsTrip(f)
  BY <1>5 DEF Flattens, ClosedPart, OpenedPart, EndsTrip, Opposite, Lesser
<1>6. ASSUME Flips(f)
      PROVE  /\ ClosedPart(f) = Abs(f.start) /\ Abs(f.start) > 0 /\ Abs(f.end) > 0
             /\ OpenedPart(f) = Abs(f.end) /\ EndsTrip(f)
  BY <1>6 DEF Flips, ClosedPart, OpenedPart, EndsTrip, Opposite, Lesser
<1> QED BY <1>1, <1>2, <1>3, <1>4, <1>5, <1>6

(* A trip just begun, of n lots. *)
FreshTrip(f, n) == [side |-> SideOf(f.end), open |-> f.ms, close |-> 0, entry |-> n, exit |-> 0]

AccRec == [trips : Seq(TripRec), trip : TripRec \cup {NoTrip}, pos : Int, known : BOOLEAN, flat : BOOLEAN]

(* The missing trip is not a trip. *)
LEMMA NoTripIsNone == NoTrip \notin TripRec
BY DEF NoTrip, TripRec

(* A step, with its parts named. *)
Flat(acc, f) == StillFlat(acc, f) \/ f.start = 0
Less(acc, f) == IF ClosedPart(f) > 0 /\ acc.trip # NoTrip THEN [acc.trip EXCEPT !.exit = @ + ClosedPart(f)] ELSE acc.trip
Rest(acc, f) == IF EndsTrip(f) THEN NoTrip ELSE Less(acc, f)
Begun(acc, f) ==
  IF Rest(acc, f) = NoTrip THEN [NoTrip EXCEPT !.side = SideOf(f.end), !.open = f.ms] ELSE Rest(acc, f)
Opens(acc, f) == OpenedPart(f) > 0 /\ (Rest(acc, f) # NoTrip \/ Flat(acc, f) \/ EndsTrip(f))

TripsNext(acc, f) ==
  IF EndsTrip(f) /\ Less(acc, f) # NoTrip THEN Append(acc.trips, [Less(acc, f) EXCEPT !.close = f.ms]) ELSE acc.trips
TripNext(acc, f) ==
  IF Opens(acc, f) THEN [Begun(acc, f) EXCEPT !.entry = @ + OpenedPart(f)] ELSE Rest(acc, f)

(* The step of one fill, its parts named. *)
LEMMA StepIs ==
  ASSUME NEW acc, NEW f
  PROVE  BuildStep(acc, f) = [trips |-> TripsNext(acc, f), trip |-> TripNext(acc, f), pos |-> f.end, known |-> TRUE,
                              flat |-> Flat(acc, f) \/ EndsTrip(f)]
BY Zenon DEF BuildStep, TripsNext, TripNext, Opens, Begun, Rest, Less, Flat

(* A trip that begins, written as the step writes it. *)
LEMMA FreshIs ==
  ASSUME NEW f, NEW n \in Nat
  PROVE  [[NoTrip EXCEPT !.side = SideOf(f.end), !.open = f.ms] EXCEPT !.entry = @ + n] = FreshTrip(f, n)
<1> DEFINE x == SideOf(f.end)
           y == f.ms
           a == [side |-> x, open |-> 0, close |-> 0, entry |-> 0, exit |-> 0]
           b == [side |-> x, open |-> y, close |-> 0, entry |-> 0, exit |-> 0]
<1>1. [NoTrip EXCEPT !.side = x, !.open = y] = [[NoTrip EXCEPT !.side = x] EXCEPT !.open = y]
  OBVIOUS
<1>2. [NoTrip EXCEPT !.side = x] = a
  BY DEF NoTrip
<1>3. [a EXCEPT !.open = y] = b
  OBVIOUS
<1>4. [b EXCEPT !.entry = @ + n] = [side |-> x, open |-> y, close |-> 0, entry |-> 0 + n, exit |-> 0]
  OBVIOUS
<1>5. [NoTrip EXCEPT !.side = x, !.open = y] = b
  <2> HIDE DEF x, y, a, b
  <2> QED BY <1>1, <1>2, <1>3
<1>6. 0 + n = n
  OBVIOUS
<1> HIDE DEF b
<1> QED BY <1>4, <1>5, <1>6 DEF FreshTrip

(* A fill that opens only. *)
LEMMA StepOpens ==
  ASSUME NEW acc \in AccRec, NEW f, Moves(f), Begins(f) \/ Grows(f)
  PROVE  BuildStep(acc, f) =
           [trips |-> acc.trips,
            trip |-> IF acc.trip # NoTrip THEN [acc.trip EXCEPT !.entry = @ + OpenedPart(f)]
                     ELSE IF Flat(acc, f) THEN FreshTrip(f, OpenedPart(f)) ELSE NoTrip,
            pos |-> f.end, known |-> TRUE, flat |-> Flat(acc, f)]
<1>1. ClosedPart(f) = 0 /\ OpenedPart(f) \in Nat /\ OpenedPart(f) > 0 /\ EndsTrip(f) = FALSE
  <2>1. EndsTrip(f) \in BOOLEAN
    BY DEF EndsTrip
  <2> QED BY <2>1, PartsOf DEF Begins, Grows
<1>2. Less(acc, f) = acc.trip /\ Rest(acc, f) = acc.trip
  BY <1>1 DEF Less, Rest
<1>3. TripsNext(acc, f) = acc.trips
  BY <1>1 DEF TripsNext
<1>4. (Flat(acc, f) \/ EndsTrip(f)) = Flat(acc, f)
  BY <1>1 DEF Flat
<1>5. TripNext(acc, f) = IF acc.trip # NoTrip THEN [acc.trip EXCEPT !.entry = @ + OpenedPart(f)]
                         ELSE IF Flat(acc, f) THEN FreshTrip(f, OpenedPart(f)) ELSE NoTrip
  <2>1. CASE acc.trip # NoTrip
    BY <1>1, <1>2, <2>1 DEF TripNext, Opens, Begun
  <2>2. CASE acc.trip = NoTrip
    <3>1. Opens(acc, f) <=> Flat(acc, f)
      BY <1>1, <1>2, <2>2 DEF Opens
    <3>2. [Begun(acc, f) EXCEPT !.entry = @ + OpenedPart(f)] = FreshTrip(f, OpenedPart(f))
      BY <1>1, <1>2, <2>2, FreshIs DEF Begun
    <3> QED BY <1>2, <2>2, <3>1, <3>2 DEF TripNext
  <2> QED BY <2>1, <2>2
<1> QED BY <1>3, <1>4, <1>5, StepIs

(* One that closes a part. *)
LEMMA StepShrinks ==
  ASSUME NEW acc \in AccRec, NEW f, Moves(f), Shrinks(f)
  PROVE  BuildStep(acc, f) =
           [trips |-> acc.trips,
            trip |-> IF acc.trip # NoTrip THEN [acc.trip EXCEPT !.exit = @ + ClosedPart(f)] ELSE NoTrip,
            pos |-> f.end, known |-> TRUE, flat |-> Flat(acc, f)]
<1>1. ClosedPart(f) \in Nat /\ ClosedPart(f) > 0 /\ OpenedPart(f) = 0 /\ EndsTrip(f) = FALSE
  <2>1. EndsTrip(f) \in BOOLEAN
    BY DEF EndsTrip
  <2> QED BY <2>1, PartsOf DEF Shrinks
<1>2. TripsNext(acc, f) = acc.trips
  BY <1>1 DEF TripsNext
<1>3. (Flat(acc, f) \/ EndsTrip(f)) = Flat(acc, f)
  BY <1>1 DEF Flat
<1>4. TripNext(acc, f) = IF acc.trip # NoTrip THEN [acc.trip EXCEPT !.exit = @ + ClosedPart(f)] ELSE NoTrip
  BY <1>1 DEF TripNext, Opens, Rest, Less
<1> QED BY <1>2, <1>3, <1>4, StepIs

(* One that closes all, whatever it opens. *)
TripDone(t, f) == [t EXCEPT !.exit = @ + Abs(f.start), !.close = f.ms]

(* One that ends the trip, and perhaps begins the next. *)
LEMMA StepEnds ==
  ASSUME NEW acc \in AccRec, NEW f, Moves(f), Flattens(f) \/ Flips(f)
  PROVE  BuildStep(acc, f) =
           [trips |-> IF acc.trip # NoTrip THEN Append(acc.trips, TripDone(acc.trip, f)) ELSE acc.trips,
            trip |-> IF Flips(f) THEN FreshTrip(f, Abs(f.end)) ELSE NoTrip,
            pos |-> f.end, known |-> TRUE, flat |-> TRUE]
<1>1. /\ ClosedPart(f) = Abs(f.start) /\ ClosedPart(f) > 0 /\ EndsTrip(f) = TRUE /\ Abs(f.start) \in Nat
      /\ OpenedPart(f) = (IF Flips(f) THEN Abs(f.end) ELSE 0) /\ Abs(f.end) \in Nat /\ (Flips(f) => Abs(f.end) > 0)
  <2>1. EndsTrip(f) \in BOOLEAN
    BY DEF EndsTrip
  <2>2. ~(Flattens(f) /\ Flips(f))
    BY DEF Flattens, Flips
  <2> QED BY <2>1, <2>2, PartsOf
<1>2. TripsNext(acc, f) = IF acc.trip # NoTrip THEN Append(acc.trips, TripDone(acc.trip, f)) ELSE acc.trips
  <2>1. CASE acc.trip # NoTrip
    <3>1. acc.trip \in TripRec
      BY <2>1 DEF AccRec
    <3>2. Less(acc, f) = [acc.trip EXCEPT !.exit = @ + Abs(f.start)]
      BY <1>1, <2>1 DEF Less
    <3>3. Less(acc, f).side = acc.trip.side /\ acc.trip.side # "none"
      BY <3>1, <3>2 DEF TripRec
    <3>4. Less(acc, f) # NoTrip
      BY <3>3 DEF NoTrip
    <3>5. [Less(acc, f) EXCEPT !.close = f.ms] = TripDone(acc.trip, f)
      BY <3>1, <3>2 DEF TripRec, TripDone
    <3> QED BY <1>1, <2>1, <3>4, <3>5 DEF TripsNext
  <2>2. CASE acc.trip = NoTrip
    BY <1>1, <2>2 DEF TripsNext, Less
  <2> QED BY <2>1, <2>2
<1>3. TripNext(acc, f) = IF Flips(f) THEN FreshTrip(f, Abs(f.end)) ELSE NoTrip
  <2>1. Rest(acc, f) = NoTrip
    BY <1>1 DEF Rest
  <2>2. Opens(acc, f) <=> Flips(f)
    BY <1>1 DEF Opens
  <2>3. ASSUME Flips(f) PROVE [Begun(acc, f) EXCEPT !.entry = @ + OpenedPart(f)] = FreshTrip(f, Abs(f.end))
    BY <1>1, <2>1, <2>3, FreshIs DEF Begun
  <2> QED BY <2>1, <2>2, <2>3 DEF TripNext
<1>4. (Flat(acc, f) \/ EndsTrip(f)) = TRUE
  BY <1>1
<1> QED BY <1>2, <1>3, <1>4, StepIs

-----------------------------------------------------------------------------
(* Whatever is stored: a trip begins where one really began, and ends where *)
(* one really ended.                                                        *)
ReallyBegun(t) ==
  \E i \in 1 .. Len(fills) : IsOpening(i) /\ fills[i].ms = t.open /\ SideOf(fills[i].end) = t.side
ReallyEnded(t) == \E j \in 1 .. Len(fills) : IsEnding(j) /\ fills[j].ms = t.close

(* No trip under way, the coin flat once before: then it is flat. *)
BuildInv(acc) ==
  /\ acc \in AccRec
  /\ acc.flat => acc.known
  /\ acc.flat /\ acc.trip = NoTrip => acc.pos = 0
  /\ acc.trip # NoTrip => ReallyBegun(acc.trip)
  /\ \A n \in 1 .. Len(acc.trips) : ReallyBegun(acc.trips[n]) /\ ReallyEnded(acc.trips[n])

(* What the step leaves, where its parts are right. *)
LEMMA BuildInvOf ==
  ASSUME NEW trips \in Seq(TripRec), NEW trip \in TripRec \cup {NoTrip}, NEW pos \in Int, NEW flat \in BOOLEAN,
         flat /\ trip = NoTrip => pos = 0, trip # NoTrip => ReallyBegun(trip),
         \A n \in 1 .. Len(trips) : ReallyBegun(trips[n]) /\ ReallyEnded(trips[n])
  PROVE  BuildInv([trips |-> trips, trip |-> trip, pos |-> pos, known |-> TRUE, flat |-> flat])
<1> DEFINE acc == [trips |-> trips, trip |-> trip, pos |-> pos, known |-> TRUE, flat |-> flat]
<1> SUFFICES BuildInv(acc)
  OBVIOUS
<1>1. acc.trips = trips /\ acc.trip = trip /\ acc.pos = pos /\ acc.known = TRUE /\ acc.flat = flat
  OBVIOUS
<1>2. acc \in AccRec
  BY DEF AccRec
<1> HIDE DEF acc
<1>3. acc.flat => acc.known
  BY <1>1
<1>4. acc.flat /\ acc.trip = NoTrip => acc.pos = 0
  BY <1>1, Zenon
<1>5. acc.trip # NoTrip => ReallyBegun(acc.trip)
  BY <1>1
<1>6. \A n \in 1 .. Len(acc.trips) : ReallyBegun(acc.trips[n]) /\ ReallyEnded(acc.trips[n])
  BY <1>1
<1> QED BY <1>2, <1>3, <1>4, <1>5, <1>6, Zenon DEF BuildInv

(* The trips of a step that ends none. *)
LEMMA TripsKept ==
  ASSUME NEW acc, BuildInv(acc)
  PROVE  /\ acc.trips \in Seq(TripRec)
         /\ \A n \in 1 .. Len(acc.trips) : ReallyBegun(acc.trips[n]) /\ ReallyEnded(acc.trips[n])
BY DEF BuildInv, AccRec

(* With no trip under way and the position flat, the fill starts at zero. *)
LEMMA FlatBegins ==
  ASSUME NEW acc, BuildInv(acc), NEW f, acc.trip = NoTrip, Flat(acc, f)
  PROVE  f.start = 0
BY DEF BuildInv, Flat, StillFlat

(* A trip that begins is a trip, ... *)
LEMMA FreshType == ASSUME NEW f, Moves(f), NEW n \in Nat PROVE FreshTrip(f, n) \in TripRec /\ FreshTrip(f, n) # NoTrip
<1>1. FreshTrip(f, n) \in TripRec
  BY DEF FreshTrip, TripRec, SideOf, Moves
<1> QED BY <1>1, NoTripIsNone

(* ... and where the position really opened it really began. *)
LEMMA FreshReal ==
  ASSUME NEW i \in 1 .. Len(fills), NEW n, IsOpening(i)
  PROVE  ReallyBegun(FreshTrip(fills[i], n))
BY DEF ReallyBegun, FreshTrip

(* More of a trip is still that trip. *)
LEMMA MoreOfTrip ==
  ASSUME NEW t \in TripRec, NEW n \in Nat
  PROVE  LET u == [t EXCEPT !.entry = @ + n]
             v == [t EXCEPT !.exit = @ + n]
         IN /\ u \in TripRec /\ u # NoTrip /\ u.open = t.open /\ u.side = t.side /\ u.close = t.close
            /\ v \in TripRec /\ v # NoTrip /\ v.open = t.open /\ v.side = t.side /\ v.close = t.close
<1> DEFINE u == [t EXCEPT !.entry = @ + n]
           v == [t EXCEPT !.exit = @ + n]
<1>1. u \in TripRec /\ u.open = t.open /\ u.side = t.side /\ u.close = t.close
  BY DEF TripRec
<1>2. v \in TripRec /\ v.open = t.open /\ v.side = t.side /\ v.close = t.close
  BY DEF TripRec
<1> QED BY <1>1, <1>2, NoTripIsNone

(* A trip that ends stays the trip it was. *)
LEMMA DoneType ==
  ASSUME NEW t \in TripRec, NEW f, Moves(f)
  PROVE  TripDone(t, f) \in TripRec /\ TripDone(t, f).open = t.open /\ TripDone(t, f).side = t.side /\ TripDone(t, f).close = f.ms
<1> DEFINE n == Abs(f.start)
           m == f.ms
<1>1. n \in Nat /\ m \in Nat
  BY DEF Abs, Moves
<1>2. t.exit + n \in Nat
  BY <1>1 DEF TripRec
<1>3. TripDone(t, f) = [t EXCEPT !.exit = @ + n, !.close = m]
  BY DEF TripDone
<1> HIDE DEF n, m
<1>4. [t EXCEPT !.exit = t.exit + n, !.close = m] \in TripRec
  BY <1>1, <1>2 DEF TripRec
<1>5. /\ TripDone(t, f).open = t.open /\ TripDone(t, f).side = t.side /\ TripDone(t, f).close = m
  BY <1>3 DEF TripRec
<1>6. TripDone(t, f) \in TripRec
  BY <1>3, <1>4
<1> QED BY <1>5, <1>6 DEF m

(* Any fill of the path, in any order, keeps what is built real. *)
LEMMA BuildInvStep ==
  ASSUME Path, NEW acc, BuildInv(acc), NEW i \in 1 .. Len(fills)
  PROVE  BuildInv(BuildStep(acc, fills[i]))
<1> DEFINE f == fills[i]
           next == BuildStep(acc, f)
<1> SUFFICES BuildInv(next)
  OBVIOUS
<1>1. Moves(f) /\ f.end \in Int
  BY PathMoves DEF Moves
<1>2. acc \in AccRec /\ (acc.trip # NoTrip => acc.trip \in TripRec) /\ acc.trips \in Seq(TripRec)
  BY DEF BuildInv, AccRec
<1>3. CASE Begins(f) \/ Grows(f)
  <2> DEFINE n == OpenedPart(f)
  <2>1. n \in Nat
    BY <1>1, <1>3, PartsOf DEF Begins, Grows
  <2>2. next = [trips |-> acc.trips,
                trip |-> IF acc.trip # NoTrip THEN [acc.trip EXCEPT !.entry = @ + n]
                         ELSE IF Flat(acc, f) THEN FreshTrip(f, n) ELSE NoTrip,
                pos |-> f.end, known |-> TRUE, flat |-> Flat(acc, f)]
    BY <1>1, <1>2, <1>3, StepOpens
  <2>3. Flat(acc, f) \in BOOLEAN
    BY DEF Flat
  <2>4. CASE acc.trip # NoTrip
    <3> DEFINE t == [acc.trip EXCEPT !.entry = @ + n]
    <3>1. t \in TripRec /\ t # NoTrip /\ t.open = acc.trip.open /\ t.side = acc.trip.side
      BY <1>2, <2>1, <2>4, MoreOfTrip
    <3>2. next = [trips |-> acc.trips, trip |-> t, pos |-> f.end, known |-> TRUE, flat |-> Flat(acc, f)]
      BY <2>2, <2>4
    <3>3. ReallyBegun(t)
      BY <2>4, <3>1 DEF BuildInv, ReallyBegun
    <3> HIDE DEF t, next, f
    <3> QED BY <1>1, <2>3, <3>1, <3>2, <3>3, TripsKept, BuildInvOf
  <2>5. CASE acc.trip = NoTrip /\ Flat(acc, f)
    <3> DEFINE t == FreshTrip(f, n)
    <3>1. t \in TripRec /\ t # NoTrip
      BY <1>1, <2>1, FreshType
    <3>2. next = [trips |-> acc.trips, trip |-> t, pos |-> f.end, known |-> TRUE, flat |-> Flat(acc, f)]
      BY <2>2, <2>5
    <3>3. IsOpening(i)
      <4>1. f.start = 0
        BY <2>5, FlatBegins
      <4> QED BY <1>1, <4>1 DEF IsOpening, Moves
    <3>4. ReallyBegun(t)
      BY <3>3, FreshReal
    <3> HIDE DEF t, next, f
    <3> QED BY <1>1, <2>3, <3>1, <3>2, <3>4, TripsKept, BuildInvOf
  <2>6. CASE acc.trip = NoTrip /\ ~Flat(acc, f)
    <3>1. next = [trips |-> acc.trips, trip |-> NoTrip, pos |-> f.end, known |-> TRUE, flat |-> FALSE]
      BY <2>2, <2>3, <2>6
    <3> HIDE DEF next, f
    <3> QED BY <1>1, <3>1, TripsKept, BuildInvOf
  <2> QED BY <2>4, <2>5, <2>6
<1>4. CASE Shrinks(f)
  <2> DEFINE n == ClosedPart(f)
  <2>1. n \in Nat
    BY <1>1, <1>4, PartsOf DEF Shrinks
  <2>2. next = [trips |-> acc.trips,
                trip |-> IF acc.trip # NoTrip THEN [acc.trip EXCEPT !.exit = @ + n] ELSE NoTrip,
                pos |-> f.end, known |-> TRUE, flat |-> Flat(acc, f)]
    BY <1>1, <1>2, <1>4, StepShrinks
  <2>3. Flat(acc, f) \in BOOLEAN
    BY DEF Flat
  <2>4. CASE acc.trip # NoTrip
    <3> DEFINE t == [acc.trip EXCEPT !.exit = @ + n]
    <3>1. t \in TripRec /\ t # NoTrip /\ t.open = acc.trip.open /\ t.side = acc.trip.side
      BY <1>2, <2>1, <2>4, MoreOfTrip
    <3>2. next = [trips |-> acc.trips, trip |-> t, pos |-> f.end, known |-> TRUE, flat |-> Flat(acc, f)]
      BY <2>2, <2>4
    <3>3. ReallyBegun(t)
      BY <2>4, <3>1 DEF BuildInv, ReallyBegun
    <3> HIDE DEF t, next, f
    <3> QED BY <1>1, <2>3, <3>1, <3>2, <3>3, TripsKept, BuildInvOf
  <2>5. CASE acc.trip = NoTrip
    <3>1. ~Flat(acc, f)
      BY <1>4, <2>5, FlatBegins DEF Shrinks
    <3>2. next = [trips |-> acc.trips, trip |-> NoTrip, pos |-> f.end, known |-> TRUE, flat |-> FALSE]
      BY <2>2, <2>3, <2>5, <3>1
    <3> HIDE DEF next, f
    <3> QED BY <1>1, <3>2, TripsKept, BuildInvOf
  <2> QED BY <2>4, <2>5
<1>5. CASE Flattens(f) \/ Flips(f)
  <2> DEFINE trips == IF acc.trip # NoTrip THEN Append(acc.trips, TripDone(acc.trip, f)) ELSE acc.trips
             trip == IF Flips(f) THEN FreshTrip(f, Abs(f.end)) ELSE NoTrip
  <2>1. next = [trips |-> trips, trip |-> trip, pos |-> f.end, known |-> TRUE, flat |-> TRUE]
    BY <1>1, <1>2, <1>5, StepEnds
  <2>2. IsEnding(i)
    BY <1>5 DEF IsEnding, Flattens, Flips
  <2>3. trips \in Seq(TripRec) /\ \A n \in 1 .. Len(trips) : ReallyBegun(trips[n]) /\ ReallyEnded(trips[n])
    <3>1. CASE acc.trip # NoTrip
      <4> DEFINE d == TripDone(acc.trip, f)
      <4>1. d \in TripRec /\ d.open = acc.trip.open /\ d.side = acc.trip.side /\ d.close = f.ms
        BY <1>1, <1>2, <3>1, DoneType
      <4>2. ReallyBegun(d)
        BY <3>1, <4>1 DEF BuildInv, ReallyBegun
      <4>3. ReallyEnded(d)
        BY <2>2, <4>1 DEF ReallyEnded
      <4>4. trips = Append(acc.trips, d)
        BY <3>1
      <4> HIDE DEF d, trips, f
      <4>5. /\ Append(acc.trips, d) \in Seq(TripRec) /\ Len(Append(acc.trips, d)) = Len(acc.trips) + 1
            /\ \A n \in 1 .. Len(acc.trips) + 1 :
                 Append(acc.trips, d)[n] = IF n = Len(acc.trips) + 1 THEN d ELSE acc.trips[n]
        BY <1>2, <4>1
      <4>6. \A n \in 1 .. Len(acc.trips) + 1 : n = Len(acc.trips) + 1 \/ n \in 1 .. Len(acc.trips)
        BY <1>2
      <4> QED BY <4>2, <4>3, <4>4, <4>5, <4>6 DEF BuildInv
    <3>2. CASE acc.trip = NoTrip
      BY <1>2, <3>2 DEF BuildInv
    <3> QED BY <3>1, <3>2
  <2>4. /\ trip \in TripRec \cup {NoTrip} /\ (trip # NoTrip => ReallyBegun(trip))
        /\ trip = NoTrip => f.end = 0
    <3>1. CASE Flips(f)
      <4>1. Abs(f.end) \in Nat
        BY <1>1, PartsOf
      <4>2. trip = FreshTrip(f, Abs(f.end))
        BY <3>1
      <4>3. trip \in TripRec /\ trip # NoTrip
        BY <1>1, <4>1, <4>2, FreshType
      <4>4. ReallyBegun(trip)
        <5>1. IsOpening(i)
          BY <3>1 DEF IsOpening, Flips
        <5> QED BY <4>2, <5>1, FreshReal
      <4> QED BY <4>3, <4>4
    <3>2. CASE ~Flips(f)
      BY <1>5, <3>2 DEF Flattens
    <3> QED BY <3>1, <3>2
  <2> HIDE DEF trips, trip, next, f
  <2> QED BY <1>1, <2>1, <2>3, <2>4, BuildInvOf
<1> QED BY <1>1, <1>3, <1>4, <1>5, Kinds

-----------------------------------------------------------------------------
(* Whatever is stored, its rows are fills of the path.                       *)
LEMMA RowTypes ==
  ASSUME Path, NEW R \in SUBSET From(0)
  PROVE  /\ \A f \in R : f.ms \in Nat /\ f.tid \in Nat
         /\ \A f \in R : \E i \in 1 .. Len(fills) : f = fills[i]
<1>1. \A f \in R : \E i \in 1 .. Len(fills) : f = fills[i]
  BY DEF From
<1>2. \A i \in 1 .. Len(fills) : fills[i].ms \in Nat /\ fills[i].tid \in Nat
  BY FillTypes, TripsConstants DEF FillRec
<1> QED BY <1>1, <1>2

(* What is stored is finite. *)
LEMMA RowsFinite ==
  ASSUME Path, NEW R \in SUBSET From(0)
  PROVE  IsFiniteSet(R)
<1> DEFINE I == 0 + 1 .. Len(fills)
           h == [i \in I |-> fills[i]]
<1>1. IsFiniteSet(I)
  <2>1. Len(fills) \in Nat /\ 0 \in Nat /\ 0 <= Len(fills)
    BY DEF Path
  <2> QED BY <2>1, CountTo
<1>2. h \in Surjection(I, From(0))
  BY DEF Surjection, From
<1>3. IsFiniteSet(From(0))
  <2> HIDE DEF I, h
  <2> QED BY <1>1, <1>2, FS_Surjection
<1> QED BY <1>3, FS_Subset

(* The next fill of the chain is one of those left. *)
LEMMA NextIsLeft ==
  ASSUME Path, NEW R \in SUBSET From(0), R # {}, NEW pos
  PROVE  NextOf(FirstGroup(R), pos) \in R
<1>1. PICK f \in R : \A g \in R : f.ms <= g.ms
  <2> DEFINE M == {x.ms : x \in R}
  <2>1. M \in SUBSET Nat /\ M # {}
    BY RowTypes
  <2>2. PICK m \in M : \A y \in M : m <= y
    <3> HIDE DEF M
    <3> QED BY <2>1, LeastOf
  <2> QED BY <2>2
<1>2. FirstGroup(R) # {} /\ FirstGroup(R) \subseteq R
  BY <1>1 DEF FirstGroup
<1>3. ASSUME NEW G \in SUBSET R, G # {} PROVE FirstByTid(G) \in G
  <2> DEFINE M == {x.tid : x \in G}
  <2>1. M \in SUBSET Nat /\ M # {}
    BY <1>3, RowTypes
  <2>2. PICK m \in M : \A y \in M : m <= y
    <3> HIDE DEF M
    <3> QED BY <2>1, LeastOf
  <2>3. \E x \in G : \A g \in G : x.tid <= g.tid
    BY <2>2
  <2> QED BY <2>3 DEF FirstByTid
<1> DEFINE group == FirstGroup(R)
           follows == {x \in group : pos.known /\ x.start = pos.at}
           roots == {x \in group : \A g \in group : g.end # x.start}
<1>4. NextOf(group, pos) = FirstByTid(IF follows # {} THEN follows ELSE IF roots # {} THEN roots ELSE group)
  BY DEF NextOf
<1>5. follows \subseteq R /\ roots \subseteq R /\ group \subseteq R /\ group # {}
  BY <1>2
<1> SUFFICES NextOf(group, pos) \in R
  OBVIOUS
<1> HIDE DEF group, follows, roots
<1>6. CASE follows # {}
  BY <1>3, <1>4, <1>5, <1>6
<1>7. CASE follows = {} /\ roots # {}
  BY <1>3, <1>4, <1>5, <1>7
<1>8. CASE follows = {} /\ roots = {}
  BY <1>3, <1>4, <1>5, <1>8
<1> QED BY <1>6, <1>7, <1>8

(* So the chain is made of what is stored. *)
LEMMA ChainTakesRows ==
  ASSUME Path, NEW R \in SUBSET From(0)
  PROVE  ChainSameTime(R) \in Seq(R)
<1> DEFINE M == Cardinality(R)
           st(k) == Chains!Run(Start(R), Count(M), k)
           S == {k \in 0 .. M : /\ st(k).out \in Seq(R) /\ st(k).left \in SUBSET R
                                /\ Cardinality(st(k).left) = M - k}
<1>1. IsFiniteSet(R) /\ M \in Nat
  BY RowsFinite, FS_CardinalityType
<1>2. Len(Count(M)) = M /\ DOMAIN Count(M) = 1 .. M
  BY <1>1 DEF Count
<1>3. /\ Chains!Fold(Start(R), Count(M)) = st(M) /\ st(0) = Start(R)
      /\ \A k \in 1 .. M : st(k) = ChainStep(st(k - 1), Count(M)[k])
  <2> DEFINE s == Count(M)
             b == Start(R)
  <2>1. Len(s) \in Nat /\ DOMAIN s = 1 .. Len(s) /\ Len(s) = M
    BY <1>1, <1>2
  <2> HIDE DEF s, b, M
  <2>2. Chains!Fold(b, s) = Chains!Run(b, s, Len(s)) /\ Chains!Run(b, s, 0) = b
    BY <2>1, Chains!RunIsFold
  <2>3. ASSUME NEW k \in 1 .. Len(s) PROVE Chains!Run(b, s, k) = ChainStep(Chains!Run(b, s, k - 1), s[k])
    BY <2>1, Chains!RunStep
  <2> QED BY <2>1, <2>2, <2>3 DEF s, b
<1>4. 0 \in S
  <2>1. Start(R).out \in Seq(R) /\ Start(R).left = R
    BY DEF Start
  <2> HIDE DEF st, M
  <2> QED BY <1>1, <1>3, <2>1 DEF M
<1>5. ASSUME NEW k \in Nat, k < M, k \in S PROVE k + 1 \in S
  <2> DEFINE a == st(k)
             f == NextOf(FirstGroup(a.left), a.pos)
  <2>1. a.out \in Seq(R) /\ a.left \in SUBSET R /\ Cardinality(a.left) = M - k /\ M - k # 0
    BY <1>1, <1>5
  <2>2. st(k + 1) = ChainStep(a, Count(M)[k + 1])
    <3>1. k + 1 \in 1 .. M /\ k + 1 - 1 = k
      BY <1>1, <1>5
    <3> HIDE DEF M, st
    <3> QED BY <1>3, <3>1
  <2>3. f \in a.left
    <3>1. a.left \in SUBSET From(0) /\ a.left # {}
      BY <2>1, FS_EmptySet
    <3> HIDE DEF a
    <3> QED BY <3>1, NextIsLeft
  <2>4. st(k + 1) = [out |-> Append(a.out, f), left |-> a.left \ {f}, pos |-> [known |-> TRUE, at |-> f.end]]
    BY <2>2 DEF ChainStep
  <2>5. Cardinality(a.left \ {f}) = M - (k + 1)
    <3>1. IsFiniteSet(a.left)
      BY <1>1, <2>1, FS_Subset
    <3>2. Cardinality(a.left \ {f}) = Cardinality(a.left) - 1
      BY <2>3, <3>1, FS_RemoveElement
    <3> QED BY <1>1, <2>1, <3>2
  <2>6. Append(a.out, f) \in Seq(R)
    BY <2>1, <2>3
  <2>7. st(k + 1).out \in Seq(R) /\ st(k + 1).left \in SUBSET R /\ Cardinality(st(k + 1).left) = M - (k + 1)
    <3> DEFINE l == a.left \ {f}
               o == Append(a.out, f)
               b == st(k + 1)
    <3>1. l \in SUBSET R /\ Cardinality(l) = M - (k + 1) /\ o \in Seq(R)
      BY <2>1, <2>5, <2>6
    <3>2. b.out = o /\ b.left = l
      <4> HIDE DEF st, a, f, M
      <4> QED BY <2>4
    <3> HIDE DEF l, o, b
    <3> QED BY <3>1, <3>2 DEF b
  <2> QED BY <1>1, <1>5, <2>7
<1>6. st(M).out \in Seq(R)
  <2> HIDE DEF st
  <2>1. \A k \in 0 .. M : k \in S
    <3> HIDE DEF S, M
    <3> QED BY <1>1, <1>4, <1>5, UpTo
  <2>2. M \in 0 .. M
    BY <1>1
  <2> QED BY <2>1, <2>2
<1> QED BY <1>3, <1>6, ChainFold

(* So whatever is built is of the account's trips. *)
LEMMA BuiltReal ==
  ASSUME Path, NEW R \in SUBSET From(0)
  PROVE  /\ BuildTrips(R) \in Seq(TripRec)
         /\ \A n \in 1 .. Len(BuildTrips(R)) : ReallyBegun(BuildTrips(R)[n]) /\ ReallyEnded(BuildTrips(R)[n])
<1> DEFINE s == ChainSameTime(R)
           st(k) == Builds!Run(Unbuilt, s, k)
           S == {k \in 0 .. Len(s) : BuildInv(st(k))}
<1>1. s \in Seq(R) /\ Len(s) \in Nat /\ DOMAIN s = 1 .. Len(s)
  BY ChainTakesRows
<1> HIDE DEF s
<1>2. /\ Builds!Fold(Unbuilt, s) = st(Len(s)) /\ st(0) = Unbuilt
      /\ \A k \in 1 .. Len(s) : st(k) = BuildStep(st(k - 1), s[k])
  <2>1. Builds!Fold(Unbuilt, s) = Builds!Run(Unbuilt, s, Len(s)) /\ Builds!Run(Unbuilt, s, 0) = Unbuilt
    BY <1>1, Builds!RunIsFold
  <2>2. ASSUME NEW k \in 1 .. Len(s) PROVE Builds!Run(Unbuilt, s, k) = BuildStep(Builds!Run(Unbuilt, s, k - 1), s[k])
    BY <1>1, Builds!RunStep
  <2> QED BY <2>1, <2>2
<1> HIDE DEF st
<1>3. 0 \in S
  <2>1. BuildInv(Unbuilt)
    BY DEF Unbuilt, BuildInv, AccRec
  <2> QED BY <1>1, <1>2, <2>1
<1>4. ASSUME NEW k \in Nat, k < Len(s), k \in S PROVE k + 1 \in S
  <2>1. k + 1 \in 1 .. Len(s) /\ k + 1 - 1 = k /\ k + 1 \in 0 .. Len(s)
    BY <1>1, <1>4
  <2>2. s[k + 1] \in R
    BY <1>1, <2>1
  <2>3. PICK i \in 1 .. Len(fills) : s[k + 1] = fills[i]
    BY <2>2, RowTypes
  <2>4. BuildInv(BuildStep(st(k), s[k + 1]))
    BY <1>4, <2>3, BuildInvStep
  <2> QED BY <1>2, <2>1, <2>4
<1>5. BuildInv(st(Len(s)))
  <2>1. \A k \in 0 .. Len(s) : k \in S
    <3> HIDE DEF S
    <3> QED BY <1>1, <1>3, <1>4, UpTo
  <2>2. Len(s) \in 0 .. Len(s)
    BY <1>1
  <2> QED BY <2>1, <2>2
<1>6. BuildTrips(R) = st(Len(s)).trips
  BY <1>2, BuildFold DEF s
<1> QED BY <1>5, <1>6, TripsKept

-----------------------------------------------------------------------------
(* The n-th of a set of numbers.                                            *)
Rank(S, x) == Cardinality({y \in S : y <= x})

(* A set of bounded numbers is finite. *)
LEMMA UpToFinite ==
  ASSUME NEW b \in Nat, NEW S \in SUBSET (0 .. b)
  PROVE  IsFiniteSet(S) /\ S \in SUBSET Nat
<1>1. 0 \in Int /\ b \in Int
  OBVIOUS
<1>2. IsFiniteSet(0 .. b)
  BY <1>1, FS_Interval
<1>3. IsFiniteSet(S)
  BY <1>2, FS_Subset
<1>4. S \in SUBSET Nat
  OBVIOUS
<1> QED BY <1>3, <1>4

(* Ranks go up with the numbers, ... *)
LEMMA RankUp ==
  ASSUME NEW S \in SUBSET Nat, IsFiniteSet(S), NEW x \in S, NEW z \in S, x < z
  PROVE  Rank(S, x) \in Nat /\ Rank(S, z) \in Nat /\ Rank(S, x) < Rank(S, z)
<1> DEFINE X == {y \in S : y <= x}
           Z == {y \in S : y <= z}
<1>1. IsFiniteSet(X) /\ IsFiniteSet(Z)
  BY FS_Subset
<1>2. X \in SUBSET Z /\ z \in Z /\ z \notin X
  <2>1. x \in Nat /\ z \in Nat
    OBVIOUS
  <2>2. ASSUME NEW y \in X PROVE y \in Z
    <3>1. y \in Nat /\ y \in S /\ y <= x
      OBVIOUS
    <3> QED BY <2>1, <3>1
  <2>3. z \notin X
    BY <2>1
  <2>4. z \in Z
    BY <2>1
  <2> HIDE DEF X, Z
  <2> QED BY <2>2, <2>3, <2>4
<1> HIDE DEF X, Z
<1>3. Cardinality(X) \in Nat /\ Cardinality(Z) \in Nat
  BY <1>1, FS_CardinalityType
<1>4. Cardinality(X) <= Cardinality(Z) /\ Cardinality(X) # Cardinality(Z)
  BY <1>1, <1>2, FS_Subset
<1> QED BY <1>3, <1>4 DEF Rank, X, Z

(* ... the greatest has the highest, ... *)
LEMMA RankTop ==
  ASSUME NEW S \in SUBSET Nat, NEW m \in S, \A y \in S : y <= m
  PROVE  Rank(S, m) = Cardinality(S)
<1>1. {y \in S : y <= m} = S
  OBVIOUS
<1> QED BY <1>1 DEF Rank

(* One more, beyond them all, leaves the ranks of the others. *)
LEMMA RankMore ==
  ASSUME NEW S \in SUBSET Nat, NEW m \in Nat, \A y \in S : y < m, NEW x \in S
  PROVE  Rank(S \cup {m}, x) = Rank(S, x)
<1>1. {y \in S \cup {m} : y <= x} = {y \in S : y <= x}
  OBVIOUS
<1> QED BY <1>1 DEF Rank

(* ... and every rank up to that is taken. *)
LEMMA RankOnto ==
  ASSUME NEW b \in Nat, NEW S \in SUBSET (0 .. b)
  PROVE  \A n \in 1 .. Cardinality(S) : \E x \in S : Rank(S, x) = n
<1> DEFINE Bad(T) == \E n \in 1 .. Cardinality(T) : \A x \in T : Rank(T, x) # n
           M == {T \in SUBSET S : Bad(T)}
<1>1. IsFiniteSet(S)
  BY UpToFinite
<1>2. SUFFICES ASSUME M # {} PROVE FALSE
  OBVIOUS
<1>3. PICK T \in M : \A x \in T : T \ {x} \notin M
  BY <1>1, <1>2, LeastMember
<1>4. T \in SUBSET (0 .. b) /\ T \in SUBSET Nat /\ IsFiniteSet(T) /\ T \in SUBSET S
  <2>1. T \in SUBSET S /\ T \in SUBSET (0 .. b)
    BY <1>3
  <2> HIDE DEF M
  <2> QED BY <2>1, UpToFinite
<1>5. PICK n \in 1 .. Cardinality(T) : \A x \in T : Rank(T, x) # n
  BY <1>3
<1>6. Cardinality(T) \in Nat /\ T # {}
  BY <1>4, <1>5, FS_CardinalityType, FS_EmptySet
<1>7. PICK m \in T : \A y \in T : y <= m
  BY <1>4, <1>6, GreatestOf
<1> DEFINE R == T \ {m}
<1>8. R \in SUBSET Nat /\ R \cup {m} = T /\ (\A y \in R : y < m) /\ m \in Nat /\ R \in SUBSET S
  BY <1>4, <1>7
<1>9. Cardinality(R) = Cardinality(T) - 1
  BY <1>4, FS_RemoveElement
<1>10. R \notin M
  BY <1>3
<1>11. n # Cardinality(T)
  BY <1>4, <1>5, <1>7, RankTop
<1> HIDE DEF R
<1>12. n \in 1 .. Cardinality(R)
  BY <1>6, <1>9, <1>11
<1>13. PICK x \in R : Rank(R, x) = n
  BY <1>8, <1>10, <1>12
<1>14. Rank(T, x) = n /\ x \in T
  BY <1>8, <1>13, RankMore
<1> QED BY <1>5, <1>14

(* The number of a rank, ... *)
LEMMA NthIs ==
  ASSUME NEW S \in SUBSET Nat, IsFiniteSet(S), NEW x \in S
  PROVE  Nth(S, Rank(S, x)) = x
<1>1. ASSUME NEW z \in S, Rank(S, z) = Rank(S, x) PROVE z = x
  <2>1. CASE z < x
    BY <1>1, <2>1, RankUp
  <2>2. CASE x < z
    BY <1>1, <2>2, RankUp
  <2> QED BY <2>1, <2>2
<1> DEFINE n == Rank(S, x)
<1>2. Nth(S, n) = CHOOSE z \in S : Rank(S, z) = n
  BY DEF Nth, Rank
<1>3. x \in S /\ Rank(S, x) = n
  OBVIOUS
<1> HIDE DEF n
<1> QED BY <1>1, <1>2, <1>3

(* ... is one of the set, with that rank, ... *)
LEMMA NthIn ==
  ASSUME NEW b \in Nat, NEW S \in SUBSET (0 .. b), NEW n \in 1 .. Cardinality(S)
  PROVE  Nth(S, n) \in S /\ Rank(S, Nth(S, n)) = n
<1>1. PICK x \in S : Rank(S, x) = n
  BY RankOnto
<1>2. IsFiniteSet(S) /\ S \in SUBSET Nat
  BY UpToFinite
<1> QED BY <1>1, <1>2, NthIs

(* ... and comes after those of lower ranks. *)
LEMMA NthUp ==
  ASSUME NEW b \in Nat, NEW S \in SUBSET (0 .. b), NEW m \in 1 .. Cardinality(S), NEW n \in 1 .. Cardinality(S),
         m < n
  PROVE  Nth(S, m) < Nth(S, n)
<1>1. IsFiniteSet(S) /\ S \in SUBSET Nat
  BY UpToFinite
<1> DEFINE x == Nth(S, m)
           z == Nth(S, n)
<1>2. x \in S /\ z \in S /\ Rank(S, x) = m /\ Rank(S, z) = n /\ m \in Nat /\ n \in Nat
  <2>1. m \in Nat /\ n \in Nat
    OBVIOUS
  <2>2. x \in S /\ Rank(S, x) = m
    BY NthIn
  <2>3. z \in S /\ Rank(S, z) = n
    BY NthIn
  <2> QED BY <2>1, <2>2, <2>3
<1> SUFFICES x < z
  OBVIOUS
<1> HIDE DEF x, z
<1>3. CASE z < x
  BY <1>1, <1>2, <1>3, RankUp
<1>4. CASE x = z
  BY <1>2, <1>4
<1> QED BY <1>1, <1>2, <1>3, <1>4

(* The trips of a set, and of one trip more that opened after them. *)
LEMMA TripsOfMore ==
  ASSUME NEW b \in Nat, NEW S \in SUBSET (0 .. b), NEW i \in Nat, \A y \in S : y < i
  PROVE  TripsOf(S \cup {i}) = Append(TripsOf(S), TripOf(i)) /\ TripsOf({}) = <<>>
<1> DEFINE U == S \cup {i}
           c == Cardinality(S)
<1>1. IsFiniteSet(S) /\ S \in SUBSET Nat
  BY UpToFinite
<1>2. i \notin S /\ U \in SUBSET Nat /\ i \in U
  BY <1>1
<1>3. IsFiniteSet(U) /\ Cardinality(U) = c + 1 /\ c \in Nat
  BY <1>1, <1>2, FS_AddElement, FS_CardinalityType
<1>4. Nth(U, c + 1) = i
  <2>1. \A y \in U : y <= i
    BY <1>1
  <2>2. Rank(U, i) = c + 1
    BY <1>2, <1>3, <2>1, RankTop
  <2> HIDE DEF U, c
  <2> QED BY <1>2, <1>3, <2>2, NthIs
<1>5. ASSUME NEW n \in 1 .. c PROVE Nth(U, n) = Nth(S, n)
  <2> DEFINE x == Nth(S, n)
  <2>1. x \in S /\ Rank(S, x) = n
    BY NthIn
  <2> SUFFICES Nth(U, n) = x
    OBVIOUS
  <2> HIDE DEF x
  <2>2. Rank(U, x) = n /\ x \in U
    BY <1>1, <2>1, RankMore
  <2> HIDE DEF U
  <2> QED BY <1>2, <1>3, <2>2, NthIs
<1>6. TripsOf(U) = [n \in 1 .. c + 1 |-> IF n = c + 1 THEN TripOf(i) ELSE TripOf(Nth(S, n))]
  <2> HIDE DEF U, c
  <2>1. TripsOf(U) = [n \in 1 .. c + 1 |-> TripOf(Nth(U, n))]
    BY <1>3 DEF TripsOf
  <2>2. ASSUME NEW n \in 1 .. c + 1
        PROVE  TripOf(Nth(U, n)) = IF n = c + 1 THEN TripOf(i) ELSE TripOf(Nth(S, n))
    <3>1. CASE n = c + 1
      BY <1>4, <3>1
    <3>2. CASE n # c + 1
      <4>1. n \in 1 .. c
        BY <1>3, <3>2
      <4> QED BY <1>5, <3>2, <4>1
    <3> QED BY <3>1, <3>2
  <2> QED BY <2>1, <2>2
<1>7. TripsOf(S) = [n \in 1 .. c |-> TripOf(Nth(S, n))]
  BY DEF TripsOf
<1>8. TripsOf({}) = <<>>
  BY FS_EmptySet DEF TripsOf
<1> DEFINE t(n) == TripOf(Nth(S, n))
           u == TripOf(i)
<1>9. Append([n \in 1 .. c |-> t(n)], u) = [n \in 1 .. c + 1 |-> IF n = c + 1 THEN u ELSE t(n)]
  <2> HIDE DEF t, u, c
  <2> QED BY <1>3
<1> HIDE DEF U, c
<1> QED BY <1>6, <1>7, <1>8, <1>9 DEF U

-----------------------------------------------------------------------------
(* The trips of the path.                                                   *)
LEMMA OpensIs ==
  ASSUME Path, NEW p \in 1 .. Len(fills)
  PROVE  /\ IsOpening(p) <=> Begins(fills[p]) \/ Flips(fills[p])
         /\ IsEnding(p) <=> Flattens(fills[p]) \/ Flips(fills[p])
         /\ IsEnding(p) \in BOOLEAN /\ IsOpening(p) \in BOOLEAN
<1> DEFINE f == fills[p]
<1>1. Moves(f)
  BY PathMoves
<1>2. IsOpening(p) <=> Begins(f) \/ Flips(f)
  BY <1>1 DEF IsOpening, Begins, Flips, Moves
<1>3. IsEnding(p) <=> Flattens(f) \/ Flips(f)
  BY <1>1 DEF IsEnding, Flattens, Flips
<1>4. IsEnding(p) \in BOOLEAN /\ IsOpening(p) \in BOOLEAN
  BY DEF IsEnding, IsOpening
<1> QED BY <1>2, <1>3, <1>4

(* The path has a length. *)
LEMMA PathLen == ASSUME Path PROVE Len(fills) \in Nat
BY DEF Path

(* Opened, and with no end since, the position is not flat; ... *)
LEMMA StillOpen ==
  ASSUME Path, NEW i \in 1 .. Len(fills), IsOpening(i), NEW q \in i .. Len(fills),
         \A k \in i + 1 .. q : ~IsEnding(k)
  PROVE  fills[q].end # 0
<1> DEFINE n == q - i
           S == {k \in 0 .. n : fills[i + k].end # 0}
<1>1. Len(fills) \in Nat /\ i \in Nat /\ q \in Nat /\ n \in Nat /\ i + n = q /\ i + 0 = i
  BY PathLen
<1>2. 0 \in S
  <2>1. fills[i].end # 0
    BY DEF IsOpening
  <2> QED BY <1>1, <2>1
<1>3. ASSUME NEW k \in Nat, k < n, k \in S PROVE k + 1 \in S
  <2> DEFINE p == i + k + 1
  <2>1. p \in 1 .. Len(fills) /\ p - 1 = i + k /\ p \in i + 1 .. q /\ p > 1 /\ i + (k + 1) = p /\ k + 1 \in 0 .. n
    BY <1>1, <1>3
  <2>2. fills[p].start = fills[p - 1].end
    BY <2>1 DEF Path
  <2>3. fills[p].start # 0
    BY <1>3, <2>1, <2>2
  <2>4. ~IsEnding(p)
    BY <2>1
  <2>5. fills[p].end # 0
    BY <2>3, <2>4 DEF IsEnding
  <2> HIDE DEF p
  <2> QED BY <2>1, <2>5
<1>4. \A k \in 0 .. n : k \in S
  <2> HIDE DEF S, n
  <2> QED BY <1>1, <1>2, <1>3, UpTo
<1>5. n \in S
  <2>1. n \in 0 .. n
    BY <1>1
  <2> HIDE DEF S, n
  <2> QED BY <1>4, <2>1
<1> QED BY <1>1, <1>5

(* ... so that between two openings there is an end. *)
LEMMA EndsBetween ==
  ASSUME Path, NEW i \in 1 .. Len(fills), NEW j \in 1 .. Len(fills), i < j, IsOpening(i), IsOpening(j)
  PROVE  \E k \in i + 1 .. j : IsEnding(k)
<1>1. SUFFICES ASSUME \A k \in i + 1 .. j : ~IsEnding(k) PROVE FALSE
  OBVIOUS
<1>2. Len(fills) \in Nat /\ i \in Nat /\ j \in Nat /\ j - 1 \in i .. Len(fills) /\ j > 1 /\ j \in i + 1 .. j
  BY PathLen
<1>3. \A k \in i + 1 .. j - 1 : ~IsEnding(k)
  BY <1>1, <1>2
<1>4. fills[j - 1].end # 0
  BY <1>2, <1>3, StillOpen
<1>5. fills[j].start # 0
  BY <1>2, <1>4 DEF Path
<1>6. Flips(fills[j])
  BY <1>5 DEF IsOpening
<1>7. IsEnding(j)
  BY <1>6 DEF IsEnding, Flips
<1> QED BY <1>1, <1>2, <1>7

(* The end of a trip. *)
LEMMA EndIs ==
  ASSUME Path, NEW i \in 1 .. Len(fills), NEW j \in EndOf(i)
  PROVE  /\ EndAt(i) = j /\ j \in 1 .. Len(fills) /\ i < j /\ IsEnding(j)
         /\ \A k \in i + 1 .. j - 1 : ~IsEnding(k)
<1>1. Len(fills) \in Nat /\ i \in Nat
  BY PathLen
<1>2. \A x \in EndOf(i) : x \in Nat /\ x \in 1 .. Len(fills) /\ i < x /\ IsEnding(x) /\ \A k \in i + 1 .. x - 1 : ~IsEnding(k)
  BY <1>1 DEF EndOf
<1>3. ASSUME NEW x \in EndOf(i) PROVE x = j
  <2>1. CASE x < j
    <3>1. x \in i + 1 .. j - 1
      BY <1>1, <1>2, <2>1
    <3> QED BY <1>2, <3>1
  <2>2. CASE j < x
    <3>1. j \in i + 1 .. x - 1
      BY <1>1, <1>2, <2>2
    <3> QED BY <1>2, <3>1
  <2> QED BY <1>2, <2>1, <2>2
<1>4. EndAt(i) = j
  BY <1>3 DEF EndAt
<1> QED BY <1>2, <1>4

(* The trip under way after the first q fills, of those opened after cut. *)
UnderWay(cut, q) == {i \in cut + 1 .. q : IsOpening(i) /\ \A k \in i + 1 .. q : ~IsEnding(k)}

(* At most one trip is under way, and while it is the position is not flat. *)
LEMMA OpenedOne ==
  ASSUME Path, NEW cut \in 0 .. Len(fills), NEW q \in 0 .. Len(fills), NEW i \in UnderWay(cut, q)
  PROVE  /\ i \in 1 .. Len(fills) /\ cut < i /\ i <= q /\ IsOpening(i) /\ fills[q].end # 0
         /\ \A o \in UnderWay(cut, q) : o = i
<1>1. Len(fills) \in Nat /\ cut \in Nat /\ q \in Nat
  BY PathLen
<1>2. \A o \in UnderWay(cut, q) : /\ o \in Nat /\ o \in 1 .. Len(fills) /\ cut < o /\ o <= q /\ IsOpening(o)
                                  /\ \A k \in o + 1 .. q : ~IsEnding(k)
  BY <1>1 DEF UnderWay
<1>3. q \in i .. Len(fills)
  BY <1>1, <1>2
<1>4. fills[q].end # 0
  BY <1>2, <1>3, StillOpen
<1>5. ASSUME NEW o \in UnderWay(cut, q), NEW x \in UnderWay(cut, q), o < x PROVE FALSE
  <2>1. PICK k \in o + 1 .. x : IsEnding(k)
    BY <1>2, <1>5, EndsBetween
  <2>2. k \in o + 1 .. q
    BY <1>1, <1>2, <2>1
  <2> QED BY <1>2, <2>1, <2>2
<1>6. \A o \in UnderWay(cut, q) : o = i
  <2>1. ASSUME NEW o \in UnderWay(cut, q) PROVE o = i
    <3>1. o \in Nat /\ i \in Nat
      BY <1>2
    <3>2. ~(o < i) /\ ~(i < o)
      BY <1>5
    <3> QED BY <3>1, <3>2
  <2> QED BY <2>1
<1> QED BY <1>2, <1>4, <1>6

(* A trip that ended: where it began and where it ends. *)
LEMMA EndedIs ==
  ASSUME Path, NEW cut \in 0 .. Len(fills), NEW q \in 0 .. Len(fills), NEW i \in EndedBy(cut, q)
  PROVE  /\ i \in 1 .. Len(fills) /\ cut < i /\ IsOpening(i) /\ EndAt(i) \in EndOf(i) /\ EndAt(i) <= q
         /\ i < EndAt(i) /\ EndAt(i) \in 1 .. Len(fills) /\ IsEnding(EndAt(i))
         /\ \A k \in i + 1 .. EndAt(i) - 1 : ~IsEnding(k)
<1>1. Len(fills) \in Nat /\ cut \in Nat /\ q \in Nat
  BY PathLen
<1>2. i \in 1 .. Len(fills) /\ cut < i /\ IsOpening(i)
  BY <1>1 DEF EndedBy
<1>3. PICK j \in EndOf(i) : j <= q
  BY DEF EndedBy
<1> QED BY <1>2, <1>3, EndIs

(* The trips that ended began before the one under way. *)
LEMMA EndedBefore ==
  ASSUME Path, NEW cut \in 0 .. Len(fills), NEW q \in 0 .. Len(fills), NEW i \in EndedBy(cut, q), NEW o \in UnderWay(cut, q)
  PROVE  i < o
<1>1. Len(fills) \in Nat /\ cut \in Nat /\ q \in Nat
  BY PathLen
<1> DEFINE j == EndAt(i)
<1>2. i \in 1 .. Len(fills) /\ j <= q /\ i < j /\ j \in 1 .. Len(fills) /\ IsEnding(j)
  BY EndedIs
<1>3. o \in 1 .. Len(fills) /\ \A k \in o + 1 .. q : ~IsEnding(k)
  BY <1>1 DEF UnderWay
<1> HIDE DEF j
<1>4. ~(j \in o + 1 .. q)
  BY <1>2, <1>3
<1> QED BY <1>1, <1>2, <1>3, <1>4

(* One fill more. *)
LEMMA OpenedNext ==
  ASSUME Path, NEW cut \in 0 .. Len(fills), NEW p \in cut + 1 .. Len(fills)
  PROVE  UnderWay(cut, p) = (IF IsEnding(p) THEN {} ELSE UnderWay(cut, p - 1)) \cup (IF IsOpening(p) THEN {p} ELSE {})
<1>1. Len(fills) \in Nat /\ cut \in Nat /\ p \in Nat /\ p \in 1 .. Len(fills)
  BY PathLen
<1>2. \A i : i \in cut + 1 .. p <=> i = p \/ i \in cut + 1 .. p - 1
  BY <1>1
<1>3. ASSUME NEW i \in cut + 1 .. p - 1
      PROVE  (\A k \in i + 1 .. p : ~IsEnding(k)) <=> ~IsEnding(p) /\ \A k \in i + 1 .. p - 1 : ~IsEnding(k)
  <2>1. \A k : k \in i + 1 .. p <=> k = p \/ k \in i + 1 .. p - 1
    BY <1>1
  <2> QED BY <2>1
<1>4. \A k \in p + 1 .. p : ~IsEnding(k)
  BY <1>1
<1>5. p \notin cut + 1 .. p - 1
  BY <1>1
<1>6. ASSUME NEW i PROVE i \in UnderWay(cut, p) <=> \/ ~IsEnding(p) /\ i \in UnderWay(cut, p - 1)
                                                    \/ IsOpening(p) /\ i = p
  <2>1. CASE i = p
    BY <1>2, <1>4, <1>5, <2>1 DEF UnderWay
  <2>2. CASE i \in cut + 1 .. p - 1
    BY <1>2, <1>3, <1>5, <2>2 DEF UnderWay
  <2>3. CASE i # p /\ i \notin cut + 1 .. p - 1
    BY <1>2, <2>3 DEF UnderWay
  <2> QED BY <2>1, <2>2, <2>3
<1> QED BY <1>6

(* With one fill more, the trip under way ends with it or none does. *)
LEMMA EndedNext ==
  ASSUME Path, NEW cut \in 0 .. Len(fills), NEW p \in cut + 1 .. Len(fills)
  PROVE  /\ EndedBy(cut, p) = EndedBy(cut, p - 1) \cup (IF IsEnding(p) THEN UnderWay(cut, p - 1) ELSE {})
         /\ IsEnding(p) => \A i \in UnderWay(cut, p - 1) : EndAt(i) = p
<1>1. Len(fills) \in Nat /\ cut \in Nat /\ p \in Nat /\ p \in 1 .. Len(fills) /\ p - 1 \in 0 .. Len(fills)
  BY PathLen
<1>2. ASSUME IsEnding(p), NEW i \in UnderWay(cut, p - 1) PROVE p \in EndOf(i) /\ EndAt(i) = p
  <2>1. i \in 1 .. Len(fills) /\ i <= p - 1 /\ \A k \in i + 1 .. p - 1 : ~IsEnding(k)
    BY <1>1 DEF UnderWay
  <2>2. p \in EndOf(i)
    BY <1>1, <1>2, <2>1 DEF EndOf
  <2> QED BY <2>1, <2>2, EndIs
<1>3. ASSUME NEW i \in EndedBy(cut, p), i \notin EndedBy(cut, p - 1)
      PROVE  IsEnding(p) /\ i \in UnderWay(cut, p - 1)
  <2>1. /\ i \in 1 .. Len(fills) /\ cut < i /\ IsOpening(i) /\ EndAt(i) \in EndOf(i) /\ EndAt(i) <= p
        /\ i < EndAt(i) /\ EndAt(i) \in 1 .. Len(fills) /\ IsEnding(EndAt(i))
        /\ \A k \in i + 1 .. EndAt(i) - 1 : ~IsEnding(k)
    <3>1. p \in 0 .. Len(fills)
      BY <1>1
    <3> QED BY <3>1, EndedIs
  <2>2. EndAt(i) = p
    <3>1. CASE EndAt(i) <= p - 1
      <4>1. i \in cut + 1 .. p - 1
        BY <1>1, <2>1, <3>1
      <4> QED BY <1>3, <2>1, <3>1, <4>1 DEF EndedBy
    <3> QED BY <1>1, <2>1, <3>1
  <2>3. i \in cut + 1 .. p - 1
    BY <1>1, <2>1, <2>2
  <2> QED BY <2>1, <2>2, <2>3 DEF UnderWay
<1>4. ASSUME NEW i \in EndedBy(cut, p - 1) PROVE i \in EndedBy(cut, p)
  <2>1. i \in cut + 1 .. p - 1 /\ IsOpening(i) /\ \E j \in EndOf(i) : j <= p - 1
    BY DEF EndedBy
  <2>2. i \in cut + 1 .. p
    BY <1>1, <2>1
  <2>3. \A j \in EndOf(i) : j \in Int
    BY <1>1 DEF EndOf
  <2>4. \E j \in EndOf(i) : j <= p
    BY <1>1, <2>1, <2>3
  <2> QED BY <2>1, <2>2, <2>4 DEF EndedBy
<1>5. ASSUME IsEnding(p), NEW i \in UnderWay(cut, p - 1) PROVE i \in EndedBy(cut, p)
  <2>1. i \in cut + 1 .. p /\ IsOpening(i)
    BY <1>1 DEF UnderWay
  <2>2. p \in EndOf(i) /\ p <= p
    BY <1>1, <1>2, <1>5
  <2> QED BY <2>1, <2>2 DEF EndedBy
<1>6. EndedBy(cut, p) = EndedBy(cut, p - 1) \cup (IF IsEnding(p) THEN UnderWay(cut, p - 1) ELSE {})
  BY <1>3, <1>4, <1>5
<1> QED BY <1>2, <1>6

-----------------------------------------------------------------------------
(* What is built from the path is its trips.                                *)
TripSoFar(i, q) ==
  [side |-> SideOf(fills[i].end), open |-> fills[i].ms, close |-> 0,
   entry |-> Abs(fills[i].end) + Total(Grown, i + 1 .. q), exit |-> Total(Shrunk, i + 1 .. q)]

(* What one fill adds and takes. *)
LEMMA ChangeIs ==
  ASSUME Path, NEW k \in 1 .. Len(fills)
  PROVE  /\ Grown[k] = (IF Abs(fills[k].end) > Abs(fills[k].start) THEN Abs(fills[k].end) - Abs(fills[k].start) ELSE 0)
         /\ Shrunk[k] = (IF Abs(fills[k].end) < Abs(fills[k].start) THEN Abs(fills[k].start) - Abs(fills[k].end) ELSE 0)
         /\ Grown[k] \in Nat /\ Shrunk[k] \in Nat
<1>1. Abs(fills[k].start) \in Nat /\ Abs(fills[k].end) \in Nat
  BY PathMoves, PartsOf
<1> HIDE DEF Abs
<1> QED BY <1>1 DEF Grown, Shrunk

(* The sums of a trip, and with one fill more. *)
LEMMA SumsOf ==
  ASSUME Path, NEW i \in 1 .. Len(fills), NEW q \in i .. Len(fills)
  PROVE  Total(Grown, i + 1 .. q) \in Nat /\ Total(Shrunk, i + 1 .. q) \in Nat
<1>1. Len(fills) \in Nat /\ i \in Nat /\ q \in Nat /\ i <= q
  BY PathLen
<1>2. IsFiniteSet(i + 1 .. q)
  BY <1>1, CountTo
<1>3. \A k \in i + 1 .. q : Grown[k] \in Nat /\ Shrunk[k] \in Nat
  <2>1. \A k \in i + 1 .. q : k \in 1 .. Len(fills)
    BY <1>1
  <2> QED BY <2>1, ChangeIs
<1> QED BY <1>2, <1>3, TotalNat

(* The sums of a trip with one fill more. *)
LEMMA SumsNext ==
  ASSUME Path, NEW i \in 1 .. Len(fills), NEW p \in i + 1 .. Len(fills)
  PROVE  /\ Total(Grown, i + 1 .. p) = Total(Grown, i + 1 .. p - 1) + Grown[p]
         /\ Total(Shrunk, i + 1 .. p) = Total(Shrunk, i + 1 .. p - 1) + Shrunk[p]
         /\ Total(Grown, i + 1 .. p - 1) \in Nat /\ Total(Shrunk, i + 1 .. p - 1) \in Nat
<1> DEFINE S == i + 1 .. p
           R == i + 1 .. p - 1
<1>1. Len(fills) \in Nat /\ i \in Nat /\ p \in Nat /\ i <= p /\ p \in S /\ p \in 1 .. Len(fills) /\ p - 1 \in i .. Len(fills)
  BY PathLen
<1>2. IsFiniteSet(S)
  BY <1>1, CountTo
<1>3. \A k \in S : Grown[k] \in Int /\ Shrunk[k] \in Int
  <2>1. \A k \in S : k \in 1 .. Len(fills)
    BY <1>1
  <2> QED BY <2>1, ChangeIs
<1>4. S \ {p} = R
  BY <1>1
<1>5. Total(Grown, R) \in Nat /\ Total(Shrunk, R) \in Nat
  BY <1>1, SumsOf
<1>6. Grown[p] \in Nat /\ Shrunk[p] \in Nat
  BY <1>1, ChangeIs
<1> HIDE DEF S
<1>7. Total(Grown, S) = Grown[p] + Total(Grown, S \ {p}) /\ Total(Shrunk, S) = Shrunk[p] + Total(Shrunk, S \ {p})
  BY <1>1, <1>2, <1>3, TotalRemove
<1>8. Total(Grown, S) = Grown[p] + Total(Grown, R) /\ Total(Shrunk, S) = Shrunk[p] + Total(Shrunk, R)
  BY <1>4, <1>7
<1>9. \A x, y \in Nat : x + y = y + x
  OBVIOUS
<1>10. /\ Total(Grown, S) = Total(Grown, R) + Grown[p] /\ Total(Shrunk, S) = Total(Shrunk, R) + Shrunk[p]
  <2> HIDE DEF R
  <2> QED BY <1>5, <1>6, <1>8, <1>9
<1> QED BY <1>5, <1>10 DEF S

(* A trip that has just begun. *)
LEMMA SoFarBegins ==
  ASSUME Path, NEW p \in 1 .. Len(fills)
  PROVE  TripSoFar(p, p) = FreshTrip(fills[p], Abs(fills[p].end))
<1>1. p + 1 .. p = {}
  BY PathLen
<1>2. Total(Grown, {}) = 0 /\ Total(Shrunk, {}) = 0
  BY FS_EmptySet, TotalRule
<1>3. Abs(fills[p].end) \in Nat
  BY PathMoves, PartsOf
<1>4. Abs(fills[p].end) + 0 = Abs(fills[p].end)
  BY <1>3
<1> QED BY <1>1, <1>2, <1>4 DEF TripSoFar, FreshTrip

(* One that goes on. *)
LEMMA SoFarNext ==
  ASSUME Path, NEW i \in 1 .. Len(fills), NEW p \in i + 1 .. Len(fills)
  PROVE  /\ Grows(fills[p]) => TripSoFar(i, p) = [TripSoFar(i, p - 1) EXCEPT !.entry = @ + OpenedPart(fills[p])]
         /\ Shrinks(fills[p]) => TripSoFar(i, p) = [TripSoFar(i, p - 1) EXCEPT !.exit = @ + ClosedPart(fills[p])]
<1> DEFINE f == fills[p]
           g == Total(Grown, i + 1 .. p - 1)
           s == Total(Shrunk, i + 1 .. p - 1)
           a == Abs(fills[i].end)
<1>1. i \in Nat /\ p \in Nat /\ p \in 1 .. Len(fills)
  BY PathLen
<1>2. /\ Total(Grown, i + 1 .. p) = g + Grown[p] /\ Total(Shrunk, i + 1 .. p) = s + Shrunk[p]
      /\ g \in Nat /\ s \in Nat
  BY SumsNext
<1>3. a \in Nat /\ Moves(f) /\ Abs(f.start) \in Nat /\ Abs(f.end) \in Nat
  BY <1>1, PathMoves, PartsOf
<1>4. TripSoFar(i, p - 1) = [side |-> SideOf(fills[i].end), open |-> fills[i].ms, close |-> 0, entry |-> a + g, exit |-> s]
  BY DEF TripSoFar
<1>5. TripSoFar(i, p) = [side |-> SideOf(fills[i].end), open |-> fills[i].ms, close |-> 0,
                         entry |-> a + (g + Grown[p]), exit |-> s + Shrunk[p]]
  BY <1>2 DEF TripSoFar
<1>6. ASSUME Grows(f) PROVE TripSoFar(i, p) = [TripSoFar(i, p - 1) EXCEPT !.entry = @ + OpenedPart(f)]
  <2>1. OpenedPart(f) = Grown[p] /\ Shrunk[p] = 0 /\ Grown[p] \in Nat
    BY <1>1, <1>3, <1>6, PartsOf, ChangeIs DEF Grows
  <2>2. a + (g + Grown[p]) = (a + g) + Grown[p] /\ s + 0 = s
    BY <1>2, <1>3, <2>1
  <2> HIDE DEF a, g, s, f
  <2> QED BY <1>4, <1>5, <2>1, <2>2
<1>7. ASSUME Shrinks(f) PROVE TripSoFar(i, p) = [TripSoFar(i, p - 1) EXCEPT !.exit = @ + ClosedPart(f)]
  <2>1. ClosedPart(f) = Shrunk[p] /\ Grown[p] = 0
    BY <1>1, <1>3, <1>7, PartsOf, ChangeIs DEF Shrinks
  <2>2. a + (g + 0) = a + g
    BY <1>2, <1>3
  <2> HIDE DEF a, g, s, f
  <2> QED BY <1>4, <1>5, <2>1, <2>2
<1> QED BY <1>6, <1>7

(* One that ends. *)
LEMMA SoFarEnds ==
  ASSUME Path, NEW i \in 1 .. Len(fills), NEW p \in i + 1 .. Len(fills), EndAt(i) = p
  PROVE  TripOf(i) = TripDone(TripSoFar(i, p - 1), fills[p])
<1> DEFINE g == Total(Grown, i + 1 .. p - 1)
           s == Total(Shrunk, i + 1 .. p - 1)
           a == Abs(fills[i].end)
           b == Abs(fills[p].start)
<1>1. i \in Nat /\ p \in Nat /\ p \in 1 .. Len(fills)
  BY PathLen
<1>2. g \in Nat /\ s \in Nat /\ a \in Nat /\ b \in Nat
  BY <1>1, SumsNext, PathMoves, PartsOf
<1>3. MapThenSumSet(LAMBDA k : Grown[k], i + 1 .. p - 1) = g /\ MapThenSumSet(LAMBDA k : Shrunk[k], i + 1 .. p - 1) = s
  BY SumIsTotal
<1>4. TripOf(i) = [side |-> SideOf(fills[i].end), open |-> fills[i].ms, close |-> fills[p].ms, entry |-> a + g, exit |-> b + s]
  BY <1>3 DEF TripOf
<1>5. TripSoFar(i, p - 1) = [side |-> SideOf(fills[i].end), open |-> fills[i].ms, close |-> 0, entry |-> a + g, exit |-> s]
  BY DEF TripSoFar
<1>6. b + s = s + b
  BY <1>2
<1>7. TripDone(TripSoFar(i, p - 1), fills[p]) = [TripSoFar(i, p - 1) EXCEPT !.exit = @ + b, !.close = fills[p].ms]
  BY DEF TripDone
<1> DEFINE x == SideOf(fills[i].end)
           m == fills[i].ms
           n == fills[p].ms
           t == [side |-> x, open |-> m, close |-> 0, entry |-> a + g, exit |-> s]
           u == [side |-> x, open |-> m, close |-> 0, entry |-> a + g, exit |-> s + b]
<1>8. [t EXCEPT !.exit = @ + b] = u
  <2> HIDE DEF a, b, g, s, x, m
  <2> QED OBVIOUS
<1>9. [u EXCEPT !.close = n] = [side |-> x, open |-> m, close |-> n, entry |-> a + g, exit |-> s + b]
  <2> HIDE DEF a, b, g, s, x, m, n
  <2> QED OBVIOUS
<1>10. [t EXCEPT !.exit = @ + b, !.close = n] = [[t EXCEPT !.exit = @ + b] EXCEPT !.close = n]
  <2> HIDE DEF t, b, n
  <2> QED OBVIOUS
<1> HIDE DEF a, b, g, s
<1> QED BY <1>4, <1>5, <1>6, <1>7, <1>8, <1>9, <1>10, Zenon

(* What has been built of the fills from cut on after the q-th: the trips   *)
(* that ended, and the one under way.                                       *)
TripsBuilt(cut, q, acc) ==
  /\ BuildInv(acc)
  /\ acc.trips = TripsOf(EndedBy(cut, q))
  /\ UnderWay(cut, q) = {} => acc.trip = NoTrip
  /\ \A i \in UnderWay(cut, q) : acc.trip = TripSoFar(i, q)

(* One fill more in the order they happened keeps what is built equal to the *)
(* trips of the path.                                                        *)
LEMMA BuiltStep ==
  ASSUME Path, NEW cut \in 0 .. Len(fills), NEW p \in cut + 1 .. Len(fills), NEW acc, TripsBuilt(cut, p - 1, acc)
  PROVE  TripsBuilt(cut, p, BuildStep(acc, fills[p]))
<1> DEFINE f == fills[p]
           next == BuildStep(acc, f)
           was == UnderWay(cut, p - 1)
<1> SUFFICES TripsBuilt(cut, p, next)
  OBVIOUS
<1>1. /\ Len(fills) \in Nat /\ cut \in Nat /\ p \in Nat /\ p \in 1 .. Len(fills) /\ p - 1 \in 0 .. Len(fills)
      /\ p > cut /\ cut \in 0 .. Len(fills)
  BY PathLen
<1>2. Moves(f) /\ acc \in AccRec /\ BuildInv(next)
  BY <1>1, PathMoves, BuildInvStep DEF TripsBuilt, BuildInv
<1>3. UnderWay(cut, p) = (IF IsEnding(p) THEN {} ELSE was) \cup (IF IsOpening(p) THEN {p} ELSE {})
  BY OpenedNext
<1>4. /\ EndedBy(cut, p) = EndedBy(cut, p - 1) \cup (IF IsEnding(p) THEN was ELSE {})
      /\ IsEnding(p) => \A i \in was : EndAt(i) = p
  BY EndedNext
<1>5. ASSUME NEW i \in was
      PROVE  /\ i \in 1 .. Len(fills) /\ i <= p - 1 /\ was = {i} /\ acc.trip = TripSoFar(i, p - 1) /\ f.start # 0
             /\ acc.trip # NoTrip /\ p \in i + 1 .. Len(fills)
  <2>1. i \in 1 .. Len(fills) /\ i <= p - 1 /\ cut < i /\ fills[p - 1].end # 0 /\ \A o \in was : o = i
    BY <1>1, OpenedOne
  <2>2. p > 1
    BY <1>1, <2>1
  <2>3. f.start # 0
    BY <1>1, <2>1, <2>2 DEF Path
  <2>4. acc.trip = TripSoFar(i, p - 1)
    BY DEF TripsBuilt
  <2>5. acc.trip # NoTrip
    BY <2>4 DEF TripSoFar, NoTrip, SideOf
  <2>6. p \in i + 1 .. Len(fills)
    BY <1>1, <2>1
  <2> HIDE DEF was
  <2> QED BY <2>1, <2>3, <2>4, <2>5, <2>6
<1>6. was = {} => acc.trip = NoTrip
  BY DEF TripsBuilt
<1>7. acc.trips = TripsOf(EndedBy(cut, p - 1))
  BY DEF TripsBuilt
<1>8. /\ IsOpening(p) <=> Begins(f) \/ Flips(f)
      /\ IsEnding(p) <=> Flattens(f) \/ Flips(f)
  BY <1>1, OpensIs
<1> HIDE DEF was
<1>9. CASE Begins(f)
  <2>1. IsOpening(p) /\ ~IsEnding(p) /\ was = {}
    BY <1>5, <1>8, <1>9 DEF Begins, Flattens, Flips
  <2>2. UnderWay(cut, p) = {p} /\ EndedBy(cut, p) = EndedBy(cut, p - 1)
    BY <1>3, <1>4, <2>1
  <2>3. next = [trips |-> acc.trips, trip |-> FreshTrip(f, OpenedPart(f)), pos |-> f.end, known |-> TRUE, flat |-> Flat(acc, f)]
    <3>1. Flat(acc, f)
      BY <1>9 DEF Flat, Begins
    <3> QED BY <1>2, <1>6, <1>9, <2>1, <3>1, StepOpens
  <2>4. OpenedPart(f) = Abs(f.end)
    BY <1>2, <1>9, PartsOf
  <2>5. next.trip = TripSoFar(p, p) /\ next.trips = acc.trips
    BY <1>1, <2>3, <2>4, SoFarBegins
  <2> HIDE DEF next
  <2> QED BY <1>2, <1>7, <2>2, <2>5 DEF TripsBuilt
<1>10. CASE Grows(f)
  <2>1. ~IsOpening(p) /\ ~IsEnding(p)
    BY <1>8, <1>10 DEF Grows, Begins, Flattens, Flips
  <2>2. UnderWay(cut, p) = was /\ EndedBy(cut, p) = EndedBy(cut, p - 1)
    BY <1>3, <1>4, <2>1
  <2>3. next = [trips |-> acc.trips,
                trip |-> IF acc.trip # NoTrip THEN [acc.trip EXCEPT !.entry = @ + OpenedPart(f)]
                         ELSE IF Flat(acc, f) THEN FreshTrip(f, OpenedPart(f)) ELSE NoTrip,
                pos |-> f.end, known |-> TRUE, flat |-> Flat(acc, f)]
    BY <1>2, <1>10, StepOpens
  <2>4. next.trips = acc.trips
    BY <2>3
  <2>5. ASSUME was = {} PROVE next.trip = NoTrip
    <3>1. acc.trip = NoTrip
      BY <1>6, <2>5
    <3>2. ~Flat(acc, f)
      BY <1>10, <3>1, FlatBegins DEF TripsBuilt, Grows
    <3> QED BY <2>3, <3>1, <3>2
  <2>6. ASSUME NEW i \in was PROVE next.trip = TripSoFar(i, p)
    <3>1. acc.trip # NoTrip /\ acc.trip = TripSoFar(i, p - 1)
      BY <1>5
    <3>2. next.trip = [acc.trip EXCEPT !.entry = @ + OpenedPart(f)]
      BY <2>3, <3>1
    <3>3. TripSoFar(i, p) = [TripSoFar(i, p - 1) EXCEPT !.entry = @ + OpenedPart(f)]
      BY <1>5, <1>10, SoFarNext
    <3> HIDE DEF next
    <3> QED BY <3>1, <3>2, <3>3
  <2> HIDE DEF next
  <2> QED BY <1>2, <1>7, <2>2, <2>4, <2>5, <2>6 DEF TripsBuilt
<1>11. CASE Shrinks(f)
  <2>1. ~IsOpening(p) /\ ~IsEnding(p)
    BY <1>8, <1>11 DEF Shrinks, Begins, Flattens, Flips
  <2>2. UnderWay(cut, p) = was /\ EndedBy(cut, p) = EndedBy(cut, p - 1)
    BY <1>3, <1>4, <2>1
  <2>3. next = [trips |-> acc.trips,
                trip |-> IF acc.trip # NoTrip THEN [acc.trip EXCEPT !.exit = @ + ClosedPart(f)] ELSE NoTrip,
                pos |-> f.end, known |-> TRUE, flat |-> Flat(acc, f)]
    BY <1>2, <1>11, StepShrinks
  <2>4. next.trips = acc.trips
    BY <2>3
  <2>5. ASSUME was = {} PROVE next.trip = NoTrip
    BY <1>6, <2>3, <2>5
  <2>6. ASSUME NEW i \in was PROVE next.trip = TripSoFar(i, p)
    <3>1. acc.trip # NoTrip /\ acc.trip = TripSoFar(i, p - 1)
      BY <1>5
    <3>2. next.trip = [acc.trip EXCEPT !.exit = @ + ClosedPart(f)]
      BY <2>3, <3>1
    <3>3. TripSoFar(i, p) = [TripSoFar(i, p - 1) EXCEPT !.exit = @ + ClosedPart(f)]
      BY <1>5, <1>11, SoFarNext
    <3> HIDE DEF next
    <3> QED BY <3>1, <3>2, <3>3
  <2> HIDE DEF next
  <2> QED BY <1>2, <1>7, <2>2, <2>4, <2>5, <2>6 DEF TripsBuilt
<1>12. CASE Flattens(f) \/ Flips(f)
  <2>1. IsEnding(p) /\ (IsOpening(p) <=> Flips(f))
    BY <1>8, <1>12 DEF Begins, Flattens, Flips
  <2>2. UnderWay(cut, p) = (IF Flips(f) THEN {p} ELSE {}) /\ EndedBy(cut, p) = EndedBy(cut, p - 1) \cup was
    BY <1>3, <1>4, <2>1
  <2>3. next = [trips |-> IF acc.trip # NoTrip THEN Append(acc.trips, TripDone(acc.trip, f)) ELSE acc.trips,
                trip |-> IF Flips(f) THEN FreshTrip(f, Abs(f.end)) ELSE NoTrip,
                pos |-> f.end, known |-> TRUE, flat |-> TRUE]
    BY <1>2, <1>12, StepEnds
  <2>4. next.trips = TripsOf(EndedBy(cut, p))
    <3>1. CASE was = {}
      BY <1>6, <1>7, <2>2, <2>3, <3>1
    <3>2. CASE was # {}
      <4>1. PICK i \in was : TRUE
        BY <3>2
      <4>2. acc.trip # NoTrip /\ acc.trip = TripSoFar(i, p - 1) /\ was = {i} /\ EndAt(i) = p /\ i \in 1 .. Len(fills)
        BY <1>4, <1>5, <2>1
      <4>3. TripOf(i) = TripDone(acc.trip, f)
        BY <1>5, <4>2, SoFarEnds
      <4>4. next.trips = Append(TripsOf(EndedBy(cut, p - 1)), TripOf(i))
        BY <1>7, <2>3, <4>2, <4>3
      <4>5. EndedBy(cut, p - 1) \in SUBSET (0 .. Len(fills)) /\ \A y \in EndedBy(cut, p - 1) : y < i
        <5>1. \A y \in EndedBy(cut, p - 1) : y \in 0 .. Len(fills)
          BY <1>1, EndedIs
        <5>2. i \in UnderWay(cut, p - 1)
          BY <4>1 DEF was
        <5> QED BY <1>1, <5>1, <5>2, EndedBefore
      <4> DEFINE S == EndedBy(cut, p - 1)
                 b == Len(fills)
      <4>6. S \in SUBSET (0 .. b) /\ b \in Nat /\ i \in Nat /\ \A y \in S : y < i
        BY <1>1, <4>2, <4>5
      <4> HIDE DEF S, b
      <4>7. TripsOf(S \cup {i}) = Append(TripsOf(S), TripOf(i))
        BY <4>6, TripsOfMore
      <4> HIDE DEF next
      <4> QED BY <2>2, <4>2, <4>4, <4>7 DEF S
    <3> QED BY <3>1, <3>2
  <2>5. next.trip = IF Flips(f) THEN TripSoFar(p, p) ELSE NoTrip
    BY <1>1, <2>3, SoFarBegins
  <2> HIDE DEF next
  <2> QED BY <1>2, <2>2, <2>4, <2>5 DEF TripsBuilt
<1> QED BY <1>2, <1>9, <1>10, <1>11, <1>12, Kinds

(* From everything stored after cut, the trips that opened after it.        *)
LEMMA BuiltFrom ==
  ASSUME Path, Distinct, NEW cut \in 0 .. Len(fills)
  PROVE  BuildTrips(From(cut)) = TripsOf(EndedBy(cut, Len(fills)))
<1> DEFINE s == FillsInOrder(cut)
           M == Len(fills) - cut
           st(k) == Builds!Run(Unbuilt, s, k)
           S == {k \in 0 .. M : TripsBuilt(cut, cut + k, st(k))}
<1>1. Len(fills) \in Nat /\ cut \in Nat /\ M \in Nat /\ Len(s) = M /\ DOMAIN s = 1 .. Len(s) /\ cut + M = Len(fills)
      /\ cut + 0 = cut
  BY PathLen DEF FillsInOrder
<1>2. /\ Builds!Fold(Unbuilt, s) = st(M) /\ st(0) = Unbuilt
      /\ \A k \in 1 .. M : st(k) = BuildStep(st(k - 1), s[k])
  <2> HIDE DEF s, M
  <2>1. Builds!Fold(Unbuilt, s) = Builds!Run(Unbuilt, s, Len(s)) /\ Builds!Run(Unbuilt, s, 0) = Unbuilt
    BY <1>1, Builds!RunIsFold
  <2>2. ASSUME NEW k \in 1 .. Len(s) PROVE Builds!Run(Unbuilt, s, k) = BuildStep(Builds!Run(Unbuilt, s, k - 1), s[k])
    BY <1>1, Builds!RunStep
  <2> QED BY <1>1, <2>1, <2>2
<1>3. \A k \in 1 .. M : s[k] = fills[cut + k]
  BY DEF FillsInOrder
<1> HIDE DEF st, s
<1>4. 0 \in S
  <2>1. BuildInv(Unbuilt)
    BY DEF Unbuilt, BuildInv, AccRec
  <2>2. cut + 1 .. cut = {}
    BY <1>1
  <2>3. UnderWay(cut, cut) = {} /\ EndedBy(cut, cut) = {}
    BY <2>2 DEF UnderWay, EndedBy
  <2>4. TripsOf({}) = <<>>
    BY FS_EmptySet DEF TripsOf
  <2>5. TripsBuilt(cut, cut, Unbuilt)
    BY <2>1, <2>3, <2>4 DEF TripsBuilt, Unbuilt
  <2> QED BY <1>1, <1>2, <2>5
<1>5. ASSUME NEW k \in Nat, k < M, k \in S PROVE k + 1 \in S
  <2> DEFINE p == cut + k + 1
  <2>1. p \in cut + 1 .. Len(fills) /\ p - 1 = cut + k /\ cut + (k + 1) = p /\ k + 1 \in 1 .. M /\ k + 1 - 1 = k
        /\ k + 1 \in 0 .. M
    BY <1>1, <1>5
  <2>2. TripsBuilt(cut, p - 1, st(k))
    BY <1>5, <2>1
  <2>3. st(k + 1) = BuildStep(st(k), fills[p])
    <3> HIDE DEF M
    <3> QED BY <1>2, <1>3, <2>1
  <2> HIDE DEF p
  <2>4. TripsBuilt(cut, p, BuildStep(st(k), fills[p]))
    BY <2>1, <2>2, BuiltStep
  <2> QED BY <2>1, <2>3, <2>4
<1>6. TripsBuilt(cut, Len(fills), st(M))
  <2>1. \A k \in 0 .. M : k \in S
    <3> HIDE DEF S, M
    <3> QED BY <1>1, <1>4, <1>5, UpTo
  <2>2. M \in 0 .. M
    BY <1>1
  <2> QED BY <1>1, <2>1, <2>2
<1>7. BuildTrips(From(cut)) = st(M).trips
  BY <1>2, BuildFold, ChainInOrder DEF s
<1> QED BY <1>6, <1>7 DEF TripsBuilt

(* On every path, the trips built are the account's. *)
LEMMA PathTripsTrue == ASSUME Path PROVE TripsAreTrue
<1>1. TripsFromCut
  <2>1. ASSUME NEW cut \in 0 .. Len(fills), Distinct, StoredFrom(cut)
        PROVE  BuildTrips(Stored) = TripsOf(EndedBy(cut, Len(fills)))
    <3>1. Stored = From(cut)
      BY <2>1, StoredIs
    <3> QED BY <2>1, <3>1, BuiltFrom
  <2> QED BY <2>1 DEF TripsFromCut
<1>2. GapsInventNoTrip
  <2>1. Stored \in SUBSET From(0)
    BY DEF Stored, From
  <2> QED BY <2>1, BuiltReal DEF GapsInventNoTrip, ReallyBegun, ReallyEnded
<1> QED BY <1>1, <1>2 DEF TripsAreTrue

-----------------------------------------------------------------------------
(* The rows: of their type, and one for each open time.                     *)
RowSet(rows) == rows \subseteq TripRec /\ \A t, u \in rows : t.open = u.open => t = u

(* A trip put on rows of different open times leaves such rows, ... *)
LEMMA PutKeepsRows ==
  ASSUME NEW rows, RowSet(rows), NEW t \in TripRec
  PROVE  RowSet(PutTrip(rows, t))
<1> DEFINE there == {u \in rows : u.open = t.open}
           v == IF there = {} THEN t ELSE [t EXCEPT !.side = (CHOOSE u \in there : TRUE).side]
<1>1. PutTrip(rows, t) = (rows \ there) \cup {v}
  BY DEF PutTrip
<1>2. v \in TripRec /\ v.open = t.open
  <2>1. CASE there = {}
    BY <2>1
  <2>2. CASE there # {}
    <3> DEFINE w == CHOOSE u \in there : TRUE
    <3>1. w \in there
      BY <2>2
    <3>2. w.side \in {"long", "short"}
      BY <3>1 DEF RowSet, TripRec
    <3>3. v = [t EXCEPT !.side = w.side]
      BY <2>2
    <3> HIDE DEF w, v
    <3> QED BY <3>2, <3>3 DEF TripRec
  <2> QED BY <2>1, <2>2
<1>3. \A u \in rows \ there : u \in TripRec /\ u.open # v.open
  BY <1>2 DEF RowSet
<1> HIDE DEF v
<1> QED BY <1>1, <1>2, <1>3 DEF RowSet

(* ... and so does a write. *)
LEMMA UpsertKeepsRows ==
  ASSUME RowSet(written), NEW new \in Seq(TripRec)
  PROVE  RowSet(Upsert(new))
<1> DEFINE st(k) == Puts!Run(written, new, k)
           S == {k \in 0 .. Len(new) : RowSet(st(k))}
<1>1. Len(new) \in Nat /\ DOMAIN new = 1 .. Len(new)
  OBVIOUS
<1>2. Upsert(new) = st(Len(new)) /\ st(0) = written
  BY <1>1, UpsertFold, Puts!RunIsFold
<1>3. ASSUME NEW k \in 1 .. Len(new) PROVE st(k) = PutTrip(st(k - 1), new[k])
  BY <1>1, Puts!RunStep
<1> HIDE DEF st
<1>4. 0 \in S
  BY <1>1, <1>2
<1>5. ASSUME NEW k \in Nat, k < Len(new), k \in S PROVE k + 1 \in S
  <2>1. k + 1 \in 1 .. Len(new) /\ k + 1 - 1 = k /\ k + 1 \in 0 .. Len(new) /\ new[k + 1] \in TripRec
    BY <1>1, <1>5
  <2>2. RowSet(PutTrip(st(k), new[k + 1]))
    BY <1>5, <2>1, PutKeepsRows
  <2>3. st(k + 1) = PutTrip(st(k), new[k + 1])
    BY <1>3, <2>1
  <2> QED BY <2>1, <2>2, <2>3
<1>6. \A k \in 0 .. Len(new) : k \in S
  <2> HIDE DEF S
  <2> QED BY <1>1, <1>4, <1>5, UpTo
<1>7. Len(new) \in 0 .. Len(new)
  BY <1>1
<1> QED BY <1>2, <1>6, <1>7

(* The trips the feed's close writes are trips. *)
LEMMA LaterTypes ==
  ASSUME NEW trips \in Seq(TripRec), NEW last
  PROVE  LaterTrips(trips, last) \in Seq(TripRec)
<1> DEFINE later == {n \in 1 .. Len(trips) : trips[n].close > last}
           b == Len(trips)
           c == Cardinality(later)
<1>1. b \in Nat /\ later \in SUBSET (0 .. b)
  OBVIOUS
<1>2. IsFiniteSet(later) /\ c \in Nat
  <2> HIDE DEF later, b, c
  <2>1. IsFiniteSet(later)
    BY <1>1, UpToFinite
  <2> QED BY <2>1, FS_CardinalityType DEF c
<1>3. ASSUME NEW n \in 1 .. c PROVE trips[Nth(later, n)] \in TripRec
  <2>1. Nth(later, n) \in later
    <3> HIDE DEF later, b
    <3> QED BY <1>1, NthIn
  <2> QED BY <2>1
<1>4. LaterTrips(trips, last) = [n \in 1 .. c |-> trips[Nth(later, n)]]
  BY DEF LaterTrips
<1> DEFINE t(n) == trips[Nth(later, n)]
<1>5. [n \in 1 .. c |-> t(n)] \in Seq(TripRec)
  <2> SUFFICES ASSUME TRUE PROVE [n \in 1 .. c |-> t(n)] \in Seq(TripRec)
    OBVIOUS
  <2>1. \A n \in 1 .. c : t(n) \in TripRec
    BY <1>3
  <2> HIDE DEF t, c
  <2> QED BY <1>2, <2>1
<1> QED BY <1>4, <1>5

(* The types, with the rows' part named. *)
LEMMA SeqTypes == RoundTypeOK <=> /\ fills \in Seq(FillRec) /\ Len(fills) <= MaxFills /\ over \in BOOLEAN /\ RowSet(written)
BY DEF RoundTypeOK, RowSet

(* The path goes on. *)
LEMMA PathStep ==
  ASSUME RoundTypeOK, Path, FillMade
  PROVE  RoundTypeOK' /\ Path'
<1>1. PICK start \in (IF fills = <<>> THEN Stakes ELSE {LastFill.end}), end \in Stakes, stored \in BOOLEAN,
           later \in {0, 1}, tid \in Tids :
        /\ start # end
        /\ IF later = 1 THEN tid = FirstTid
           ELSE ~over /\ \A i \in 1 .. Len(fills) : fills[i].ms = LastFill.ms => fills[i].tid # tid
        /\ fills' = Append(fills, [ms |-> LastFill.ms + later, tid |-> tid, start |-> start, end |-> end,
                                   stored |-> stored])
  BY DEF FillMade
<1> DEFINE N == Len(fills)
           f == [ms |-> LastFill.ms + later, tid |-> tid, start |-> start, end |-> end, stored |-> stored]
<1>2. N \in Nat /\ N < MaxFills /\ fills \in Seq(FillRec) /\ over' = FALSE /\ written' = written
  BY PathLen DEF FillMade, Path
<1>3. /\ fills = <<>> => N = 0 /\ LastFill = [ms |-> 0, end |-> 0]
      /\ fills # <<>> => N >= 1 /\ N \in 1 .. N /\ LastFill = fills[N]
  <2>1. CASE fills = <<>>
    BY <2>1 DEF LastFill
  <2>2. CASE fills # <<>>
    <3>1. N # 0
      BY <1>2, <2>2, EmptySeq
    <3> QED BY <1>2, <2>2, <3>1 DEF LastFill, Last
  <2> QED BY <2>1, <2>2
<1>4. LastFill.ms \in Nat /\ start \in Stakes
  <2>1. CASE fills = <<>>
    BY <1>3, <2>1
  <2>2. CASE fills # <<>>
    <3>1. fills[N] \in FillRec /\ LastFill = fills[N]
      BY <1>3, <2>2, FillTypes
    <3>2. start = LastFill.end
      BY <2>2
    <3> QED BY <3>1, <3>2 DEF FillRec
  <2> QED BY <2>1, <2>2
<1>5. f \in FillRec
  <2>1. LastFill.ms + later \in Nat
    BY <1>4
  <2> QED BY <1>4, <2>1 DEF FillRec
<1>6. /\ fills' \in Seq(FillRec) /\ Len(fills') = N + 1 /\ fills'[N + 1] = f
      /\ \A i \in 1 .. N : fills'[i] = fills[i]
  <2> HIDE DEF f
  <2> QED BY <1>1, <1>2, <1>5 DEF f
<1>7. \A i \in 1 .. N + 1 : i = N + 1 \/ i \in 1 .. N
  BY <1>2
<1>8. \A i \in 1 .. N : fills[i].ms <= f.ms /\ fills[i].ms \in Nat
  <2>1. ASSUME NEW i \in 1 .. N PROVE fills[i].ms <= f.ms /\ fills[i].ms \in Nat
    <3>1. fills # <<>> /\ N >= 1 /\ LastFill = fills[N] /\ N \in 1 .. N /\ i \in Nat /\ i <= N
      BY <1>2, <1>3
    <3>2. fills[i].ms <= fills[N].ms
      <4>1. CASE i = N
        BY <3>1, <4>1, FillTypes
      <4>2. CASE i < N
        BY <3>1, <4>2 DEF Path
      <4> QED BY <3>1, <4>1, <4>2
    <3>3. fills[i].ms \in Nat /\ fills[N].ms \in Nat
      BY <3>1, FillTypes
    <3>4. f.ms = fills[N].ms + later
      BY <3>1
    <3> QED BY <3>2, <3>3, <3>4
  <2> QED BY <2>1
<1>9. f.start # f.end /\ f.ms # 0
  <2>1. CASE fills # <<>>
    <3>1. N \in 1 .. N
      BY <1>3, <2>1
    <3>2. fills[N].ms # 0 /\ fills[N].ms \in Nat /\ LastFill = fills[N]
      BY <1>3, <2>1, <3>1, FillTypes
    <3> QED BY <1>1, <3>2
  <2>2. CASE fills = <<>>
    <3>1. over
      BY <2>2 DEF Path
    <3>2. LastFill.ms = 0 /\ later = 1
      BY <1>1, <1>3, <2>2, <3>1
    <3> QED BY <1>1, <3>2
  <2> QED BY <2>1, <2>2
<1>10. N + 1 > 1 => f.start = fills[N].end
  <2>1. ASSUME N + 1 > 1 PROVE f.start = fills[N].end
    <3>1. fills # <<>>
      BY <1>2, <1>3, <2>1
    <3> QED BY <1>1, <1>3, <3>1
  <2> QED BY <2>1
<1> HIDE DEF f
<1>11. \A i \in 1 .. Len(fills') : fills'[i].start # fills'[i].end /\ fills'[i].ms # 0
  BY <1>6, <1>7, <1>9 DEF Path
<1>12. \A i \in 1 .. Len(fills') : i > 1 => fills'[i].start = fills'[i - 1].end
  <2>1. ASSUME NEW i \in 1 .. N + 1, i > 1 PROVE fills'[i].start = fills'[i - 1].end
    <3>1. i - 1 \in 1 .. N
      BY <1>2, <2>1
    <3>2. CASE i = N + 1
      BY <1>2, <1>6, <1>10, <2>1, <3>1, <3>2
    <3>3. CASE i \in 1 .. N
      BY <1>6, <2>1, <3>1, <3>3 DEF Path
    <3> QED BY <1>7, <3>2, <3>3
  <2> QED BY <1>6, <2>1
<1>13. \A i, j \in 1 .. Len(fills') : i < j => fills'[i].ms <= fills'[j].ms
  <2>1. ASSUME NEW i \in 1 .. N + 1, NEW j \in 1 .. N + 1, i < j PROVE fills'[i].ms <= fills'[j].ms
    <3>1. i \in 1 .. N
      BY <1>2, <2>1
    <3>2. CASE j = N + 1
      BY <1>6, <1>8, <3>1, <3>2
    <3>3. CASE j \in 1 .. N
      BY <1>6, <2>1, <3>1, <3>3 DEF Path
    <3> QED BY <1>7, <3>2, <3>3
  <2> QED BY <1>6, <2>1
<1>14. Len(fills') <= MaxFills
  BY <1>2, <1>6, TripsConstants
<1>15. RoundTypeOK'
  BY <1>2, <1>6, <1>14 DEF RoundTypeOK
<1>16. fills' # <<>>
  BY <1>2, <1>6
<1> QED BY <1>6, <1>11, <1>12, <1>13, <1>14, <1>15, <1>16 DEF Path

-----------------------------------------------------------------------------
(* The rows of the trips.                                                   *)
SideAt(ms) == SideOf(fills[Min(Openings(ms))].end)

(* The fields of a trip and of its row, which differ in their side at most. *)
LEMMA TripFields ==
  ASSUME NEW i
  PROVE  /\ TripOf(i).open = fills[i].ms /\ TripOf(i).close = fills[EndAt(i)].ms /\ TripOf(i).side = SideOf(fills[i].end)
         /\ RowOf(i).open = fills[i].ms /\ RowOf(i).close = fills[EndAt(i)].ms /\ RowOf(i).side = SideAt(fills[i].ms)
         /\ RowOf(i) = [TripOf(i) EXCEPT !.side = SideAt(fills[i].ms)]
         /\ SideAt(fills[i].ms) = SideOf(fills[i].end) => RowOf(i) = TripOf(i)
<1> DEFINE j == EndAt(i)
           x == SideOf(fills[i].end)
           m == fills[i].ms
           n == fills[j].ms
           e == Abs(fills[i].end) + MapThenSumSet(LAMBDA k : Grown[k], i + 1 .. j - 1)
           o == Abs(fills[j].start) + MapThenSumSet(LAMBDA k : Shrunk[k], i + 1 .. j - 1)
           s == SideAt(fills[i].ms)
           t == TripOf(i)
<1>1. t = [side |-> x, open |-> m, close |-> n, entry |-> e, exit |-> o]
  BY DEF TripOf
<1>2. RowOf(i) = [t EXCEPT !.side = s]
  BY DEF RowOf, SideAt
<1> HIDE DEF x, m, n, e, o, s, t
<1>3. t.open = m /\ t.close = n /\ t.side = x
  BY <1>1
<1>4. RowOf(i) = [side |-> s, open |-> m, close |-> n, entry |-> e, exit |-> o]
  BY <1>1, <1>2
<1>5. RowOf(i).open = m /\ RowOf(i).close = n /\ RowOf(i).side = s
  BY <1>4
<1>6. s = x => RowOf(i) = t
  BY <1>1, <1>4
<1> QED BY <1>2, <1>3, <1>5, <1>6 DEF m, n, s, t, x

(* Where a trip opened and an end came later, the trip ended. *)
LEMMA HasEnd ==
  ASSUME Path, NEW i \in 1 .. Len(fills), NEW k \in i + 1 .. Len(fills), IsEnding(k)
  PROVE  \E j \in EndOf(i) : j <= k
<1>1. Len(fills) \in Nat /\ i \in Nat /\ k \in Nat
  BY PathLen
<1> DEFINE M == {j \in i + 1 .. Len(fills) : IsEnding(j)}
<1>2. M \in SUBSET Nat /\ k \in M
  BY <1>1
<1>3. PICK j \in M : \A x \in M : j <= x
  <2> HIDE DEF M
  <2> QED BY <1>2, LeastOf
<1>4. j \in i + 1 .. Len(fills) /\ IsEnding(j) /\ j <= k /\ j \in Nat
  BY <1>1, <1>2, <1>3
<1>5. \A x \in i + 1 .. j - 1 : ~IsEnding(x)
  <2>1. ASSUME NEW x \in i + 1 .. j - 1, IsEnding(x) PROVE FALSE
    <3>1. x \in M /\ x < j
      BY <1>1, <1>4, <2>1
    <3>2. j <= x
      BY <1>3, <3>1
    <3> QED BY <1>1, <1>4, <3>1, <3>2
  <2> QED BY <2>1
<1>6. j \in EndOf(i)
  BY <1>4, <1>5 DEF EndOf
<1> QED BY <1>4, <1>6

AllEnded == EndedBy(0, Len(fills))

(* Trips are one after the other. *)
LEMMA EndedInOrder ==
  ASSUME Path, NEW i \in 1 .. Len(fills), NEW o \in 1 .. Len(fills), i < o, IsOpening(i), IsOpening(o)
  PROVE  /\ i \in AllEnded /\ EndAt(i) <= o /\ EndAt(i) \in 1 .. Len(fills)
         /\ TripOf(i).close \in Nat /\ TripOf(i).close <= fills[o].ms
         /\ o \in AllEnded => TripOf(i).close <= TripOf(o).close
<1>1. Len(fills) \in Nat /\ i \in Nat /\ o \in Nat /\ 0 \in 0 .. Len(fills) /\ Len(fills) \in 0 .. Len(fills)
  BY PathLen
<1>2. PICK k \in i + 1 .. o : IsEnding(k)
  BY EndsBetween
<1>3. k \in i + 1 .. Len(fills) /\ k \in Nat /\ k <= o
  BY <1>1
<1>4. PICK j \in EndOf(i) : j <= k
  BY <1>2, <1>3, HasEnd
<1>5. EndAt(i) = j /\ j \in 1 .. Len(fills)
  BY EndIs
<1>6. j \in Nat /\ j <= o /\ j <= Len(fills)
  BY <1>1, <1>3, <1>4, <1>5
<1>7. i \in AllEnded
  <2>1. i \in 0 + 1 .. Len(fills)
    BY <1>1
  <2> QED BY <1>6, <2>1 DEF AllEnded, EndedBy
<1>8. fills[j].ms \in Nat /\ fills[o].ms \in Nat /\ fills[j].ms <= fills[o].ms
  <2>1. fills[j].ms \in Nat /\ fills[o].ms \in Nat
    BY <1>5, FillTypes
  <2>2. CASE j = o
    BY <2>1, <2>2
  <2>3. CASE j < o
    BY <1>5, <2>1, <2>3 DEF Path
  <2> QED BY <1>1, <1>6, <2>1, <2>2, <2>3
<1>9. TripOf(i).close = fills[j].ms
  BY <1>5, TripFields
<1>10. ASSUME o \in AllEnded PROVE fills[o].ms <= TripOf(o).close
  <2>1. o < EndAt(o) /\ EndAt(o) \in 1 .. Len(fills)
    BY <1>1, <1>10, EndedIs DEF AllEnded
  <2>2. fills[o].ms <= fills[EndAt(o)].ms
    BY <2>1 DEF Path
  <2> QED BY <2>2, TripFields
<1>11. o \in AllEnded => TripOf(o).close \in Nat
  <2>1. o \in AllEnded => EndAt(o) \in 1 .. Len(fills)
    BY <1>1, EndedIs DEF AllEnded
  <2> QED BY <2>1, TripFields, FillTypes
<1> QED BY <1>5, <1>6, <1>7, <1>8, <1>9, <1>10, <1>11

(* What a trip that ended is. *)
LEMMA EndedFacts ==
  ASSUME Path, NEW i \in AllEnded
  PROVE  /\ i \in Nat /\ i \in 1 .. Len(fills) /\ IsOpening(i) /\ fills[i].ms \in Nat /\ EndAt(i) \in 1 .. Len(fills)
         /\ TripOf(i).close \in Nat /\ TripOf(i).close = fills[EndAt(i)].ms /\ TripOf(i).open = fills[i].ms
<1>1. Len(fills) \in Nat /\ 0 \in 0 .. Len(fills) /\ Len(fills) \in 0 .. Len(fills)
  BY PathLen
<1>2. i \in 1 .. Len(fills) /\ IsOpening(i) /\ EndAt(i) \in 1 .. Len(fills)
  BY <1>1, EndedIs DEF AllEnded
<1> QED BY <1>1, <1>2, FillTypes, TripFields

(* The trips whose fields the rows have once those of A have been put on    *)
(* those of K, and the rows.                                                *)
Tops(K, A) ==
  {i \in A : \A l \in A : fills[l].ms = fills[i].ms => l <= i}
    \cup {i \in K : /\ \A l \in A : fills[l].ms # fills[i].ms
                    /\ \A l \in K : fills[l].ms = fills[i].ms => l <= i}
Mix(K, A) == {RowOf(i) : i \in Tops(K, A)}

(* Every open time among the trips has one trip whose row is kept. *)
LEMMA TopOf ==
  ASSUME Path, NEW K \in SUBSET AllEnded, NEW A \in SUBSET AllEnded, NEW m, NEW l \in K \cup A, fills[l].ms = m
  PROVE  \E x \in Tops(K, A) : fills[x].ms = m
<1>1. Len(fills) \in Nat /\ \A x \in AllEnded : x \in 0 .. Len(fills)
  BY PathLen, EndedFacts
<1> DEFINE G(S) == {x \in S : fills[x].ms = m}
<1>2. ASSUME NEW S \in SUBSET AllEnded, G(S) # {}
      PROVE  \E x \in S : fills[x].ms = m /\ \A y \in S : fills[y].ms = m => y <= x
  <2> DEFINE W == G(S)
             b == Len(fills)
  <2>1. W \in SUBSET (0 .. b) /\ W # {} /\ b \in Nat
    BY <1>1, <1>2
  <2>2. PICK x \in W : \A y \in W : y <= x
    <3> HIDE DEF W, b
    <3> QED BY <2>1, GreatestOf
  <2> QED BY <2>2
<1>3. CASE G(A) # {}
  <2>1. PICK x \in A : fills[x].ms = m /\ \A y \in A : fills[y].ms = m => y <= x
    BY <1>2, <1>3
  <2> QED BY <2>1 DEF Tops
<1>4. CASE G(A) = {}
  <2>1. G(K) # {}
    BY <1>4
  <2>2. PICK x \in K : fills[x].ms = m /\ \A y \in K : fills[y].ms = m => y <= x
    BY <1>2, <2>1
  <2> QED BY <1>4, <2>2 DEF Tops
<1> QED BY <1>3, <1>4

(* The first trip of a millisecond gives its rows their side. *)
LEMMA FirstOpening ==
  ASSUME Path, NEW i \in AllEnded
  PROVE  LET m == Min(Openings(fills[i].ms)) IN
         m \in AllEnded /\ m <= i /\ fills[m].ms = fills[i].ms
<1> DEFINE O == Openings(fills[i].ms)
           m == Min(O)
<1>1. Len(fills) \in Nat /\ i \in 1 .. Len(fills) /\ i \in Nat /\ IsOpening(i)
  BY PathLen, EndedFacts
<1>2. O \in SUBSET Nat /\ i \in O
  BY <1>1 DEF Openings
<1>3. m \in O /\ m <= i
  <2> HIDE DEF O
  <2>1. PICK x \in O : \A y \in O : x <= y
    BY <1>2, LeastOf
  <2>2. m \in O /\ \A y \in O : m <= y
    BY <2>1 DEF Min
  <2> QED BY <1>2, <2>2
<1> HIDE DEF m
<1>4. m \in 1 .. Len(fills) /\ IsOpening(m) /\ fills[m].ms = fills[i].ms /\ m \in Nat
  BY <1>1, <1>3 DEF Openings
<1>5. m \in AllEnded
  <2>1. CASE m = i
    BY <2>1
  <2>2. CASE m < i
    BY <1>1, <1>4, <2>2, EndedInOrder
  <2> QED BY <1>1, <1>3, <1>4, <2>1, <2>2
<1> QED BY <1>3, <1>4, <1>5 DEF m

(* One trip more is put on the rows, after those that opened before it. *)
LEMMA PutMix ==
  ASSUME Path, NEW K \in SUBSET AllEnded, NEW A \in SUBSET AllEnded, NEW i \in AllEnded,
         \A a \in A : a < i, \A e \in AllEnded : e < i => e \in K \cup A
  PROVE  PutTrip(Mix(K, A), TripOf(i)) = Mix(K, A \cup {i})
<1> DEFINE m == fills[i].ms
           T == Tops(K, A)
           rows == Mix(K, A)
           t == TripOf(i)
           there == {u \in rows : u.open = t.open}
           v == IF there = {} THEN t ELSE [t EXCEPT !.side = (CHOOSE u \in there : TRUE).side]
           others == {x \in T : fills[x].ms # m}
<1>1. PutTrip(rows, t) = (rows \ there) \cup {v}
  BY DEF PutTrip
<1>2. t.open = m /\ \A x : RowOf(x).open = fills[x].ms
  BY TripFields
<1>3. rows = {RowOf(x) : x \in T}
  BY DEF Mix
<1>4. rows \ there = {RowOf(x) : x \in others} /\ there = {RowOf(x) : x \in {y \in T : fills[y].ms = m}}
  <2> HIDE DEF T, rows, t, m
  <2> QED BY <1>2, <1>3
<1>5. v = RowOf(i)
  <2>1. CASE there = {}
    <3>1. \A l \in K \cup A : fills[l].ms # m
      <4>1. ASSUME NEW l \in K \cup A, fills[l].ms = m PROVE FALSE
        <5>1. \E x \in T : fills[x].ms = m
          BY <4>1, TopOf
        <5> HIDE DEF T, there, m
        <5> QED BY <1>4, <2>1, <5>1
      <4> QED BY <4>1
    <3> DEFINE f == Min(Openings(m))
    <3>2. f \in AllEnded /\ f <= i /\ fills[f].ms = m /\ f \in Nat /\ i \in Nat
      BY FirstOpening, EndedFacts
    <3>3. f = i
      <4> HIDE DEF f, m
      <4> QED BY <3>1, <3>2
    <3>4. SideAt(m) = SideOf(fills[i].end)
      BY <3>3 DEF SideAt
    <3>5. RowOf(i) = t
      BY <3>4, TripFields
    <3> HIDE DEF t, there
    <3> QED BY <2>1, <3>5
  <2>2. CASE there # {}
    <3> DEFINE w == CHOOSE u \in there : TRUE
    <3>1. w \in there
      BY <2>2
    <3>2. w.side = SideAt(m)
      <4>1. PICK x \in T : w = RowOf(x) /\ fills[x].ms = m
        <5> HIDE DEF w, there, T, m
        <5> QED BY <1>4, <3>1
      <4>2. RowOf(x).side = SideAt(fills[x].ms)
        BY TripFields
      <4> HIDE DEF w, m
      <4> QED BY <4>1, <4>2
    <3>3. v = [t EXCEPT !.side = w.side]
      BY <2>2
    <3>4. RowOf(i) = [t EXCEPT !.side = SideAt(m)]
      BY TripFields
    <3> HIDE DEF w, v, t, m
    <3> QED BY <3>2, <3>3, <3>4
  <2> QED BY <2>1, <2>2
<1>6. Tops(K, A \cup {i}) = others \cup {i}
  <2>1. i \in Nat /\ \A a \in A : a \in Nat /\ a < i
    BY EndedFacts
  <2>2. i \notin A
    BY <2>1
  <2>3. ASSUME NEW x PROVE x \in Tops(K, A \cup {i}) <=> x \in others \/ x = i
    <3>1. CASE x = i
      <4>1. \A l \in A \cup {i} : l <= i
        BY <2>1
      <4> QED BY <3>1, <4>1 DEF Tops
    <3>2. CASE x # i /\ x \in A /\ fills[x].ms # m
      BY <2>2, <3>2 DEF Tops
    <3>3. CASE x # i /\ x \in A /\ fills[x].ms = m
      <4>1. ~ (i <= x)
        BY <2>1, <3>3
      <4>2. ~ (x \in Tops(K, A \cup {i}))
        BY <3>3, <4>1 DEF Tops
      <4> QED BY <3>3, <4>2
    <3>4. CASE x # i /\ x \notin A /\ fills[x].ms # m
      BY <3>4 DEF Tops
    <3>5. CASE x # i /\ x \notin A /\ fills[x].ms = m
      BY <3>5 DEF Tops
    <3> QED BY <3>1, <3>2, <3>3, <3>4, <3>5
  <2> QED BY <2>3
<1>7. Mix(K, A \cup {i}) = {RowOf(x) : x \in others} \cup {RowOf(i)}
  <2> HIDE DEF others
  <2> QED BY <1>6 DEF Mix
<1> HIDE DEF rows, t, there, v, others
<1> QED BY <1>1, <1>4, <1>5, <1>7 DEF rows, t

(* All that ended put on the rows, or all that ended since: the rows of     *)
(* all.                                                                     *)
LEMMA MixAll ==
  ASSUME Path, NEW K \in SUBSET AllEnded, NEW A \in SUBSET AllEnded, K \cup A = AllEnded,
         \A k \in K : k \in A \/ \A a \in A : k < a
  PROVE  Mix(K, A) = RowsOf(AllEnded) /\ Mix(K, {}) = RowsOf(K)
<1> DEFINE Top(S) == {k \in S : \A l \in S : fills[l].ms = fills[k].ms => l <= k}
<1>1. \A x \in AllEnded : x \in Nat
  BY EndedFacts
<1>2. \A S : RowsOf(S) = {RowOf(i) : i \in Top(S)}
  BY DEF RowsOf
<1>3. Tops(K, {}) = Top(K)
  BY DEF Tops
<1>4. ASSUME NEW x \in A PROVE x \in Tops(K, A) <=> x \in Top(AllEnded)
  <2>1. ASSUME x \in Tops(K, A) PROVE \A l \in A : fills[l].ms = fills[x].ms => l <= x
    BY <1>4, <2>1 DEF Tops
  <2>2. ASSUME NEW l \in K, l \notin A PROVE l <= x
    BY <1>1, <1>4, <2>2
  <2>3. ASSUME x \in Tops(K, A) PROVE x \in Top(AllEnded)
    BY <2>1, <2>2, <2>3
  <2>4. ASSUME x \in Top(AllEnded) PROVE x \in Tops(K, A)
    BY <1>4, <2>4 DEF Tops
  <2> QED BY <2>3, <2>4
<1>5. ASSUME NEW x \in K, x \notin A PROVE x \in Tops(K, A) <=> x \in Top(AllEnded)
  <2>1. \A a \in A : x < a /\ x \in Nat /\ a \in Nat
    BY <1>1, <1>5
  <2>2. ASSUME x \in Top(AllEnded) PROVE x \in Tops(K, A)
    <3>1. ASSUME NEW a \in A, fills[a].ms = fills[x].ms PROVE FALSE
      <4>1. a <= x
        BY <2>2, <3>1
      <4> QED BY <2>1, <4>1
    <3> QED BY <1>5, <2>2, <3>1 DEF Tops
  <2>3. ASSUME x \in Tops(K, A) PROVE x \in Top(AllEnded)
    <3>1. (\A l \in A : fills[l].ms # fills[x].ms) /\ \A l \in K : fills[l].ms = fills[x].ms => l <= x
      BY <1>5, <2>3 DEF Tops
    <3> QED BY <1>5, <3>1
  <2> QED BY <2>2, <2>3
<1>6. Tops(K, A) = Top(AllEnded)
  <2>1. Tops(K, A) \subseteq K \cup A
    BY DEF Tops
  <2>2. ASSUME NEW x \in AllEnded PROVE x \in Tops(K, A) <=> x \in Top(AllEnded)
    <3>1. x \in A \/ (x \in K /\ x \notin A)
      OBVIOUS
    <3> HIDE DEF Top
    <3> QED BY <1>4, <1>5, <3>1
  <2>3. Top(AllEnded) \subseteq AllEnded
    OBVIOUS
  <2> HIDE DEF Top
  <2> QED BY <2>1, <2>2, <2>3
<1> HIDE DEF Top
<1> QED BY <1>2, <1>3, <1>6 DEF Mix

(* A write, of trips in their order. *)
LEMMA UpsertMix ==
  ASSUME Path, NEW K \in SUBSET AllEnded, written = RowsOf(K),
         NEW M \in Nat, NEW h \in [1 .. M -> AllEnded], NEW new,
         new = [k \in 1 .. M |-> TripOf(h[k])],
         \A j, k \in 1 .. M : j < k => h[j] < h[k],
         \A e \in AllEnded : e \in K \/ \E k \in 1 .. M : h[k] = e,
         \A k \in K : (\E j \in 1 .. M : h[j] = k) \/ \A j \in 1 .. M : k < h[j]
  PROVE  Upsert(new) = RowsOf(AllEnded)
<1> DEFINE A(k) == {h[j] : j \in 1 .. k}
           st(k) == Puts!Run(written, new, k)
           S == {k \in 0 .. M : st(k) = Mix(K, A(k))}
<1>1. Len(new) = M /\ DOMAIN new = 1 .. Len(new)
  OBVIOUS
<1>2. Upsert(new) = st(M) /\ st(0) = written
  BY <1>1, UpsertFold, Puts!RunIsFold
<1>3. ASSUME NEW k \in 1 .. M PROVE st(k) = PutTrip(st(k - 1), TripOf(h[k]))
  <2>1. st(k) = PutTrip(st(k - 1), new[k])
    BY <1>1, Puts!RunStep
  <2>2. new[k] = TripOf(h[k])
    OBVIOUS
  <2> HIDE DEF st
  <2> QED BY <2>1, <2>2
<1>4. A(0) = {} /\ A(M) \in SUBSET AllEnded /\ K \cup A(M) = AllEnded
  <2>1. A(0) = {}
    OBVIOUS
  <2>2. A(M) \in SUBSET AllEnded
    OBVIOUS
  <2>3. \A e \in AllEnded : e \in K \/ e \in A(M)
    OBVIOUS
  <2> QED BY <2>1, <2>2, <2>3
<1>5. Mix(K, A(M)) = RowsOf(AllEnded) /\ Mix(K, {}) = RowsOf(K)
  <2>1. \A k \in K : k \in A(M) \/ \A a \in A(M) : k < a
    OBVIOUS
  <2> HIDE DEF A
  <2> QED BY <1>4, <2>1, MixAll
<1>6. 0 \in S
  <2>1. st(0) = Mix(K, A(0))
    <3> HIDE DEF st, A
    <3> QED BY <1>2, <1>4, <1>5
  <2>2. 0 \in 0 .. M
    OBVIOUS
  <2> SUFFICES 0 \in {k \in 0 .. M : st(k) = Mix(K, A(k))}
    OBVIOUS
  <2> HIDE DEF st, A
  <2> QED BY <2>1, <2>2
<1>7. ASSUME NEW k \in Nat, k < M, k \in S PROVE k + 1 \in S
  <2> DEFINE i == h[k + 1]
             B0 == A(k)
  <2>1. k + 1 \in 1 .. M /\ k + 1 - 1 = k /\ k + 1 \in 0 .. M
    BY <1>7
  <2>2. i \in AllEnded /\ B0 \in SUBSET AllEnded
    BY <2>1
  <2>3. \A a \in B0 : a < i
    <3>1. \A j \in 1 .. k : j \in 1 .. M /\ j < k + 1
      BY <1>7
    <3> QED BY <2>1, <3>1
  <2>4. \A e \in AllEnded : e < i => e \in K \cup B0
    <3>1. ASSUME NEW e \in AllEnded, e < i, e \notin K PROVE e \in B0
      <4>1. PICK j \in 1 .. M : h[j] = e
        BY <3>1
      <4>2. ~ (k + 1 < j) /\ j # k + 1
        <5>1. ASSUME k + 1 < j PROVE FALSE
          <6>1. i < e
            BY <2>1, <4>1, <5>1
          <6>2. i \in Nat /\ e \in Nat
            BY <2>2, EndedFacts
          <6> HIDE DEF i
          <6> QED BY <3>1, <6>1, <6>2
        <5>2. ASSUME j = k + 1 PROVE FALSE
          <6>1. i = e /\ e \in Nat
            BY <4>1, <5>2, EndedFacts
          <6> HIDE DEF i
          <6> QED BY <3>1, <6>1
        <5> QED BY <5>1, <5>2
      <4>3. j \in 1 .. k
        BY <1>7, <4>2
      <4> QED BY <4>1, <4>3
    <3> QED BY <3>1
  <2>5. A(k + 1) = B0 \cup {i}
    <3>1. \A j : j \in 1 .. k + 1 <=> j \in 1 .. k \/ j = k + 1
      BY <1>7
    <3> QED BY <3>1
  <2>6. st(k) = Mix(K, B0)
    BY <1>7
  <2>7. st(k + 1) = PutTrip(st(k), TripOf(i))
    <3> HIDE DEF st
    <3> QED BY <1>3, <2>1
  <2> HIDE DEF A, st, i, B0
  <2>8. PutTrip(Mix(K, B0), TripOf(i)) = Mix(K, B0 \cup {i})
    BY <2>2, <2>3, <2>4, PutMix
  <2> QED BY <2>1, <2>5, <2>6, <2>7, <2>8
<1>8. st(M) = Mix(K, A(M))
  <2>1. \A k \in 0 .. M : k \in S
    <3> HIDE DEF S
    <3> QED BY <1>6, <1>7, UpTo
  <2>2. M \in 0 .. M
    OBVIOUS
  <2> QED BY <2>1, <2>2
<1> HIDE DEF A, st
<1> QED BY <1>2, <1>5, <1>8

-----------------------------------------------------------------------------
(* The two writers.  A number of the set is the one of its rank.             *)
LEMMA RankIn ==
  ASSUME NEW b \in Nat, NEW S \in SUBSET (0 .. b), NEW x \in S
  PROVE  Rank(S, x) \in 1 .. Cardinality(S) /\ Nth(S, Rank(S, x)) = x
<1> DEFINE X == {y \in S : y <= x}
<1>1. IsFiniteSet(S) /\ S \in SUBSET Nat
  BY UpToFinite
<1>2. x \in X /\ X \in SUBSET S
  BY <1>1
<1> HIDE DEF X
<1>3. IsFiniteSet(X) /\ Cardinality(X) <= Cardinality(S) /\ Cardinality(S) \in Nat /\ Cardinality(X) \in Nat
  BY <1>1, <1>2, FS_Subset, FS_CardinalityType
<1>4. Cardinality(X) # 0
  BY <1>2, <1>3, FS_EmptySet
<1>5. Rank(S, x) = Cardinality(X)
  BY DEF Rank, X
<1>6. Nth(S, Rank(S, x)) = x
  BY <1>1, NthIs
<1> QED BY <1>3, <1>4, <1>5, <1>6

(* What is written is up to a last close, that of one of its trips. *)
CloseOf(rows) == IF rows = {} THEN 0 ELSE Max({t.close : t \in rows})

(* The last close is that of a trip written, or zero where none is. *)
LEMMA LastCloseIs ==
  ASSUME Path, NEW K \in SUBSET AllEnded, NEW rows, rows = RowsOf(K)
  PROVE  /\ CloseOf(rows) \in Nat /\ \A t \in rows : t.close \in Nat /\ t.close <= CloseOf(rows)
         /\ CloseOf(rows) = 0 \/ \E i \in K : TripOf(i).close = CloseOf(rows)
<1>1. CASE rows = {}
  BY <1>1 DEF CloseOf
<1>2. CASE rows # {}
  <2> DEFINE W == {t.close : t \in rows}
             b == fills[Len(fills)].ms
  <2>1. \A t \in rows : \E i \in K : t.close = TripOf(i).close
    <3>1. ASSUME NEW t \in rows PROVE \E i \in K : t = RowOf(i)
      BY DEF RowsOf
    <3>2. ASSUME NEW t \in rows PROVE \E i \in K : t.close = TripOf(i).close
      <4>1. PICK i \in K : t = RowOf(i)
        BY <3>1
      <4>2. RowOf(i).close = TripOf(i).close
        BY TripFields
      <4> QED BY <4>1, <4>2
    <3> QED BY <3>2
  <2>2. Len(fills) \in Nat /\ \A k \in K : k \in 1 .. Len(fills)
    BY PathLen, EndedFacts
  <2>3. K # {}
    BY <1>2, <2>1
  <2>4. Len(fills) \in 1 .. Len(fills) /\ b \in Nat
    <3>1. Len(fills) \in 1 .. Len(fills)
      BY <2>2, <2>3
    <3> QED BY <3>1, FillTypes
  <2>5. ASSUME NEW i \in K PROVE TripOf(i).close \in 0 .. b
    <3>1. EndAt(i) \in 1 .. Len(fills) /\ TripOf(i).close \in Nat /\ TripOf(i).close = fills[EndAt(i)].ms
      BY EndedFacts
    <3>2. fills[EndAt(i)].ms <= b
      <4>1. CASE EndAt(i) = Len(fills)
        BY <2>4, <4>1
      <4>2. CASE EndAt(i) < Len(fills)
        BY <2>4, <3>1, <4>2 DEF Path
      <4> QED BY <2>2, <3>1, <4>1, <4>2
    <3> QED BY <2>4, <3>1, <3>2
  <2>6. W \in SUBSET (0 .. b) /\ W # {}
    <3>1. \A t \in rows : t.close \in 0 .. b
      BY <2>1, <2>5
    <3> HIDE DEF b
    <3> QED BY <1>2, <3>1
  <2> DEFINE m == Max(W)
  <2>7. m \in W /\ \A y \in W : y <= m
    <3> HIDE DEF W, b
    <3> QED BY <2>4, <2>6, GreatestOf
  <2>8. CloseOf(rows) = m
    BY <1>2 DEF CloseOf
  <2>9. m \in Nat
    <3> HIDE DEF m, b
    <3> QED BY <2>4, <2>6, <2>7
  <2> HIDE DEF m
  <2>10. PICK t \in rows : t.close = m
    BY <2>7
  <2>11. PICK i \in K : t.close = TripOf(i).close
    BY <2>1
  <2>12. \A u \in rows : u.close \in Nat /\ u.close <= m
    <3>1. \A u \in rows : u.close \in W
      OBVIOUS
    <3>2. \A y \in W : y \in Nat
      <4> HIDE DEF W, b
      <4> QED BY <2>4, <2>6
    <3> HIDE DEF W
    <3> QED BY <2>7, <3>1, <3>2
  <2> QED BY <2>8, <2>9, <2>10, <2>11, <2>12
<1> QED BY <1>1, <1>2

(* What is read since a time are the fills from some on. *)
LEMMA CutAt ==
  ASSUME Path, NEW L \in Int
  PROVE  \E cut \in 0 .. Len(fills) : \A i \in 1 .. Len(fills) : fills[i].ms >= L <=> i > cut
<1> DEFINE W == {i \in 1 .. Len(fills) : fills[i].ms >= L}
<1>1. Len(fills) \in Nat /\ W \in SUBSET Nat
  BY PathLen
<1>2. CASE W = {}
  <2> DEFINE n == Len(fills)
  <2>1. \A i \in 1 .. Len(fills) : fills[i].ms >= L <=> i > n
    BY <1>1, <1>2
  <2>2. n \in 0 .. Len(fills)
    BY <1>1
  <2> HIDE DEF n, W
  <2> QED BY <2>1, <2>2
<1>3. CASE W # {}
  <2>1. PICK x \in W : \A y \in W : x <= y
    <3> HIDE DEF W
    <3> QED BY <1>1, <1>3, LeastOf
  <2>2. x \in 1 .. Len(fills) /\ fills[x].ms >= L /\ x - 1 \in 0 .. Len(fills)
    BY <1>1
  <2>3. ASSUME NEW i \in 1 .. Len(fills) PROVE fills[i].ms >= L <=> i > x - 1
    <3>1. fills[i].ms \in Nat /\ fills[x].ms \in Nat /\ i \in Nat /\ x \in Nat
      BY <1>1, <2>2, FillTypes
    <3>2. ASSUME fills[i].ms >= L PROVE x <= i
      BY <2>1, <3>2
    <3>3. ASSUME x < i PROVE fills[i].ms >= L
      <4>1. fills[x].ms <= fills[i].ms
        BY <2>2, <3>3 DEF Path
      <4> QED BY <2>2, <3>1, <4>1
    <3>4. CASE x = i
      BY <2>2, <3>1, <3>4
    <3> QED BY <3>1, <3>2, <3>3, <3>4
  <2> QED BY <2>2, <2>3
<1> QED BY <1>2, <1>3

(* The daily rebuild leaves the rows of all trips. *)
LEMMA RebuildRows ==
  ASSUME Path, Distinct, StoredFrom(0), NEW K \in SUBSET AllEnded, written = RowsOf(K)
  PROVE  Upsert(BuildTrips(Stored)) = RowsOf(AllEnded)
<1> DEFINE S == AllEnded
           M == Cardinality(S)
           b == Len(fills)
           h == [n \in 1 .. M |-> Nth(S, n)]
           new == TripsOf(S)
<1>1. b \in Nat /\ 0 \in 0 .. b
  BY PathLen
<1>2. S \in SUBSET (0 .. b)
  <2>1. \A x \in AllEnded : x \in 0 .. b
    BY <1>1, EndedFacts
  <2> QED BY <2>1
<1>3. BuildTrips(Stored) = new
  <2>1. Stored = From(0)
    BY <1>1, StoredIs
  <2>2. BuildTrips(From(0)) = TripsOf(EndedBy(0, Len(fills)))
    BY <1>1, BuiltFrom
  <2> QED BY <2>1, <2>2 DEF AllEnded
<1>4. M \in Nat
  <2>1. IsFiniteSet(S)
    <3> HIDE DEF S, b
    <3> QED BY <1>1, <1>2, UpToFinite
  <2> QED BY <2>1, FS_CardinalityType
<1>5. \A n \in 1 .. M : Nth(S, n) \in S
  <2> HIDE DEF S, b
  <2> QED BY <1>1, <1>2, NthIn DEF M
<1>6. h \in [1 .. M -> AllEnded]
  BY <1>5
<1>7. new = [n \in 1 .. M |-> TripOf(h[n])]
  BY DEF TripsOf
<1>8. \A j, k \in 1 .. M : j < k => h[j] < h[k]
  <2>1. ASSUME NEW j \in 1 .. M, NEW k \in 1 .. M, j < k PROVE Nth(S, j) < Nth(S, k)
    <3> HIDE DEF S, b
    <3> QED BY <1>1, <1>2, <2>1, NthUp DEF M
  <2> HIDE DEF S, M
  <2> QED BY <2>1
<1>9. \A e \in AllEnded : \E k \in 1 .. M : h[k] = e
  <2>1. ASSUME NEW e \in AllEnded PROVE \E k \in 1 .. M : Nth(S, k) = e
    <3> HIDE DEF b
    <3>1. e \in S
      OBVIOUS
    <3> HIDE DEF S
    <3> QED BY <1>1, <1>2, <3>1, RankIn DEF M
  <2> HIDE DEF S, M
  <2> QED BY <2>1
<1>10. \A k \in K : k \in AllEnded
  OBVIOUS
<1>11. Upsert(new) = RowsOf(AllEnded)
  <2> HIDE DEF S, M, b, h, new
  <2> QED BY <1>4, <1>6, <1>7, <1>8, <1>9, <1>10, UpsertMix
<1> QED BY <1>3, <1>11

(* The feed's close too: what it does not read is written. *)
LEMMA CloseRows ==
  ASSUME Path, Distinct, StoredFrom(0), NEW K \in SUBSET AllEnded, written = RowsOf(K), NEW L \in Nat,
         L = 0 \/ \E i \in K : TripOf(i).close = L,
         K = {i \in AllEnded : TripOf(i).close <= L}
  PROVE  Upsert(LaterTrips(BuildTrips(SinceLast(L)), L)) = RowsOf(AllEnded)
<1>1. Len(fills) \in Nat /\ 0 \in 0 .. Len(fills) /\ L - 1 \in Int
  BY PathLen
<1>2. PICK cut \in 0 .. Len(fills) : \A i \in 1 .. Len(fills) : fills[i].ms >= L - 1 <=> i > cut
  BY <1>1, CutAt
<1> DEFINE S == EndedBy(cut, Len(fills))
           b == Len(fills)
           c == Cardinality(S)
           trips == TripsOf(S)
           later == {n \in 1 .. Len(trips) : trips[n].close > L}
           M == Cardinality(later)
           h == [k \in 1 .. M |-> Nth(S, Nth(later, k))]
           new == LaterTrips(trips, L)
<1>3. BuildTrips(SinceLast(L)) = trips
  <2>1. Stored = From(0)
    BY <1>1, StoredIs
  <2>2. SinceLast(L) = From(cut)
    <3>1. \A i : i \in cut + 1 .. Len(fills) <=> i \in 1 .. Len(fills) /\ fills[i].ms >= L - 1
      BY <1>1, <1>2
    <3>2. SinceLast(L) = {f \in From(0) : f.ms >= L - 1}
      BY <2>1 DEF SinceLast
    <3>3. \A i : i \in 0 + 1 .. Len(fills) <=> i \in 1 .. Len(fills)
      OBVIOUS
    <3>4. \A f : f \in From(cut) <=> f \in From(0) /\ f.ms >= L - 1
      BY <3>1, <3>3 DEF From
    <3> QED BY <3>2, <3>4
  <2> QED BY <2>2, BuiltFrom
<1>4. \A i : i \in S <=> i \in AllEnded /\ i > cut
  <2>1. \A i : i \in cut + 1 .. Len(fills) <=> i \in 0 + 1 .. Len(fills) /\ i > cut
    BY <1>1
  <2> QED BY <2>1 DEF AllEnded, EndedBy
<1>5. S \in SUBSET (0 .. b) /\ b \in Nat /\ S \in SUBSET AllEnded
  <2>1. \A x \in AllEnded : x \in 0 .. b
    BY <1>1, EndedFacts
  <2> QED BY <1>1, <1>4, <2>1
<1>6. ASSUME NEW e \in AllEnded, e \notin K PROVE e \in S /\ TripOf(e).close > L
  <2>1. TripOf(e).close > L /\ TripOf(e).close \in Nat /\ e \in 1 .. Len(fills) /\ IsOpening(e) /\ fills[e].ms \in Nat /\ e \in Nat
    BY <1>6, EndedFacts
  <2>2. fills[e].ms >= L - 1
    <3>1. CASE L = 0
      BY <2>1, <3>1
    <3>2. CASE \E i \in K : TripOf(i).close = L
      <4>1. PICK i \in K : TripOf(i).close = L
        BY <3>2
      <4>2. i \in 1 .. Len(fills) /\ IsOpening(i) /\ i \in Nat /\ i \in AllEnded
        BY EndedFacts
      <4>3. ~(e < i)
        <5>1. ASSUME e < i PROVE TripOf(e).close <= TripOf(i).close
          BY <2>1, <4>2, <5>1, EndedInOrder
        <5> QED BY <2>1, <4>1, <5>1
      <4>4. e # i
        BY <1>6
      <4>5. i < e
        BY <2>1, <4>2, <4>3, <4>4
      <4>6. TripOf(i).close <= fills[e].ms
        BY <2>1, <4>2, <4>5, EndedInOrder
      <4> QED BY <2>1, <4>1, <4>6
    <3> QED BY <3>1, <3>2
  <2> QED BY <1>2, <1>4, <2>1, <2>2
<1>7. c \in Nat /\ Len(trips) = c /\ \A n \in 1 .. c : trips[n] = TripOf(Nth(S, n))
  <2>1. IsFiniteSet(S)
    <3> HIDE DEF S, b
    <3> QED BY <1>5, UpToFinite
  <2>2. c \in Nat
    <3> HIDE DEF S
    <3> QED BY <2>1, FS_CardinalityType
  <2> HIDE DEF S
  <2> QED BY <2>2 DEF TripsOf
<1>8. later \in SUBSET (0 .. c) /\ later = {n \in 1 .. c : TripOf(Nth(S, n)).close > L}
  <2> HIDE DEF trips, c, S
  <2> QED BY <1>7
<1>9. M \in Nat
  <2>1. IsFiniteSet(later)
    <3> HIDE DEF later, c
    <3> QED BY <1>7, <1>8, UpToFinite
  <2> HIDE DEF later
  <2> QED BY <2>1, FS_CardinalityType
<1>10. ASSUME NEW k \in 1 .. M
       PROVE  /\ Nth(later, k) \in later /\ Nth(later, k) \in 1 .. c /\ Nth(S, Nth(later, k)) \in S
              /\ TripOf(Nth(S, Nth(later, k))).close > L
  <2> DEFINE n == Nth(later, k)
  <2>1. n \in later
    <3> HIDE DEF later, c
    <3> QED BY <1>7, <1>8, NthIn DEF M
  <2>2. n \in 1 .. c /\ TripOf(Nth(S, n)).close > L
    <3> HIDE DEF n, S, c, later
    <3> QED BY <1>8, <2>1
  <2>3. Nth(S, n) \in S
    <3> HIDE DEF n, S, b
    <3> QED BY <1>5, <2>2, NthIn DEF c
  <2> HIDE DEF n
  <2> QED BY <2>1, <2>2, <2>3 DEF n
<1>11. h \in [1 .. M -> AllEnded]
  <2>1. \A k \in 1 .. M : Nth(S, Nth(later, k)) \in AllEnded
    <3> HIDE DEF S, M, later
    <3> QED BY <1>5, <1>10
  <2> HIDE DEF S, M, later
  <2> QED BY <2>1
<1>12. new = [k \in 1 .. M |-> TripOf(h[k])]
  <2>1. new = [k \in 1 .. M |-> trips[Nth(later, k)]]
    BY DEF LaterTrips
  <2>2. ASSUME NEW k \in 1 .. M PROVE trips[Nth(later, k)] = TripOf(h[k])
    <3>1. Nth(later, k) \in 1 .. c
      BY <1>10
    <3> HIDE DEF trips, later, c, S, M
    <3> QED BY <1>7, <3>1
  <2> HIDE DEF new, trips, later, M, h
  <2> QED BY <2>1, <2>2
<1>13. \A j, k \in 1 .. M : j < k => h[j] < h[k]
  <2>1. ASSUME NEW j \in 1 .. M, NEW k \in 1 .. M, j < k PROVE Nth(S, Nth(later, j)) < Nth(S, Nth(later, k))
    <3>1. Nth(later, j) < Nth(later, k)
      <4> HIDE DEF later, c
      <4> QED BY <1>7, <1>8, <2>1, NthUp DEF M
    <3>2. Nth(later, j) \in 1 .. c /\ Nth(later, k) \in 1 .. c
      BY <1>10
    <3> HIDE DEF later, S, b, M
    <3> QED BY <1>5, <3>1, <3>2, NthUp DEF c
  <2> HIDE DEF S, M, later
  <2> QED BY <2>1
<1>14. ASSUME NEW e \in AllEnded PROVE e \in K \/ \E k \in 1 .. M : h[k] = e
  <2>1. CASE e \in K
    BY <2>1
  <2>2. CASE e \notin K
    <3>1. e \in S /\ TripOf(e).close > L
      BY <1>6, <2>2
    <3> DEFINE n == Rank(S, e)
    <3>2. n \in 1 .. c /\ Nth(S, n) = e
      <4> HIDE DEF S, b
      <4> QED BY <1>5, <3>1, RankIn DEF c
    <3>3. n \in later
      <4> HIDE DEF n, S, c, later
      <4> QED BY <1>8, <3>1, <3>2
    <3>4. Rank(later, n) \in 1 .. M /\ Nth(later, Rank(later, n)) = n
      <4> HIDE DEF n, later, c
      <4> QED BY <1>7, <1>8, <3>3, RankIn DEF M
    <3> DEFINE k == Rank(later, n)
    <3>5. k \in 1 .. M /\ Nth(later, k) = n
      BY <3>4
    <3> HIDE DEF k, n, later, S, M
    <3>6. h[k] = Nth(S, Nth(later, k))
      BY <3>5
    <3>7. h[k] = e
      BY <3>2, <3>5, <3>6
    <3> HIDE DEF h
    <3> QED BY <3>5, <3>7
  <2> QED BY <2>1, <2>2
<1>15. ASSUME NEW k \in K, NEW j \in 1 .. M PROVE k < h[j]
  <2> DEFINE x == Nth(S, Nth(later, j))
  <2>1. x \in AllEnded /\ TripOf(x).close > L
    <3>1. x \in S /\ TripOf(x).close > L
      BY <1>10
    <3> HIDE DEF x, S
    <3> QED BY <1>5, <3>1
  <2>2. h[j] = x
    BY <1>15
  <2>3. k \in AllEnded /\ TripOf(k).close <= L
    OBVIOUS
  <2> HIDE DEF x, h
  <2>4. /\ x \in Nat /\ x \in 1 .. Len(fills) /\ IsOpening(x) /\ TripOf(x).close \in Nat
        /\ k \in Nat /\ k \in 1 .. Len(fills) /\ IsOpening(k) /\ TripOf(k).close \in Nat
    BY <2>1, <2>3, EndedFacts
  <2>5. ASSUME x < k PROVE TripOf(x).close <= TripOf(k).close
    BY <2>3, <2>4, <2>5, EndedInOrder
  <2>6. ~(x < k)
    BY <2>1, <2>3, <2>4, <2>5
  <2>7. x # k
    BY <2>1, <2>3, <2>4
  <2> QED BY <2>2, <2>4, <2>6, <2>7
<1> HIDE DEF S, b, c, trips, later, M, h, new
<1>16. Upsert(new) = RowsOf(AllEnded)
  <2>1. \A k \in K : (\E j \in 1 .. M : h[j] = k) \/ \A j \in 1 .. M : k < h[j]
    BY <1>15
  <2>2. \A e \in AllEnded : e \in K \/ \E k \in 1 .. M : h[k] = e
    BY <1>14
  <2> QED BY <1>9, <1>11, <1>12, <1>13, <2>1, <2>2, UpsertMix
<1> QED BY <1>3, <1>16 DEF new

-----------------------------------------------------------------------------
(* The last fill is the latest. *)
LEMMA LastIs ==
  ASSUME Path
  PROVE  /\ LastFill.ms \in Nat /\ \A i \in 1 .. Len(fills) : fills[i].ms <= LastFill.ms
         /\ fills = <<>> => LastFill.ms = 0
         /\ fills # <<>> => Len(fills) \in 1 .. Len(fills) /\ LastFill = fills[Len(fills)]
<1>1. Len(fills) \in Nat
  BY PathLen
<1>2. CASE fills = <<>>
  BY <1>2 DEF LastFill
<1>3. CASE fills # <<>>
  <2>1. Len(fills) # 0
    BY <1>1, <1>3, EmptySeq DEF Path
  <2>2. Len(fills) \in 1 .. Len(fills) /\ LastFill = fills[Len(fills)]
    BY <1>1, <1>3, <2>1 DEF LastFill, Last
  <2>3. ASSUME NEW i \in 1 .. Len(fills) PROVE fills[i].ms <= fills[Len(fills)].ms
    <3>1. CASE i = Len(fills)
      BY <2>2, <3>1, FillTypes
    <3>2. CASE i < Len(fills)
      BY <2>2, <3>2 DEF Path
    <3> QED BY <1>1, <3>1, <3>2
  <2> QED BY <1>3, <2>2, <2>3, FillTypes
<1> QED BY <1>2, <1>3

(* A write of all trips is up to the last of them. *)
LEMMA AllKept ==
  ASSUME Path, NEW rows, rows = RowsOf(AllEnded)
  PROVE  \A i \in AllEnded : TripOf(i).close <= CloseOf(rows)
<1>1. CloseOf(rows) \in Nat /\ \A t \in rows : t.close \in Nat /\ t.close <= CloseOf(rows)
  BY LastCloseIs
<1>2. ASSUME NEW i \in AllEnded PROVE TripOf(i).close <= CloseOf(rows)
  <2>1. PICK x \in Tops({}, AllEnded) : fills[x].ms = fills[i].ms
    <3>1. i \in {} \cup AllEnded /\ {} \in SUBSET AllEnded /\ AllEnded \in SUBSET AllEnded
      OBVIOUS
    <3> QED BY <3>1, TopOf
  <2>2. x \in AllEnded /\ \A l \in AllEnded : fills[l].ms = fills[x].ms => l <= x
    BY DEF Tops
  <2>3. RowOf(x) \in rows
    BY <2>2 DEF RowsOf
  <2>4. /\ i \in Nat /\ i \in 1 .. Len(fills) /\ IsOpening(i) /\ TripOf(i).close \in Nat
        /\ x \in Nat /\ x \in 1 .. Len(fills) /\ IsOpening(x) /\ TripOf(x).close \in Nat
    BY <2>2, EndedFacts
  <2>5. RowOf(x).close = TripOf(x).close
    BY TripFields
  <2>6. TripOf(x).close <= CloseOf(rows)
    BY <1>1, <2>3, <2>5
  <2>7. TripOf(i).close <= TripOf(x).close
    <3>1. CASE i = x
      BY <2>4, <3>1
    <3>2. CASE i < x
      BY <2>2, <2>4, <3>2, EndedInOrder
    <3> QED BY <2>1, <2>2, <2>4, <3>1, <3>2
  <2> QED BY <1>1, <2>4, <2>6, <2>7
<1> QED BY <1>2

-----------------------------------------------------------------------------
(* More fills leave what came before them.                                  *)
More ==
  /\ Path /\ Path' /\ Len(fills) <= Len(fills')
  /\ \A i \in 1 .. Len(fills) : fills'[i] = fills[i]

(* More fills make a path no shorter, ... *)
LEMMA MoreLen == ASSUME More PROVE Len(fills) \in Nat /\ Len(fills') \in Nat /\ Len(fills) <= Len(fills')
BY DEF More, Path

(* ... leave the openings and ends of those before, ... *)
LEMMA MoreOpens ==
  ASSUME More, NEW i \in 1 .. Len(fills)
  PROVE  fills'[i] = fills[i] /\ (IsOpening(i)' <=> IsOpening(i)) /\ (IsEnding(i)' <=> IsEnding(i))
<1>1. fills'[i] = fills[i]
  BY DEF More
<1> QED BY <1>1 DEF IsOpening, IsEnding

(* ... and where each trip that ended did. *)
LEMMA MoreEnd ==
  ASSUME More, NEW i \in AllEnded
  PROVE  EndOf(i)' = EndOf(i) /\ EndAt(i)' = EndAt(i)
<1>0. PICK j : j = EndAt(i)
  OBVIOUS
<1> DEFINE N == Len(fills)
           E == EndOf(i)'
           F == EndOf(i)
<1>1. N \in Nat /\ Len(fills') \in Nat /\ N <= Len(fills') /\ i \in Nat /\ j \in Nat /\ Path
  BY <1>0, MoreLen, EndedFacts DEF More
<1>2. j \in F /\ j \in 1 .. N /\ i < j /\ IsEnding(j) /\ (\A k \in i + 1 .. j - 1 : ~IsEnding(k))
      /\ \A x \in F : x = j
  <2>1. 0 \in 0 .. Len(fills) /\ Len(fills) \in 0 .. Len(fills)
    BY <1>1
  <2>2. i \in 1 .. Len(fills) /\ EndAt(i) \in EndOf(i)
    BY <1>1, <2>1, EndedIs DEF AllEnded
  <2> QED BY <1>0, <1>1, <2>2, EndIs
<1>3. \A x : x \in E <=> x \in i + 1 .. Len(fills') /\ IsEnding(x)' /\ \A k \in i + 1 .. x - 1 : ~IsEnding(k)'
  BY DEF EndOf
<1> HIDE DEF N, E, F
<1>4. \A x \in 1 .. N : IsEnding(x)' <=> IsEnding(x)
  BY MoreOpens DEF N
<1>5. j \in E
  <2>1. j \in i + 1 .. Len(fills') /\ IsEnding(j)'
    BY <1>1, <1>2, <1>4
  <2>2. \A k \in i + 1 .. j - 1 : k \in 1 .. N
    BY <1>1, <1>2
  <2>3. \A k \in i + 1 .. j - 1 : ~IsEnding(k)'
    BY <1>2, <1>4, <2>2
  <2> QED BY <1>3, <2>1, <2>3
<1>6. ASSUME NEW x \in E PROVE x = j
  <2>1. x \in i + 1 .. Len(fills') /\ IsEnding(x)' /\ \A k \in i + 1 .. x - 1 : ~IsEnding(k)'
    BY <1>3
  <2>2. x \in Nat /\ i < x
    BY <1>1, <2>1
  <2>3. CASE j < x
    <3>1. j \in i + 1 .. x - 1 /\ IsEnding(j)'
      BY <1>1, <1>2, <1>4, <2>2, <2>3
    <3> QED BY <2>1, <3>1
  <2>4. CASE x < j
    <3>1. x \in i + 1 .. j - 1 /\ x \in 1 .. N
      BY <1>1, <1>2, <2>2, <2>4
    <3> QED BY <1>2, <1>4, <2>1, <3>1
  <2> QED BY <1>1, <2>2, <2>3, <2>4
<1>7. E = {j} /\ F = {j}
  <2>1. \A x : x \in E <=> x = j
    BY <1>5, <1>6
  <2>2. \A x : x \in F <=> x = j
    BY <1>2
  <2> QED BY <2>1, <2>2
<1>8. EndAt(i)' = CHOOSE x \in E : TRUE
  BY DEF EndAt, E
<1>9. EndAt(i) = CHOOSE x \in F : TRUE
  BY DEF EndAt, F
<1> QED BY <1>7, <1>8, <1>9 DEF E, F

(* The trip that a fill begins, in this state and the next: its sums are    *)
(* totals.                                                                  *)
LEMMA TripNow ==
  \A i : TripOf(i) =
    [side |-> SideOf(fills[i].end), open |-> fills[i].ms, close |-> fills[EndAt(i)].ms,
     entry |-> Abs(fills[i].end) + Total(Grown, i + 1 .. EndAt(i) - 1),
     exit |-> Abs(fills[EndAt(i)].start) + Total(Shrunk, i + 1 .. EndAt(i) - 1)]
<1> SUFFICES ASSUME NEW i
             PROVE  TripOf(i) = [side |-> SideOf(fills[i].end), open |-> fills[i].ms, close |-> fills[EndAt(i)].ms,
                                 entry |-> Abs(fills[i].end) + Total(Grown, i + 1 .. EndAt(i) - 1),
                                 exit |-> Abs(fills[EndAt(i)].start) + Total(Shrunk, i + 1 .. EndAt(i) - 1)]
  OBVIOUS
<1> DEFINE S == i + 1 .. EndAt(i) - 1
           g == Grown
           o == Shrunk
<1>2. MapThenSumSet(LAMBDA k : g[k], S) = Total(g, S) /\ MapThenSumSet(LAMBDA k : o[k], S) = Total(o, S)
  <2> HIDE DEF S, g, o
  <2>1. MapThenSumSet(LAMBDA k : g[k], S) = Total(g, S)
    BY SumIsTotal
  <2>2. MapThenSumSet(LAMBDA k : o[k], S) = Total(o, S)
    BY SumIsTotal
  <2> QED BY <2>1, <2>2
<1> QED BY <1>2 DEF TripOf

(* The same after the step. *)
LEMMA TripAfter ==
  \A i : TripOf(i)' =
    [side |-> SideOf(fills'[i].end), open |-> fills'[i].ms, close |-> fills'[EndAt(i)'].ms,
     entry |-> Abs(fills'[i].end) + Total(Grown', i + 1 .. EndAt(i)' - 1),
     exit |-> Abs(fills'[EndAt(i)'].start) + Total(Shrunk', i + 1 .. EndAt(i)' - 1)]
<1>1. (\A i : TripOf(i) = [side |-> SideOf(fills[i].end), open |-> fills[i].ms, close |-> fills[EndAt(i)].ms,
                           entry |-> Abs(fills[i].end) + Total(Grown, i + 1 .. EndAt(i) - 1),
                           exit |-> Abs(fills[EndAt(i)].start) + Total(Shrunk, i + 1 .. EndAt(i) - 1)])'
  BY TripNow, PTL
<1> QED BY <1>1

(* The trip of what began and ended is the same, ... *)
LEMMA MoreTrip ==
  ASSUME More, NEW i \in AllEnded
  PROVE  TripOf(i)' = TripOf(i)
<1>1. PICK j : j = EndAt(i)
  OBVIOUS
<1>2. EndAt(i)' = j
  BY <1>1, MoreEnd
<1>3. Path /\ i \in 1 .. Len(fills) /\ j \in 1 .. Len(fills) /\ Len(fills) \in Nat /\ Len(fills') \in Nat /\ Len(fills) <= Len(fills')
  BY <1>1, EndedFacts, MoreLen DEF More
<1>4. fills'[i] = fills[i] /\ fills'[j] = fills[j]
  BY <1>3, MoreOpens
<1> DEFINE S == i + 1 .. j - 1
           g == Grown
           o == Shrunk
           gg == Grown'
           oo == Shrunk'
<1>5. \A k \in S : gg[k] = g[k] /\ oo[k] = o[k]
  <2>1. ASSUME NEW k \in S PROVE gg[k] = g[k] /\ oo[k] = o[k]
    <3>1. k \in 1 .. Len(fills) /\ k \in 1 .. Len(fills')
      BY <1>3
    <3>2. fills'[k] = fills[k]
      BY <3>1, MoreOpens
    <3>3. gg[k] = (IF Abs(fills'[k].end) > Abs(fills'[k].start) THEN Abs(fills'[k].end) - Abs(fills'[k].start) ELSE 0)
      BY <3>1 DEF Grown
    <3>4. oo[k] = (IF Abs(fills'[k].end) < Abs(fills'[k].start) THEN Abs(fills'[k].start) - Abs(fills'[k].end) ELSE 0)
      BY <3>1 DEF Shrunk
    <3>5. g[k] = (IF Abs(fills[k].end) > Abs(fills[k].start) THEN Abs(fills[k].end) - Abs(fills[k].start) ELSE 0)
      BY <3>1 DEF Grown
    <3>6. o[k] = (IF Abs(fills[k].end) < Abs(fills[k].start) THEN Abs(fills[k].start) - Abs(fills[k].end) ELSE 0)
      BY <3>1 DEF Shrunk
    <3> HIDE DEF g, o, gg, oo, Abs
    <3> QED BY <3>2, <3>3, <3>4, <3>5, <3>6
  <2> QED BY <2>1
<1>6. IsFiniteSet(S)
  <2>1. j - 1 \in Int /\ i + 1 \in Int
    BY <1>3
  <2> QED BY <2>1, FS_Interval
<1> HIDE DEF S, g, o, gg, oo
<1>7. Total(gg, S) = Total(g, S) /\ Total(oo, S) = Total(o, S)
  BY <1>5, <1>6, TotalSame
<1>8. TripOf(i) = [side |-> SideOf(fills[i].end), open |-> fills[i].ms, close |-> fills[j].ms,
                   entry |-> Abs(fills[i].end) + Total(g, S), exit |-> Abs(fills[j].start) + Total(o, S)]
  BY <1>1, TripNow DEF S, g, o
<1>9. TripOf(i)' = [side |-> SideOf(fills'[i].end), open |-> fills'[i].ms, close |-> fills'[j].ms,
                    entry |-> Abs(fills'[i].end) + Total(gg, S), exit |-> Abs(fills'[j].start) + Total(oo, S)]
  <2> QED BY <1>2, TripAfter DEF S, gg, oo
<1> HIDE DEF SideOf, Abs
<1> QED BY <1>4, <1>7, <1>8, <1>9

(* ... its row too, ... *)
LEMMA MoreRow ==
  ASSUME More, NEW i \in AllEnded
  PROVE  RowOf(i)' = RowOf(i)
<1>1. PICK m : m = fills[i].ms
  OBVIOUS
<1> DEFINE O == Openings(m)
           Q == Openings(m)'
<1>0. PICK k : k = Min(O)
  OBVIOUS
<1>2. Path /\ i \in Nat /\ i \in 1 .. Len(fills) /\ Len(fills) \in Nat /\ Len(fills') \in Nat /\ Len(fills) <= Len(fills')
      /\ IsOpening(i)
  BY EndedFacts, MoreLen DEF More
<1>3. fills'[i] = fills[i]
  BY <1>2, MoreOpens
<1>4. k \in AllEnded /\ k <= i /\ k \in 1 .. Len(fills)
  <2>1. k \in AllEnded /\ k <= i
    BY <1>0, <1>1, <1>2, FirstOpening
  <2> QED BY <1>2, <2>1, EndedFacts
<1>5. \A x : x \in O <=> x \in 1 .. Len(fills) /\ IsOpening(x) /\ fills[x].ms = m
  BY DEF Openings
<1>6. \A x : x \in Q <=> x \in 1 .. Len(fills') /\ IsOpening(x)' /\ fills'[x].ms = m
  BY DEF Openings
<1>7. k \in O /\ \A x \in O : k <= x
  <2>1. O \in SUBSET Nat /\ i \in O
    BY <1>1, <1>2, <1>5
  <2> HIDE DEF O
  <2>2. PICK x \in O : \A y \in O : x <= y
    BY <2>1, LeastOf
  <2> QED BY <1>0, <2>2 DEF Min
<1> HIDE DEF O, Q
<1>8. k \in Q
  <2>1. k \in 1 .. Len(fills) /\ IsOpening(k) /\ fills[k].ms = m
    BY <1>5, <1>7
  <2>2. (IsOpening(k)' <=> IsOpening(k)) /\ fills'[k] = fills[k]
    BY <2>1, MoreOpens
  <2>3. k \in 1 .. Len(fills')
    BY <1>2, <2>1
  <2> QED BY <1>6, <2>1, <2>2, <2>3
<1>9. ASSUME NEW x \in Q PROVE k <= x
  <2>1. x \in 1 .. Len(fills') /\ IsOpening(x)' /\ fills'[x].ms = m /\ x \in Nat
    BY <1>2, <1>6
  <2>2. CASE x \in 1 .. Len(fills)
    <3>1. (IsOpening(x)' <=> IsOpening(x)) /\ fills'[x] = fills[x]
      BY <2>2, MoreOpens
    <3> QED BY <1>5, <1>7, <2>1, <2>2, <3>1
  <2>3. CASE x > Len(fills)
    BY <1>2, <1>4, <2>1, <2>3
  <2> QED BY <1>2, <2>1, <2>2, <2>3
<1>10. Min(Q) = k
  <2>1. ASSUME NEW x \in Q, \A y \in Q : x <= y PROVE x = k
    <3>1. x \in Nat /\ k \in Nat
      BY <1>2, <1>4, <1>6
    <3>2. x <= k /\ k <= x
      BY <1>8, <1>9, <2>1
    <3> QED BY <3>1, <3>2
  <2> QED BY <1>8, <1>9, <2>1 DEF Min
<1>11. fills'[k] = fills[k]
  BY <1>4, MoreOpens
<1>12. RowOf(i) = [TripOf(i) EXCEPT !.side = SideOf(fills[k].end)]
  BY <1>0, <1>1 DEF RowOf, O
<1>13. RowOf(i)' = [TripOf(i)' EXCEPT !.side = SideOf(fills'[Min(Q)].end)]
  BY <1>1, <1>3 DEF RowOf, Q
<1>14. TripOf(i)' = TripOf(i)
  BY MoreTrip
<1> HIDE DEF SideOf
<1> QED BY <1>10, <1>11, <1>12, <1>13, <1>14

(* ... and what ended since ended in what is new. *)
LEMMA MoreEnded ==
  ASSUME More
  PROVE  /\ AllEnded \in SUBSET AllEnded'
         /\ \A i \in AllEnded' : i \in AllEnded \/ (EndAt(i)' \in Len(fills) + 1 .. Len(fills') /\ TripOf(i)'.close = fills'[EndAt(i)'].ms)
<1>1. Path /\ Len(fills) \in Nat /\ Len(fills') \in Nat /\ Len(fills) <= Len(fills')
  BY MoreLen DEF More
<1>2. \A i : i \in AllEnded' <=> i \in 1 .. Len(fills') /\ IsOpening(i)' /\ \E j \in EndOf(i)' : j <= Len(fills')
  BY DEF AllEnded, EndedBy
<1>3. \A i : i \in AllEnded <=> i \in 1 .. Len(fills) /\ IsOpening(i) /\ \E j \in EndOf(i) : j <= Len(fills)
  BY DEF AllEnded, EndedBy
<1>4. ASSUME NEW i \in AllEnded PROVE i \in AllEnded'
  <2>1. i \in 1 .. Len(fills) /\ IsOpening(i) /\ i \in 1 .. Len(fills')
    BY <1>1, <1>3
  <2>2. IsOpening(i)'
    BY <2>1, MoreOpens
  <2>3. PICK j \in EndOf(i) : j <= Len(fills)
    BY <1>3
  <2>4. EndOf(i)' = EndOf(i) /\ j \in Nat
    BY <1>1, <2>1, MoreEnd DEF EndOf
  <2> QED BY <1>1, <1>2, <2>1, <2>2, <2>3, <2>4
<1>5. ASSUME NEW i \in AllEnded', i \notin AllEnded
      PROVE  EndAt(i)' \in Len(fills) + 1 .. Len(fills') /\ TripOf(i)'.close = fills'[EndAt(i)'].ms
  <2>1. PICK j : j = EndAt(i)'
    OBVIOUS
  <2>2. i \in 1 .. Len(fills') /\ i \in Nat /\ IsOpening(i)' /\ \E x : x \in EndOf(i)'
    BY <1>1, <1>2, <1>5
  <2>3. EndAt(i)' = CHOOSE x \in EndOf(i)' : TRUE
    BY DEF EndAt
  <2>4. j \in EndOf(i)'
    BY <2>1, <2>2, <2>3
  <2>5. j \in i + 1 .. Len(fills') /\ IsEnding(j)' /\ \A k \in i + 1 .. j - 1 : ~IsEnding(k)'
    BY <2>4 DEF EndOf
  <2>6. ~(j <= Len(fills))
    <3>1. SUFFICES ASSUME j <= Len(fills) PROVE FALSE
      OBVIOUS
    <3>2. j \in 1 .. Len(fills) /\ i \in 1 .. Len(fills) /\ \A k \in i + 1 .. j - 1 : k \in 1 .. Len(fills)
      BY <1>1, <2>2, <2>5, <3>1
    <3>3. \A k \in 1 .. Len(fills) : (IsOpening(k)' <=> IsOpening(k)) /\ (IsEnding(k)' <=> IsEnding(k))
      BY MoreOpens
    <3>4. IsOpening(i) /\ IsEnding(j) /\ \A k \in i + 1 .. j - 1 : ~IsEnding(k)
      BY <2>2, <2>5, <3>2, <3>3
    <3>5. j \in i + 1 .. Len(fills)
      BY <1>1, <2>5, <3>1
    <3>6. j \in EndOf(i)
      BY <3>4, <3>5 DEF EndOf
    <3> QED BY <1>3, <1>5, <3>1, <3>2, <3>4, <3>6
  <2>7. j \in Len(fills) + 1 .. Len(fills')
    BY <1>1, <2>2, <2>5, <2>6
  <2>8. TripOf(i)'.close = fills'[j].ms
    BY <2>1, TripAfter
  <2> QED BY <2>1, <2>7, <2>8
<1> QED BY <1>4, <1>5

-----------------------------------------------------------------------------
(* The invariant of the rows: with everything stored they are the trips up  *)
(* to the last written, and all of it is before the block now being traded. *)
RowsHeld == {i \in AllEnded : TripOf(i).close <= LastClose}
RowsInv == Distinct /\ StoredFrom(0) => written = RowsOf(RowsHeld) /\ (over \/ LastClose < LastFill.ms)

(* The last close of the rows as they are. *)
LEMMA CloseIs == LastClose = CloseOf(written)
BY DEF LastClose, CloseOf

(* The rows' part of the invariant is what RowsAreTrips states. *)
LEMMA HeldRows ==
  RowsInv => RowsAreTrips
BY DEF RowsInv, RowsAreTrips, RowsHeld, AllEnded

(* What is written is not later than the last fill. *)
LEMMA WrittenBefore ==
  ASSUME Path, NEW K \in SUBSET AllEnded, written = RowsOf(K)
  PROVE  LastClose \in Nat /\ LastClose <= LastFill.ms /\ (LastClose = 0 \/ \E i \in K : TripOf(i).close = LastClose)
<1>1. LastClose \in Nat /\ (LastClose = 0 \/ \E i \in K : TripOf(i).close = LastClose)
  BY LastCloseIs, CloseIs
<1>2. LastFill.ms \in Nat /\ \A i \in 1 .. Len(fills) : fills[i].ms <= LastFill.ms
  BY LastIs
<1>3. \A i \in K : TripOf(i).close <= LastFill.ms
  BY <1>2, EndedFacts
<1> QED BY <1>1, <1>2, <1>3

(* With more fills the rows of what ended before are the same. *)
LEMMA MoreRowsOf ==
  ASSUME More, NEW K \in SUBSET AllEnded
  PROVE  RowsOf(K)' = RowsOf(K)
<1> DEFINE T == {k \in K : \A l \in K : fills[l].ms = fills[k].ms => l <= k}
<1>1. \A k \in K : k \in 1 .. Len(fills)
  BY EndedFacts DEF More
<1>2. \A k \in K : fills'[k] = fills[k]
  BY <1>1 DEF More
<1>3. \A k \in K : RowOf(k)' = RowOf(k)
  BY MoreRow
<1>4. {k \in K : \A l \in K : fills'[l].ms = fills'[k].ms => l <= k} = T
  BY <1>2
<1>5. RowsOf(K) = {RowOf(i) : i \in T}
  BY DEF RowsOf
<1>6. RowsOf(K)' = {RowOf(i)' : i \in {k \in K : \A l \in K : fills'[l].ms = fills'[k].ms => l <= k}}
  BY DEF RowsOf
<1>7. \A i \in T : RowOf(i)' = RowOf(i)
  BY <1>3
<1> HIDE DEF T
<1>8. RowsOf(K)' = {RowOf(i)' : i \in T}
  BY <1>4, <1>6
<1> QED BY <1>5, <1>7, <1>8

(* A fill more leaves what was written. *)
LEMMA FillRows ==
  ASSUME Path, Path', FillMade, RowsInv
  PROVE  RowsInv'
<1> SUFFICES ASSUME Distinct', StoredFrom(0)'
             PROVE  written' = RowsOf(RowsHeld)' /\ (over' \/ LastClose' < LastFill'.ms)
  BY DEF RowsInv
<1>1. PICK start \in (IF fills = <<>> THEN Stakes ELSE {LastFill.end}), end \in Stakes, stored \in BOOLEAN,
           later \in {0, 1}, tid \in Tids :
        /\ start # end
        /\ IF later = 1 THEN tid = FirstTid
           ELSE ~over /\ \A i \in 1 .. Len(fills) : fills[i].ms = LastFill.ms => fills[i].tid # tid
        /\ fills' = Append(fills, [ms |-> LastFill.ms + later, tid |-> tid, start |-> start, end |-> end,
                                   stored |-> stored])
  BY DEF FillMade
<1>2. PICK f : f = [ms |-> LastFill.ms + later, tid |-> tid, start |-> start, end |-> end, stored |-> stored]
  OBVIOUS
<1>3. PICK N : N = Len(fills)
  OBVIOUS
<1>4. fills \in Seq(FillRec) /\ fills' \in Seq(FillRec) /\ N \in Nat /\ over' = FALSE /\ written' = written
  BY <1>3, PathLen DEF Path, FillMade
<1>5. Len(fills') = N + 1 /\ fills'[N + 1] = f /\ fills' # <<>> /\ \A i \in 1 .. N : fills'[i] = fills[i]
  <2>1. fills' = Append(fills, f)
    BY <1>1, <1>2
  <2>2. f \in FillRec
    <3>1. Append(fills, f)[Len(fills) + 1] = f /\ Len(fills') = Len(fills) + 1
      BY <1>4, <2>1
    <3>2. fills'[N + 1] = f /\ N + 1 \in 1 .. Len(fills')
      BY <1>3, <1>4, <2>1, <3>1
    <3> QED BY <1>4, <3>2
  <2> QED BY <1>3, <1>4, <2>1, <2>2
<1>6. More
  BY <1>3, <1>4, <1>5 DEF More
<1>7. Distinct /\ StoredFrom(0)
  <2>1. \A i \in 1 .. N : i \in 1 .. Len(fills')
    BY <1>4, <1>5
  <2>2. Distinct
    <3>1. \A i, j \in 1 .. N : i < j /\ fills'[i].ms = fills'[j].ms => fills'[i].start # fills'[j].start /\ fills'[i].start # fills'[j].end
      BY <2>1 DEF Distinct
    <3> QED BY <1>3, <1>5, <3>1 DEF Distinct
  <2>3. StoredFrom(0)
    <3>1. \A i \in 1 .. N : fills'[i].stored <=> i > 0
      BY <2>1 DEF StoredFrom
    <3> QED BY <1>3, <1>5, <3>1 DEF StoredFrom
  <2> QED BY <2>2, <2>3
<1>8. written = RowsOf(RowsHeld) /\ (over \/ LastClose < LastFill.ms) /\ RowsHeld \in SUBSET AllEnded
  BY <1>7 DEF RowsInv, RowsHeld
<1>9. LastClose \in Nat /\ LastClose <= LastFill.ms /\ LastFill.ms \in Nat
  BY <1>8, WrittenBefore, LastIs
<1>10. f.ms \in Nat /\ LastClose < f.ms
  BY <1>1, <1>2, <1>8, <1>9
<1>11. LastClose' = LastClose
  BY <1>4 DEF LastClose
<1>12. LastFill'.ms = f.ms
  <2>1. LastFill' = fills'[Len(fills')]
    BY <1>5 DEF LastFill, Last
  <2> QED BY <1>5, <2>1
<1>13. RowsHeld' = RowsHeld
  <2>1. \A i : i \in RowsHeld' <=> i \in AllEnded' /\ TripOf(i)'.close <= LastClose
    BY <1>11 DEF RowsHeld
  <2>2. \A i : i \in RowsHeld <=> i \in AllEnded /\ TripOf(i).close <= LastClose
    BY DEF RowsHeld
  <2>3. ASSUME NEW i \in AllEnded PROVE i \in RowsHeld' <=> i \in RowsHeld
    <3>1. i \in AllEnded' /\ TripOf(i)' = TripOf(i)
      BY <1>6, MoreEnded, MoreTrip
    <3> QED BY <2>1, <2>2, <3>1
  <2>4. ASSUME NEW i \in AllEnded', i \notin AllEnded PROVE ~(TripOf(i)'.close <= LastClose)
    <3>1. PICK j : j = EndAt(i)'
      OBVIOUS
    <3>2. j \in N + 1 .. N + 1 /\ TripOf(i)'.close = fills'[j].ms
      BY <1>3, <1>5, <1>6, <2>4, <3>1, MoreEnded
    <3>3. TripOf(i)'.close = f.ms
      BY <1>4, <1>5, <3>2
    <3> QED BY <1>9, <1>10, <3>3
  <2>5. \A i : i \in RowsHeld' <=> i \in RowsHeld
    BY <2>1, <2>2, <2>3, <2>4
  <2> QED BY <2>5
<1>14. RowsOf(RowsHeld)' = RowsOf(RowsHeld)
  <2>1. PICK K : K = RowsHeld
    OBVIOUS
  <2>2. RowsOf(K)' = RowsOf(K)
    BY <1>6, <1>8, <2>1, MoreRowsOf
  <2>3. RowsOf(RowsHeld)' = RowsOf(K)'
    BY <1>13, <2>1 DEF RowsOf
  <2> QED BY <2>1, <2>2, <2>3
<1> QED BY <1>4, <1>8, <1>10, <1>11, <1>12, <1>14

(* A writer leaves the rows of all trips. *)
LEMMA WriteRows ==
  ASSUME Path, RowsInv, Rebuild \/ CloseTrip
  PROVE  Path' /\ RowsInv'
<1>1. fills' = fills /\ over' = TRUE
  BY DEF Rebuild, CloseTrip
<1>2. Path'
  BY <1>1 DEF Path
<1>3. More
  BY <1>1, <1>2, PathLen DEF More
<1>4. SUFFICES ASSUME Distinct', StoredFrom(0)' PROVE written' = RowsOf(RowsHeld)'
  BY <1>1, <1>2 DEF RowsInv
<1>5. Distinct /\ StoredFrom(0)
  BY <1>1, <1>4 DEF Distinct, StoredFrom
<1>6. written = RowsOf(RowsHeld) /\ RowsHeld \in SUBSET AllEnded
  BY <1>5 DEF RowsInv, RowsHeld
<1>7. written' = RowsOf(AllEnded)
  <2>1. CASE Rebuild
    BY <1>5, <1>6, <2>1, RebuildRows DEF Rebuild
  <2>2. CASE CloseTrip
    <3>1. PICK L : L = LastClose
      OBVIOUS
    <3>2. L \in Nat /\ (L = 0 \/ \E i \in RowsHeld : TripOf(i).close = L)
      BY <1>6, <3>1, WrittenBefore
    <3>3. RowsHeld = {i \in AllEnded : TripOf(i).close <= L}
      BY <3>1 DEF RowsHeld
    <3>4. Upsert(LaterTrips(BuildTrips(SinceLast(L)), L)) = RowsOf(AllEnded)
      BY <1>5, <1>6, <3>2, <3>3, CloseRows
    <3> QED BY <2>2, <3>1, <3>4 DEF CloseTrip
  <2> QED BY <1>4, <2>1, <2>2
<1>8. LastClose' = CloseOf(written')
  BY DEF LastClose, CloseOf
<1>9. \A i \in AllEnded : TripOf(i).close <= LastClose'
  BY <1>7, <1>8, AllKept
<1>10. AllEnded' = AllEnded
  <2>1. \A i \in AllEnded' : i \in AllEnded
    <3>1. ASSUME NEW i \in AllEnded', i \notin AllEnded PROVE FALSE
      <4>1. PICK j : j = EndAt(i)'
        OBVIOUS
      <4>2. j \in Len(fills) + 1 .. Len(fills)
        BY <1>1, <1>3, <3>1, <4>1, MoreEnded
      <4> QED BY <4>2, PathLen
    <3> QED BY <3>1
  <2> QED BY <1>3, <2>1, MoreEnded
<1>11. RowsHeld' = AllEnded
  <2>1. \A i : i \in RowsHeld' <=> i \in AllEnded' /\ TripOf(i)'.close <= LastClose'
    BY DEF RowsHeld
  <2>2. \A i \in AllEnded : TripOf(i)' = TripOf(i)
    BY <1>3, MoreTrip
  <2>3. \A i : i \in RowsHeld' <=> i \in AllEnded
    BY <1>9, <1>10, <2>1, <2>2
  <2> QED BY <2>3
<1>12. RowsOf(RowsHeld)' = RowsOf(AllEnded)
  <2>1. PICK K : K = AllEnded
    OBVIOUS
  <2>2. RowsOf(K)' = RowsOf(K)
    BY <1>3, <2>1, MoreRowsOf
  <2>3. RowsOf(RowsHeld)' = RowsOf(K)'
    BY <1>11, <2>1 DEF RowsOf
  <2> QED BY <2>1, <2>2, <2>3
<1> QED BY <1>7, <1>12

-----------------------------------------------------------------------------
(* The fills and rows keep their types, and a row is the one of its open    *)
(* time: write_trips updates by it.                                         *)
RoundInv == RoundTypeOK /\ Path /\ RowsInv

(* Nothing traded and nothing written satisfies the invariant. *)
LEMMA RoundStarts == RoundInit => RoundInv
<1> SUFFICES ASSUME RoundInit PROVE RoundInv
  OBVIOUS
<1>1. fills = <<>> /\ over = TRUE /\ written = {} /\ Len(fills) = 0
  BY DEF RoundInit
<1>2. Path
  BY <1>1, TripsConstants DEF Path
<1>3. RoundTypeOK
  BY <1>1, TripsConstants DEF RoundTypeOK
<1>4. RowsInv
  <2>1. AllEnded = {}
    BY <1>1 DEF AllEnded, EndedBy
  <2>2. RowsHeld = {}
    BY <2>1 DEF RowsHeld
  <2>3. RowsOf(RowsHeld) = {}
    BY <2>2 DEF RowsOf
  <2> QED BY <1>1, <2>3 DEF RowsInv
<1> QED BY <1>2, <1>3, <1>4 DEF RoundInv

(* A writer keeps the types. *)
LEMMA WriteTypes ==
  ASSUME RoundTypeOK, Path, Rebuild \/ CloseTrip
  PROVE  RoundTypeOK'
<1>1. fills' = fills /\ over' = TRUE
  BY DEF Rebuild, CloseTrip
<1>2. RowSet(written)
  BY SeqTypes
<1>3. Stored \in SUBSET From(0)
  BY DEF Stored, From
<1>4. RowSet(written')
  <2>1. CASE Rebuild
    <3>1. BuildTrips(Stored) \in Seq(TripRec)
      BY <1>3, BuiltReal
    <3>2. RowSet(Upsert(BuildTrips(Stored)))
      BY <1>2, <3>1, UpsertKeepsRows
    <3> QED BY <2>1, <3>2 DEF Rebuild
  <2>2. CASE CloseTrip
    <3>1. SinceLast(LastClose) \in SUBSET From(0)
      BY <1>3 DEF SinceLast
    <3>2. BuildTrips(SinceLast(LastClose)) \in Seq(TripRec)
      BY <3>1, BuiltReal
    <3>3. LaterTrips(BuildTrips(SinceLast(LastClose)), LastClose) \in Seq(TripRec)
      BY <3>2, LaterTypes
    <3>4. RowSet(Upsert(LaterTrips(BuildTrips(SinceLast(LastClose)), LastClose)))
      BY <1>2, <3>3, UpsertKeepsRows
    <3> QED BY <2>2, <3>4 DEF CloseTrip
  <2> QED BY <2>1, <2>2
<1> QED BY <1>1, <1>4 DEF RoundTypeOK, RowSet

(* Every step keeps the invariant. *)
LEMMA RoundSteps == RoundInv /\ [RoundNext]_roundVars => RoundInv'
<1> SUFFICES ASSUME RoundInv, [RoundNext]_roundVars PROVE RoundInv'
  OBVIOUS
<1>1. RoundTypeOK /\ Path /\ RowsInv
  BY DEF RoundInv
<1>2. CASE FillMade
  <2>1. RoundTypeOK' /\ Path'
    BY <1>1, <1>2, PathStep
  <2> QED BY <1>1, <1>2, <2>1, FillRows DEF RoundInv
<1>3. CASE Rebuild \/ CloseTrip
  BY <1>1, <1>3, WriteTypes, WriteRows DEF RoundInv
<1>4. CASE UNCHANGED roundVars
  <2>1. fills' = fills /\ over' = over /\ written' = written
    BY <1>4 DEF roundVars
  <2>2. RoundTypeOK' /\ Path'
    BY <1>1, <2>1 DEF RoundTypeOK, Path
  <2>3. RowsInv'
    <3> SUFFICES ASSUME Distinct', StoredFrom(0)'
                 PROVE  written' = RowsOf(RowsHeld)' /\ (over' \/ LastClose' < LastFill'.ms)
      BY DEF RowsInv
    <3>1. More
      BY <1>1, <2>1, <2>2, PathLen DEF More
    <3>2. Distinct /\ StoredFrom(0)
      BY <2>1 DEF Distinct, StoredFrom
    <3>3. written = RowsOf(RowsHeld) /\ (over \/ LastClose < LastFill.ms) /\ RowsHeld \in SUBSET AllEnded
      BY <1>1, <3>2 DEF RowsInv, RowsHeld
    <3>4. LastClose' = LastClose /\ LastFill' = LastFill
      BY <2>1 DEF LastClose, LastFill, Last
    <3>5. RowsHeld' = RowsHeld
      <4>1. \A i \in AllEnded' : i \in AllEnded
        <5>1. ASSUME NEW i \in AllEnded', i \notin AllEnded PROVE FALSE
          <6>1. PICK j : j = EndAt(i)'
            OBVIOUS
          <6>2. j \in Len(fills) + 1 .. Len(fills)
            BY <2>1, <3>1, <5>1, <6>1, MoreEnded
          <6> QED BY <1>1, <6>2, PathLen
        <5> QED BY <5>1
      <4>2. \A i \in AllEnded : i \in AllEnded' /\ TripOf(i)' = TripOf(i)
        BY <3>1, MoreEnded, MoreTrip
      <4>3. \A i : i \in RowsHeld' <=> i \in AllEnded' /\ TripOf(i)'.close <= LastClose
        BY <3>4 DEF RowsHeld
      <4>4. \A i : i \in RowsHeld <=> i \in AllEnded /\ TripOf(i).close <= LastClose
        BY DEF RowsHeld
      <4>5. \A i : i \in RowsHeld' <=> i \in RowsHeld
        BY <4>1, <4>2, <4>3, <4>4
      <4> QED BY <4>5
    <3>6. RowsOf(RowsHeld)' = RowsOf(RowsHeld)
      <4>1. PICK K : K = RowsHeld
        OBVIOUS
      <4>2. RowsOf(K)' = RowsOf(K)
        BY <3>1, <3>3, <4>1, MoreRowsOf
      <4>3. RowsOf(RowsHeld)' = RowsOf(K)'
        BY <3>5, <4>1 DEF RowsOf
      <4> QED BY <4>1, <4>2, <4>3
    <3> QED BY <2>1, <3>3, <3>4, <3>6
  <2> QED BY <2>2, <2>3 DEF RoundInv
<1> QED BY <1>2, <1>3, <1>4 DEF RoundNext

(* The fills and the rows keep their types in every reachable state, one row *)
(* for each open time, whatever is stored and whichever writer wrote.       *)
THEOREM RoundTyped == RoundSpec => []RoundTypeOK
<1>1. RoundInv => RoundTypeOK
  BY DEF RoundInv
<1> QED BY <1>1, RoundStarts, RoundSteps, PTL DEF RoundSpec

(* The trips built from what is stored are the account's, whatever the      *)
(* order of the ids within a millisecond, no trip begins or ends where none *)
(* did with fills missing anywhere, and the rows the two writers leave are  *)
(* the trips, in whatever order they write.                                 *)
THEOREM TripsHeld == RoundSpec => []TripsHold
<1>1. RoundInv => TripsHold
  BY PathTripsTrue, HeldRows DEF RoundInv, TripsHold
<1> QED BY <1>1, RoundStarts, RoundSteps, PTL DEF RoundSpec
=============================================================================
