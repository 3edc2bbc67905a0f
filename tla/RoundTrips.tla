----------------------------- MODULE RoundTrips -----------------------------
(***************************************************************************)
(* Round trips from stored fills (services/featured/roundtrips.py), for one*)
(* account and coin: a trip is open to flat.  Fills of one millisecond come*)
(* back in tid order, which is not the order they happened in; some were   *)
(* never stored.  Sizes are lots; prices, fees and funding follow them and *)
(* are left out.  Trips are written by the daily rebuild from every fill   *)
(* kept and by the feed's close from the fills since the last trip.        *)
(***************************************************************************)
EXTENDS Integers, SequencesExt, FiniteSetsExt

CONSTANTS
  Stakes,     \* positions the account may hold, 0 among them
  Tids,       \* ranks of the fills of one millisecond in tid order
  FirstTid,   \* that of its first: the others rank before it and after it
  MaxFills    \* bound

ASSUME TripsConstants ==
  Stakes \subseteq Int /\ 0 \in Stakes /\ Tids \subseteq Nat /\ FirstTid \in Tids /\ MaxFills \in Nat

VARIABLES
  fills,    \* the fills in the order they happened: ms, tid, start, end, stored in hl_fills
  over,     \* the last millisecond is over: its fills come in one block
  written   \* round_trips, by their open time

roundVars == <<fills, over, written>>

NoTrip == [side |-> "none", open |-> 0, close |-> 0, entry |-> 0, exit |-> 0]

FillRec == [ms : Nat, tid : Tids, start : Stakes, end : Stakes, stored : BOOLEAN]
TripRec == [side : {"long", "short"}, open : Nat, close : Nat, entry : Nat, exit : Nat]

(* The types of the fills and rows; one row per open time. *)
RoundTypeOK ==
  /\ fills \in Seq(FillRec) /\ Len(fills) <= MaxFills
  /\ over \in BOOLEAN /\ written \subseteq TripRec
  /\ \A t, u \in written : t.open = u.open => t = u

-----------------------------------------------------------------------------
Abs(n) == IF n < 0 THEN -n ELSE n
Lesser(a, b) == IF a < b THEN a ELSE b
SideOf(n) == IF n > 0 THEN "long" ELSE "short"
Opposite(a, b) == (a > 0) # (b > 0)

Stored == {fills[i] : i \in {j \in 1 .. Len(fills) : fills[j].stored}}

(* The rows come sorted by time and tid: the first group, and the first of it. *)
FirstGroup(rows) == {f \in rows : \A g \in rows : f.ms <= g.ms}
FirstByTid(group) == CHOOSE f \in group : \A g \in group : f.tid <= g.tid

(* Mutant: the fills of a group are taken in tid order. *)
NextByTid(group, pos) == FirstByTid(group)
(* chain_same_time: of the group, what starts at the running position, else
   what starts where no other ends, else all; of these the first. *)
NextOf(group, pos) ==
  LET follows == {f \in group : pos.known /\ f.start = pos.at}
      roots == {f \in group : \A g \in group : g.end # f.start}
  IN FirstByTid(IF follows # {} THEN follows ELSE IF roots # {} THEN roots ELSE group)

ChainStep(acc, n) ==
  LET f == NextOf(FirstGroup(acc.left), acc.pos) IN
  [out |-> Append(acc.out, f), left |-> acc.left \ {f}, pos |-> [known |-> TRUE, at |-> f.end]]

ChainSameTime(rows) ==
  FoldLeft(ChainStep, [out |-> <<>>, left |-> rows, pos |-> [known |-> FALSE, at |-> 0]],
           [n \in 1 .. Cardinality(rows) |-> n]).out

(* Mutant: a position of unknown origin starts a trip with its next add. *)
StillFlatAlways(acc, f) == acc.flat
(* A position that appears from nowhere with no trip open is of unknown
   origin: nothing starts until the coin is flat again. *)
StillFlat(acc, f) ==
  acc.flat /\ ~(acc.known /\ f.start # acc.pos /\ acc.trip = NoTrip /\ f.start # 0)

ClosedPart(f) == IF f.start # 0 /\ Opposite(f.start, f.end - f.start)
                 THEN Lesser(Abs(f.start), Abs(f.end - f.start)) ELSE 0
OpenedPart(f) == Abs(f.end - f.start) - ClosedPart(f)

(* Mutant: a flip goes on as one trip. *)
EndsTripFlat(f) == ClosedPart(f) > 0 /\ f.end = 0
EndsTrip(f) == ClosedPart(f) > 0 /\ (f.end = 0 \/ Opposite(f.start, f.end))

(* build_trips for one fill: its closing part, then its opening part. *)
BuildStep(acc, f) ==
  LET flat == StillFlat(acc, f) \/ f.start = 0
      shrunk == IF ClosedPart(f) > 0 /\ acc.trip # NoTrip THEN [acc.trip EXCEPT !.exit = @ + ClosedPart(f)] ELSE acc.trip
      left == IF EndsTrip(f) THEN NoTrip ELSE shrunk
      begun == IF left = NoTrip THEN [NoTrip EXCEPT !.side = SideOf(f.end), !.open = f.ms] ELSE left
      starts == OpenedPart(f) > 0 /\ (left # NoTrip \/ flat \/ EndsTrip(f))
  IN [trips |-> IF EndsTrip(f) /\ shrunk # NoTrip THEN Append(acc.trips, [shrunk EXCEPT !.close = f.ms]) ELSE acc.trips,
      trip |-> IF starts THEN [begun EXCEPT !.entry = @ + OpenedPart(f)] ELSE left,
      pos |-> f.end, known |-> TRUE,
      flat |-> flat \/ EndsTrip(f)]

Unbuilt == [trips |-> <<>>, trip |-> NoTrip, pos |-> 0, known |-> FALSE, flat |-> FALSE]

(* The closed trips, oldest first. *)
BuildTrips(rows) == FoldLeft(BuildStep, Unbuilt, ChainSameTime(rows)).trips

-----------------------------------------------------------------------------
RoundInit == fills = <<>> /\ over = TRUE /\ written = {}

LastFill == IF fills = <<>> THEN [ms |-> 0, end |-> 0] ELSE Last(fills)

(* The account trades, in a new millisecond or once more in the last one; the
   history may begin with a position.  What is read is read of whole blocks. *)
FillMade ==
  /\ Len(fills) < MaxFills
  /\ \E start \in (IF fills = <<>> THEN Stakes ELSE {LastFill.end}), end \in Stakes, stored \in BOOLEAN,
        later \in {0, 1}, tid \in Tids :
       /\ start # end
       /\ IF later = 1 THEN tid = FirstTid
          ELSE ~over /\ \A i \in 1 .. Len(fills) : fills[i].ms = LastFill.ms => fills[i].tid # tid
       /\ fills' = Append(fills, [ms |-> LastFill.ms + later, tid |-> tid, start |-> start, end |-> end,
                                  stored |-> stored])
  /\ over' = FALSE /\ UNCHANGED written

(* write_trips, in one transaction: an upsert by open time, which never updates
   the side. *)
PutTrip(rows, t) ==
  LET there == {u \in rows : u.open = t.open} IN
  (rows \ there) \cup {IF there = {} THEN t ELSE [t EXCEPT !.side = (CHOOSE u \in there : TRUE).side]}
Upsert(new) == FoldLeft(PutTrip, written, new)

(* rebuild_trips, the daily job. *)
Rebuild ==
  /\ written' = Upsert(BuildTrips(Stored))
  /\ over' = TRUE /\ UNCHANGED fills

LastClose == IF written = {} THEN 0 ELSE Max({t.close : t \in written})

(* Mutant: the cut leaves out the millisecond of the last trip. *)
FillsAfter(last) == {f \in Stored : f.ms > last}
SinceLast(last) == {f \in Stored : f.ms >= last - 1}

(* The n-th of a set of numbers. *)
Nth(S, n) == CHOOSE x \in S : Cardinality({y \in S : y <= x}) = n

LaterTrips(trips, last) ==
  LET later == {n \in 1 .. Len(trips) : trips[n].close > last} IN
  [n \in 1 .. Cardinality(later) |-> trips[Nth(later, n)]]

(* featured_close_trip: the trips that closed after the last one written. *)
CloseTrip ==
  /\ written' = Upsert(LaterTrips(BuildTrips(SinceLast(LastClose)), LastClose))
  /\ over' = TRUE /\ UNCHANGED fills

RoundNext == FillMade \/ Rebuild \/ CloseTrip

RoundSpec == RoundInit /\ [][RoundNext]_roundVars

-----------------------------------------------------------------------------
(* The reference: what a trip is on the path the position really took. *)
Flips(f) == f.start # 0 /\ f.end # 0 /\ Opposite(f.start, f.end)
IsOpening(i) == fills[i].end # 0 /\ (fills[i].start = 0 \/ Flips(fills[i]))
IsEnding(i) == fills[i].start # 0 /\ (fills[i].end = 0 \/ Flips(fills[i]))
EndOf(i) == {j \in i + 1 .. Len(fills) : IsEnding(j) /\ \A k \in i + 1 .. j - 1 : ~IsEnding(k)}
EndAt(i) == CHOOSE j \in EndOf(i) : TRUE

(* What each fill adds to the position, and takes from it. *)
Grown == [k \in 1 .. Len(fills) |->
            IF Abs(fills[k].end) > Abs(fills[k].start) THEN Abs(fills[k].end) - Abs(fills[k].start) ELSE 0]
Shrunk == [k \in 1 .. Len(fills) |->
             IF Abs(fills[k].end) < Abs(fills[k].start) THEN Abs(fills[k].start) - Abs(fills[k].end) ELSE 0]

TripOf(i) ==
  LET j == EndAt(i) IN
  [side |-> SideOf(fills[i].end), open |-> fills[i].ms, close |-> fills[j].ms,
   entry |-> Abs(fills[i].end) + MapThenSumSet(LAMBDA k : Grown[k], i + 1 .. j - 1),
   exit |-> Abs(fills[j].start) + MapThenSumSet(LAMBDA k : Shrunk[k], i + 1 .. j - 1)]

(* The trips opened after the first `cut` fills and ended within the first n. *)
EndedBy(cut, n) == {i \in cut + 1 .. n : IsOpening(i) /\ \E j \in EndOf(i) : j <= n}
TripsOf(S) == [n \in 1 .. Cardinality(S) |-> TripOf(Nth(S, n))]

(* No position twice within a millisecond. *)
Distinct ==
  \A i, j \in 1 .. Len(fills) :
    i < j /\ fills[i].ms = fills[j].ms => fills[i].start # fills[j].start /\ fills[i].start # fills[j].end

(* Stored from some fill on, everything. *)
StoredFrom(cut) == \A i \in 1 .. Len(fills) : fills[i].stored <=> i > cut

TripsFromCut ==
  \A cut \in 0 .. Len(fills) :
    Distinct /\ StoredFrom(cut) => BuildTrips(Stored) = TripsOf(EndedBy(cut, Len(fills)))

GapsInventNoTrip ==
  LET built == BuildTrips(Stored) IN
  \A n \in 1 .. Len(built) :
    /\ \E i \in 1 .. Len(fills) : IsOpening(i) /\ fills[i].ms = built[n].open /\ SideOf(fills[i].end) = built[n].side
    /\ \E j \in 1 .. Len(fills) : IsEnding(j) /\ fills[j].ms = built[n].close

(* From a history stored from some fill on, the trips built are those that   *)
(* opened in it, whatever order the ids put the fills of a millisecond in,   *)
(* as long as no position is passed twice within one millisecond.  With fills*)
(* missing anywhere a trip still begins where one really began, on its side, *)
(* and ends where one really ended.                                          *)
TripsAreTrue == TripsFromCut /\ GapsInventNoTrip

(* The row of a trip has the side of the first that opened in its millisecond,*)
(* which the upsert never updates; the last of them has the row.             *)
Openings(ms) == {k \in 1 .. Len(fills) : IsOpening(k) /\ fills[k].ms = ms}
RowOf(i) == [TripOf(i) EXCEPT !.side = SideOf(fills[Min(Openings(fills[i].ms))].end)]
RowsOf(S) == {RowOf(i) : i \in {k \in S : \A l \in S : fills[l].ms = fills[k].ms => l <= k}}

(* With everything stored, the rows are the account's trips up to the last    *)
(* written however the two writers take turns, none left out but one: of     *)
(* trips opened in one millisecond the row keeps the last, with the side of  *)
(* the first, which the upsert never updates.                                *)
RowsAreTrips ==
  Distinct /\ StoredFrom(0) =>
    written = RowsOf({i \in EndedBy(0, Len(fills)) : TripOf(i).close <= LastClose})

(* The round trips: built right from what is stored, and their rows right     *)
(* from whichever writer.                                                    *)
TripsHold == TripsAreTrue /\ RowsAreTrips
=============================================================================
