---------------------------- MODULE FillHistory ----------------------------
(***************************************************************************)
(* The stored history of ONE account's fills (hl_fills) and its cursor     *)
(* (wallet_identity.fills_cursor_ms).  Two processes read the venue from   *)
(* the cursor on and move it: the daily job page by page (featured/jobs.py,*)
(* ingest_fills), the trades feed with one page when a position closed     *)
(* (hl_trades_feed.py, featured_close_trip).  The venue serves the oldest  *)
(* fills of a window first, a page at most, and shows a fill with a delay. *)
(* Times are milliseconds; what a fill says beside its time is left out.   *)
(***************************************************************************)
EXTENDS Integers, SequencesExt, FiniteSetsExt

CONSTANTS
  PageSize, PagesMax,     \* 2,000 and 60 in the code
  FirstWindow, FeedWindow,  \* how far back a read without a cursor goes: 90 and 7 days
  Margin,                 \* below now, the cursor of an account with no fill: a minute
  Ahead,                  \* how far past now the feed asks: a second
  MaxClock, MaxHistory    \* bounds: time, fills

ASSUME HistoryConstants ==
  /\ {PageSize, PagesMax, Margin} \subseteq Nat \ {0}
  /\ {FirstWindow, FeedWindow, Ahead, MaxClock, MaxHistory} \subseteq Nat /\ Margin < MaxClock

VARIABLES
  clock,
  timeline,   \* the times of the fills, in the order they were made
  indexed,   \* how many of them the venue shows
  kept,      \* those with a row in hl_fills
  cursor,    \* fills_cursor_ms, NoCursor before the first read
  job,       \* ingest_fills
  tripRead,  \* featured_close_trip
  since      \* ghost: where the shortest read without a cursor began

historyVars == <<clock, timeline, indexed, kept, cursor, job, tripRead, since>>

NoCursor == 0
NoJob == [pc |-> "idle", from |-> 0, start |-> 0, upTo |-> 0, last |-> NoCursor, first |-> FALSE, pages |-> 0]
NoTripRead == [pc |-> "idle", cur |-> NoCursor, start |-> 0, upTo |-> 0]

(* The types: every time is past, no row without its fill, no page past the cap. *)
HistoryTypeOK ==
  /\ clock \in Margin + 1 .. MaxClock
  /\ timeline \in Seq(1 .. clock) /\ Len(timeline) <= MaxHistory
  /\ indexed \in 0 .. Len(timeline) /\ kept \subseteq 1 .. indexed
  /\ {cursor, job.last, tripRead.cur, since} \subseteq 0 .. clock
  /\ job.pc \in {"idle", "turn", "page", "write"} /\ job.pages \in 0 .. PagesMax
  /\ job.first \in BOOLEAN /\ {job.from, job.start, job.upTo, tripRead.start} \subseteq 0 .. clock + 1
  /\ tripRead.upTo \in 0 .. clock + Ahead
  /\ tripRead.pc \in {"idle", "read"}

HistoryInit ==
  /\ clock = Margin + 1 /\ timeline = <<>> /\ indexed = 0
  /\ kept = {} /\ cursor = NoCursor /\ since = 0
  /\ job = NoJob /\ tripRead = NoTripRead

-----------------------------------------------------------------------------
(* The venue: fills of one millisecond follow one another, and one made more *)
(* than the margin ago is shown.                                             *)
HistoryGrows ==
  /\ Len(timeline) < MaxHistory
  /\ timeline' = Append(timeline, clock)
  /\ UNCHANGED <<clock, indexed, kept, cursor, job, tripRead, since>>

FillShown ==
  /\ indexed < Len(timeline) /\ indexed' = indexed + 1
  /\ UNCHANGED <<clock, timeline, kept, cursor, job, tripRead, since>>

HistoryTick ==
  /\ clock < MaxClock /\ clock' = clock + 1
  /\ \A i \in indexed + 1 .. Len(timeline) : timeline[i] > clock' - Margin
  /\ UNCHANGED <<timeline, indexed, kept, cursor, job, tripRead, since>>

Within(start, upTo) == {i \in 1 .. indexed : start <= timeline[i] /\ timeline[i] <= upTo}
(* userFillsByTime: the oldest of the window, a page of them. *)
PageOf(start, upTo) ==
  {i \in Within(start, upTo) : Cardinality({k \in Within(start, upTo) : k < i}) < PageSize}
Newest(page, known) == Max({timeline[i] : i \in page} \cup {known})

StartOf(cur, window) == IF cur # NoCursor THEN cur + 1 ELSE IF clock > window THEN clock - window ELSE 0

-----------------------------------------------------------------------------
(* The wallet's turn begins with its cursor, ... *)
JobStart ==
  /\ job.pc = "idle"
  /\ job' = [NoJob EXCEPT !.pc = "turn", !.last = cursor, !.first = (cursor = NoCursor)]
  /\ UNCHANGED <<clock, timeline, indexed, kept, cursor, tripRead, since>>

(* ... and ingest_fills pages from there up to now. *)
JobTurn ==
  /\ job.pc = "turn"
  /\ LET from == StartOf(job.last, FirstWindow)
     IN job' = [job EXCEPT !.pc = "page", !.from = from, !.start = from, !.upTo = clock]
  /\ UNCHANGED <<clock, timeline, indexed, kept, cursor, tripRead, since>>

(* A page is stored before the next one is asked for; a short page or the cap
   is the last. *)
JobPage ==
  /\ job.pc = "page"
  /\ LET page == PageOf(job.start, job.upTo)
         last == Newest(page, job.last)
         full == Cardinality(page) = PageSize
     IN /\ kept' = kept \cup page
        /\ job' = [job EXCEPT !.pc = IF full /\ job.pages + 1 < PagesMax THEN "page" ELSE "write",
                              !.start = IF full THEN last + 1 ELSE @,
                              !.last = last, !.pages = @ + 1]
  /\ UNCHANGED <<clock, timeline, indexed, cursor, tripRead, since>>

(* A read that failed after its retries, or a restart: the pages stay, the
   cursor does not move (one before the first page leaves nothing behind). *)
JobFails ==
  /\ job.pc \in {"page", "write"} /\ job' = NoJob
  /\ UNCHANGED <<clock, timeline, indexed, kept, cursor, tripRead, since>>

(* Mutants: the cursor is the time of the read; it is kept back by the cap. *)
CursorAtRead == job.upTo
CursorUnlessCapped == IF job.pages = PagesMax THEN cursor ELSE job.last
(* The newest fill read; an account with none is not read from the start again. *)
CursorRead == IF job.last = NoCursor THEN job.upTo - Margin ELSE job.last

JobWrite ==
  /\ job.pc = "write"
  /\ cursor' = CursorRead
  /\ since' = (IF job.first /\ job.from > since THEN job.from ELSE since)
  /\ job' = NoJob
  /\ UNCHANGED <<clock, timeline, indexed, kept, tripRead>>

-----------------------------------------------------------------------------
(* featured_close_trip: the cursor, then one page from it, whose rows and
   cursor are one transaction. *)
TripReadStart ==
  /\ tripRead.pc = "idle"
  /\ tripRead' = [pc |-> "read", cur |-> cursor, start |-> StartOf(cursor, FeedWindow), upTo |-> clock + Ahead]
  /\ UNCHANGED <<clock, timeline, indexed, kept, cursor, job, since>>

(* Mutant: the cursor is the time of the read. *)
FeedCursorAtRead(newest) == clock
(* GREATEST: the feed never moves the cursor back. *)
FeedCursor(newest) == Max({cursor, newest})

TripRead ==
  /\ tripRead.pc = "read"
  /\ LET page == PageOf(tripRead.start, tripRead.upTo)
         newest == Newest(page, tripRead.cur)
     IN /\ kept' = kept \cup page
        /\ cursor' = FeedCursor(newest)
        /\ since' = IF tripRead.cur = NoCursor /\ page # {} /\ tripRead.start > since THEN tripRead.start ELSE since
  /\ tripRead' = NoTripRead
  /\ UNCHANGED <<clock, timeline, indexed, job>>

TripReadFails ==
  /\ tripRead.pc = "read" /\ tripRead' = NoTripRead
  /\ UNCHANGED <<clock, timeline, indexed, kept, cursor, job, since>>

HistoryNext ==
  \/ HistoryGrows \/ FillShown \/ HistoryTick
  \/ JobStart \/ JobTurn \/ JobPage \/ JobFails \/ JobWrite
  \/ TripReadStart \/ TripRead \/ TripReadFails

HistorySpec == HistoryInit /\ [][HistoryNext]_historyVars

-----------------------------------------------------------------------------
(* A fill counts as found when a row shares its millisecond: the next read    *)
(* starts a millisecond later.                                               *)
Found(i) == \E k \in kept : timeline[k] = timeline[i]

(* No fill is left behind the cursor: whatever pages fail, however the job    *)
(* and the feed overlap and move the cursor past each other, a fill at or    *)
(* below it has its row.  The code leaves out those that share their         *)
(* millisecond with a row (a page that ends inside it, a fill shown late)    *)
(* and those before the window of the first read, seven days when the feed   *)
(* came before the job.                                                      *)
NoneLeftBehind ==
  \A i \in 1 .. Len(timeline) :
    since <= timeline[i] /\ timeline[i] <= cursor => Found(i)

(* A fill that the venue shows has no row yet. *)
Behind == \E i \in 1 .. indexed : since <= timeline[i] /\ ~Found(i)

(* Once the account rests its history gets complete, however often the cap on *)
(* pages or a failed read cuts a pass of the job short.                      *)
HistoryFills == Behind ~> ~Behind
=============================================================================
