----------------------------- MODULE TradesFeed -----------------------------
(***************************************************************************)
(* The trades feed (scripts/hl_trades_feed.py), for one featured account   *)
(* and one coin: its position is read once, then followed trade by trade   *)
(* over one websocket; a read that shows the position gone has the round   *)
(* trip closed from the account's fills.  A trade is named by its number,  *)
(* which is also the venue's time: a state read has the time of the last   *)
(* trade in it.  Gather, gap, sweep and retry waits only say how late a    *)
(* read comes, which is left open; the buffer's reach (30 s or 400 trades) *)
(* and the read's 20 s are counted in trades.                              *)
(***************************************************************************)
EXTENDS Integers, SequencesExt, FiniteSetsExt

CONSTANTS
  Holdings,             \* positions the account may take, 0 among them
  ReadTrades, BufTrades,  \* trades a read may take, the buffer reaches back
  MaxTrades, MaxLost   \* bounds: trades, connections lost

ASSUME TradesConstants ==
  /\ Holdings \subseteq Int /\ 0 \in Holdings
  /\ {ReadTrades, BufTrades, MaxTrades, MaxLost} \subseteq Nat
  /\ ReadTrades <= BufTrades

VARIABLES
  book,       \* the venue: the position after each trade
  stream,     \* [st, queue]: the connection and the trades it still carries
  lost,
  szi,        \* pos_szi and pos_state_ms: known, size, ms
  posBuf,     \* pos_buf
  posDue,     \* pos_due holds a read
  posRead,    \* pos_inflight and pos_read: where it is, the state it got
  featSzi,    \* feat_szi: known, size
  closeQ,     \* close_q
  closing,    \* close_inflight and featured_close_trip
  trips,      \* round_trips: how many of the account's trips have a row
  blur,       \* ghost: the reads the gaps of the code spoil, see SizesFollowed
  shown,      \* ghost: time of the last state adopted, trips ended when one showed an end
  forgiven    \* ghost: trips ended when an end was seen while a close ran, or a close failed

posVars == <<szi, posBuf, posDue, posRead>>
tripVars == <<featSzi, closeQ, closing, trips, shown, forgiven>>
tradesVars == <<book, stream, lost, posVars, tripVars, blur>>

HeldAt(t) == IF t = 0 THEN 0 ELSE book[t]
Now == Len(book)
Delta(t) == HeldAt(t) - HeldAt(t - 1)
Ends(t) == HeldAt(t - 1) # 0 /\ HeldAt(t - 1) * HeldAt(t) <= 0
Ended(t) == Cardinality({i \in 1 .. t : Ends(i)})

UnknownSize == [known |-> FALSE, size |-> 0, ms |-> 0]
NoRead == [pc |-> "idle", ms |-> 0, again |-> FALSE]
NoClose == [pc |-> "idle", upTo |-> 0]

(* The types.                                                               *)
TradesTypeOK ==
  /\ book \in Seq(Holdings) /\ Now <= MaxTrades
  /\ stream \in [st : {"down", "up", "subscribed"}, queue : Seq(1 .. Now)]
  /\ lost \in 0 .. MaxLost
  /\ szi \in [known : BOOLEAN, size : Int, ms : 0 .. Now]
  /\ posBuf \in Seq(1 .. Now)
  /\ posDue \in BOOLEAN
  /\ posRead \in [pc : {"idle", "asked", "answered", "writing"}, ms : 0 .. Now, again : BOOLEAN]
  /\ featSzi \in [known : BOOLEAN, size : Int]
  /\ closeQ \in Seq(1 .. Now)
  /\ closing \in [pc : {"idle", "waiting", "read"}, upTo : 0 .. Now]
  /\ trips \in 0 .. Now
  /\ blur \subseteq {"sizes", "read"}
  /\ shown \in [ms : 0 .. Now, ended : 0 .. Now] /\ forgiven \in 0 .. Now

TradesInit ==
  /\ book = <<>> /\ stream = [st |-> "down", queue |-> <<>>] /\ lost = 0
  /\ szi = UnknownSize /\ posBuf = <<>> /\ posDue = FALSE /\ posRead = NoRead
  /\ featSzi = [known |-> FALSE, size |-> 0]
  /\ closeQ = <<>> /\ closing = NoClose /\ trips = 0
  /\ blur = {} /\ shown = [ms |-> 0, ended |-> 0] /\ forgiven = 0

-----------------------------------------------------------------------------
(* The venue: a trade of the account reaches the feed when the coin is     *)
(* subscribed; a new subscription brings the coin's last trades.           *)
TradeMade ==
  /\ Now < MaxTrades
  /\ \E size \in Holdings \ {HeldAt(Now)} : book' = Append(book, size)
  /\ stream' = IF stream.st = "subscribed" THEN [stream EXCEPT !.queue = Append(@, Now + 1)] ELSE stream
  /\ UNCHANGED <<lost, posVars, tripVars, blur>>

(* The frames on their way are gone with the connection. *)
StreamDrop ==
  /\ stream.st # "down" /\ lost < MaxLost
  /\ stream' = [st |-> "down", queue |-> <<>>] /\ lost' = lost + 1
  /\ UNCHANGED <<book, posVars, tripVars, blur>>

(* A state read before the connection is up is not forgotten with the sizes:
   it comes in after them. *)
Spoilt == IF posRead.pc = "answered" THEN {"read"} ELSE {}

(* Mutant: the sizes known before the connection was lost are kept. *)
StreamUpKeeps ==
  /\ stream.st = "down"
  /\ stream' = [stream EXCEPT !.st = "up"] /\ blur' = Spoilt
  /\ UNCHANGED <<book, lost, posVars, tripVars>>
StreamUp ==
  /\ stream.st = "down"
  /\ stream' = [stream EXCEPT !.st = "up"] /\ blur' = Spoilt
  /\ szi' = UnknownSize
  /\ UNCHANGED <<book, lost, posBuf, posDue, posRead, tripVars>>

(* sync_subscriptions comes to the coin; the snapshot holds the coin's last
   trades, of the account's own any last few: trades made since a state was
   read may be in no frame. *)
Subscribe ==
  /\ stream.st = "up"
  /\ \E from \in 1 .. Now + 1 :
       /\ stream' = [st |-> "subscribed", queue |-> [i \in 1 .. Now + 1 - from |-> from + i - 1]]
       /\ blur' = blur \cup (IF szi.known /\ szi.ms < from - 1 THEN {"sizes"} ELSE {})
                       \cup (IF posRead.pc = "answered" /\ posRead.ms < from - 1 THEN {"read"} ELSE {})
  /\ UNCHANGED <<book, lost, posVars, tripVars>>

-----------------------------------------------------------------------------
Size(n) == IF n < 0 THEN -n ELSE n

(* _apply: the new size, and whether the open count or a side may change. *)
Tells(before, d) ==
  LET after == before + d IN
  \/ (before = 0) # (after = 0)
  \/ before * after < 0
  \/ Size(after) < Size(before) /\ Size(after) <= Size(d)

(* The buffer is rid of what is too old when its first trade is. *)
Kept(buf, from) == FoldLeft(LAMBDA s, x : IF x >= from THEN Append(s, x) ELSE s, <<>>, buf)
Buffered(t) ==
  LET buf == Append(posBuf, t) IN
  IF Head(buf) < t - BufTrades THEN Kept(buf, t - BufTrades) ELSE buf

(* pos_trade.  A trade that comes while a read is being written is neither
   applied nor replayed any more. *)
PosTrade(onProfile) ==
  LET t == Head(stream.queue) IN
  /\ stream.queue # <<>>
  /\ stream' = [stream EXCEPT !.queue = Tail(@)]
  /\ posBuf' = Buffered(t)
  /\ IF posRead.pc # "idle"
     THEN UNCHANGED <<szi, posDue>> /\ blur' = IF posRead.pc = "writing" /\ szi.known THEN {"sizes"} ELSE blur
     ELSE /\ UNCHANGED blur
          /\ IF ~szi.known THEN posDue' = TRUE /\ UNCHANGED szi
             ELSE IF t <= szi.ms THEN UNCHANGED <<szi, posDue>>
             ELSE /\ szi' = [szi EXCEPT !.size = @ + Delta(t)]
                  /\ posDue' = (posDue \/ onProfile \/ Tells(szi.size, Delta(t)))
  /\ UNCHANGED <<book, lost, posRead, tripVars>>

(* Mutant: the sweep reads only what is not known. *)
PosSweepNew ==
  /\ ~posDue /\ posRead.pc = "idle" /\ ~szi.known
  /\ posDue' = TRUE
  /\ UNCHANGED <<book, stream, lost, szi, posBuf, posRead, tripVars, blur>>
(* pos_sweep_loop: the account is on screen. *)
PosSweep ==
  /\ ~posDue /\ posRead.pc = "idle"
  /\ posDue' = TRUE
  /\ UNCHANGED <<book, stream, lost, szi, posBuf, posRead, tripVars, blur>>

(* pos_loop starts the read: its task marks the account in flight. *)
PosTake ==
  /\ posDue /\ posRead.pc = "idle"
  /\ posDue' = FALSE /\ posRead' = [NoRead EXCEPT !.pc = "asked"]
  /\ UNCHANGED <<book, stream, lost, szi, posBuf, tripVars, blur>>

(* The venue answers with the state as it is now. *)
StateRead ==
  /\ posRead.pc = "asked"
  /\ posRead' = [posRead EXCEPT !.pc = "answered", !.ms = Now]
  /\ blur' = blur \ {"read"}
  /\ UNCHANGED <<book, stream, lost, szi, posBuf, posDue, tripVars>>

(* An error or a 429: the sizes are forgotten; a 429 keeps the account in
   flight for 10 s more, as the write of a row does. *)
StateReadFails ==
  /\ posRead.pc \in {"asked", "answered"}
  /\ szi' = UnknownSize
  /\ \E pc \in {"idle", "writing"} : posRead' = [NoRead EXCEPT !.pc = pc]
  /\ UNCHANGED <<book, stream, lost, posBuf, posDue, tripVars, blur>>

(* Mutants of the replay: of no trade, of every trade in the buffer. *)
ReplayedNone(t, ms) == FALSE
ReplayedAll(t, ms) == TRUE
Replayed(t, ms) == t > ms

(* The size after the state of a time and the first i trades of the buffer. *)
SizeAfter(ms, i) ==
  HeldAt(ms) + SumFunction([j \in 1 .. i |-> IF Replayed(posBuf[j], ms) THEN Delta(posBuf[j]) ELSE 0])

(* Mutant: the flat check compares with the followed sizes, as it once did. *)
FlatOfFollowed(size) ==
  szi.known /\ szi.size # 0 /\ (size = 0 \/ szi.size * size < 0)
FlatSeen(size) ==
  featSzi.known /\ featSzi.size # 0 /\ (size = 0 \/ featSzi.size * size < 0)

(* featured_positions: a position seen gone or flipped is queued to be closed,
   unless a close of it runs. *)
FeaturedPositions(ms) ==
  /\ closeQ' = IF FlatSeen(HeldAt(ms)) /\ closing.pc = "idle" THEN Append(closeQ, ms) ELSE closeQ
  /\ featSzi' = [known |-> TRUE, size |-> HeldAt(ms)]
  /\ shown' = [ms |-> ms, ended |-> IF HeldAt(shown.ms) # 0 /\ HeldAt(shown.ms) * HeldAt(ms) <= 0
                                    THEN Ended(ms) ELSE shown.ended]
  /\ forgiven' = IF closing.pc = "idle" THEN forgiven ELSE Ended(ms)
  /\ UNCHANGED <<closing, trips>>

(* The rest of pos_read up to the write: the state is taken over, and the
   trades newer than it are applied on top. *)
Adopt ==
  LET ms == posRead.ms IN
  /\ posRead.pc = "answered"
  /\ Now - ms <= ReadTrades
  /\ FeaturedPositions(ms)
  /\ szi' = [known |-> TRUE, size |-> SizeAfter(ms, Len(posBuf)), ms |-> ms]
  /\ posRead' = [pc |-> "writing", ms |-> 0,
                 again |-> \E i \in 1 .. Len(posBuf) : /\ Replayed(posBuf[i], ms)
                                                      /\ Tells(SizeAfter(ms, i - 1), Delta(posBuf[i]))]
  /\ blur' = IF "read" \in blur THEN {"sizes"} ELSE {}
  /\ UNCHANGED <<book, stream, lost, posBuf, posDue>>

(* The row is written or not; the account is in flight no more. *)
PosDone ==
  /\ posRead.pc = "writing"
  /\ posRead' = NoRead /\ posDue' = (posDue \/ posRead.again)
  /\ UNCHANGED <<book, stream, lost, szi, posBuf, tripVars, blur>>

-----------------------------------------------------------------------------
(* featured_close_loop: one close at a time. *)
CloseTake ==
  /\ closing.pc = "idle" /\ closeQ # <<>>
  /\ closeQ' = Tail(closeQ) /\ closing' = [NoClose EXCEPT !.pc = "waiting"]
  /\ UNCHANGED <<book, stream, lost, posVars, featSzi, trips, shown, forgiven, blur>>

(* Mutant: the fills are read up to the last trip's end only. *)
CloseReadShort ==
  /\ closing.pc = "waiting"
  /\ closing' = [pc |-> "read", upTo |-> Now - 1]
  /\ Now > 0 /\ UNCHANGED <<book, stream, lost, posVars, featSzi, closeQ, trips, shown, forgiven, blur>>
(* featured_close_trip has the fills of the account up to now: one page of
   them, which FillHistory follows. *)
CloseRead ==
  /\ closing.pc = "waiting"
  /\ closing' = [pc |-> "read", upTo |-> Now]
  /\ UNCHANGED <<book, stream, lost, posVars, featSzi, closeQ, trips, shown, forgiven, blur>>

(* The trips in them that ended after the last one stored get their rows. *)
CloseStore ==
  /\ closing.pc = "read"
  /\ trips' = (IF Ended(closing.upTo) > trips THEN Ended(closing.upTo) ELSE trips)
  /\ closing' = NoClose
  /\ UNCHANGED <<book, stream, lost, posVars, featSzi, closeQ, shown, forgiven, blur>>

(* Any read or write of it may fail: it is not tried again. *)
CloseFails ==
  /\ closing.pc # "idle"
  /\ closing' = NoClose /\ forgiven' = shown.ended
  /\ UNCHANGED <<book, stream, lost, posVars, featSzi, closeQ, trips, shown, blur>>

TradesNext ==
  \/ TradeMade \/ StreamDrop \/ StreamUp \/ Subscribe
  \/ (\E onProfile \in BOOLEAN : PosTrade(onProfile))
  \/ PosSweep \/ PosTake \/ StateRead \/ StateReadFails \/ Adopt \/ PosDone
  \/ CloseTake \/ CloseRead \/ CloseStore \/ CloseFails

TradesSpec == TradesInit /\ [][TradesNext]_tradesVars

-----------------------------------------------------------------------------
(* Whatever the gaps leave wrong, the sweep reads the account again: from     *)
(* any subscription on, the size known becomes the account's.                *)
SizesHeal == stream.st = "subscribed" ~> szi.known /\ szi.size = HeldAt(Now)

(* With nothing on its way the size the feed follows is the account's: no    *)
(* trade is counted twice or left out by a read in flight, a late state or a *)
(* new connection.  The code leaves three gaps, marked by blur: a trade that *)
(* comes while the row is written (the guard of pos_trade says it will be    *)
(* replayed), a state read before a reconnect and taken over after it, and   *)
(* trades between a state and the subscription that the snapshot no longer   *)
(* holds.                                                                    *)
SizesFollowed ==
  stream.st = "subscribed" /\ stream.queue = <<>> /\ posRead.pc = "idle" /\ szi.known /\ "sizes" \notin blur
  => szi.size = HeldAt(Now)

(* A read that shows a position gone has its round trips stored, however      *)
(* many trades came since the read before: their close is queued, under way  *)
(* or done, unless it failed or another close ran when the end was seen.     *)
EndsAreClosed ==
  shown.ended <= trips \/ closeQ # <<>> \/ closing.pc # "idle" \/ shown.ended <= forgiven

(* The feed follows the account: its size while trades and reads cross, and   *)
(* the end of each of its positions.                                         *)
FeedFollows == SizesFollowed /\ EndsAreClosed
=============================================================================
