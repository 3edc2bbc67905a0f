------------------------------ MODULE LeaderFeed ------------------------------
(***************************************************************************)
(* The real-time feed of one leader's fills: the websocket tier of         *)
(* services/hyperliquid/tracker.py.  Fills, drops, silence, reconnects,    *)
(* gap recoveries and a restart of the process come in any order.  Times   *)
(* are kept as sets: `old` are the fills made before _drop_ms less the     *)
(* margin.  The venue sends the snapshot first on every subscription.      *)
(***************************************************************************)
EXTENDS Integers, FiniteSets

CONSTANTS
  Fills,           \* what the leader trades, by its tid
  KeyOf(_),        \* unique_event_key of a fill: neither tid nor time are in it
  Recoveries,      \* gap recoveries in flight: bound
  MaxDrops,        \* lost connections, restarts included: bound
  MaxFails         \* REST reads that fail: bound

VARIABLES
  made,        \* fills the leader made
  link,        \* [st, silent, snap, queue]: the connection, what it still carries
  seen,        \* _seen_tids
  drop,        \* [known, old, gap, since]: _drop_ms and _live_tier; gap_since of the connection
  recovery,    \* _gap_recover tasks: the fills held back or read, `since`
  recorded,    \* leader_trade_events: the keys
  handed,      \* engine.on_leader_event tasks started for a fill
  bad,         \* drops and failures so far
  history,     \* ghost: the fills of this process's first snapshot
  missed,      \* ghost: fills no frame brought or can still bring
  excused      \* ghost: fills the gaps of the code pass over, see NothingLost

feedVars == <<made, link, seen, drop, recovery, recorded, handed, bad, history, missed, excused>>

NoTask == [st |-> "none"]
Down == [st |-> "down", silent |-> FALSE, snap |-> {}, queue |-> {}]

(* The types of the feed. *)
FeedTypeOK ==
  /\ made \subseteq Fills /\ seen \subseteq Fills /\ recorded \subseteq {KeyOf(f) : f \in Fills}
  /\ link \in [st : {"down", "up", "live"}, silent : BOOLEAN, snap : SUBSET Fills, queue : SUBSET Fills]
  /\ drop \in [known : BOOLEAN, old : SUBSET Fills, gap : BOOLEAN, since : SUBSET Fills]
  /\ recovery \in [Recoveries -> [st : {"read", "emit"}, since : SUBSET Fills, got : SUBSET Fills]
                                 \cup {NoTask}]
  /\ handed \in [Fills -> Nat]

FeedInit ==
  /\ made = {} /\ link = Down /\ seen = {}
  /\ drop = [known |-> FALSE, old |-> {}, gap |-> FALSE, since |-> {}]
  /\ recovery = [r \in Recoveries |-> NoTask]
  /\ recorded = {} /\ handed = [f \in Fills |-> 0]
  /\ bad = [drops |-> 0, fails |-> 0]
  /\ history = {} /\ missed = {} /\ excused = {}

-----------------------------------------------------------------------------
(* The leader and the venue. *)
Trade(f) ==
  LET heard == link.st # "down" /\ ~link.silent IN
  /\ f \notin made
  /\ made' = made \cup {f}
  /\ link' = IF heard THEN [link EXCEPT !.queue = @ \cup {f}] ELSE link
  /\ missed' = IF heard THEN missed ELSE missed \cup {f}
  /\ UNCHANGED <<seen, drop, recovery, recorded, handed, bad, history, excused>>

(* The connection dies unnoticed: no frame comes any more. *)
FallSilent ==
  /\ link.st # "down" /\ ~link.silent
  /\ link' = [link EXCEPT !.silent = TRUE, !.queue = {}]
  /\ missed' = missed \cup link.queue
  /\ UNCHANGED <<made, seen, drop, recovery, recorded, handed, bad, history, excused>>

(* The drop is seen, by an error, by 90 s of silence or because the tier
   changed.  What a working connection still carried is within the margin;
   silence is longer than it.  A fill of an earlier gap may be too. *)
LinkDrops ==
  /\ link.st # "down" /\ bad.drops < MaxDrops
  /\ \E old \in {made \ link.queue, drop.old} :
       /\ drop' = [drop EXCEPT !.old = old]
       /\ excused' = excused \cup (old \ seen)
  /\ link' = Down
  /\ missed' = missed \cup link.queue
  /\ bad' = [bad EXCEPT !.drops = @ + 1]
  /\ UNCHANGED <<made, seen, recovery, recorded, handed, history>>

(* The process restarts: seen ids, drop time and recoveries are gone. *)
Restarts ==
  /\ bad.drops < MaxDrops
  /\ link' = Down /\ seen' = {}
  /\ drop' = [known |-> FALSE, old |-> {}, gap |-> FALSE, since |-> {}]
  /\ recovery' = [r \in Recoveries |-> NoTask]
  /\ bad' = [bad EXCEPT !.drops = @ + 1]
  /\ history' = {} /\ missed' = {f \in made : handed[f] = 0} /\ excused' = made
  /\ UNCHANGED <<made, recorded, handed>>

(* Connect and subscribe; gap_since is _drop_ms less the margin, for a leader
   that was on the last connection. *)
LinkUp ==
  /\ link.st = "down"
  /\ link' = [st |-> "up", silent |-> FALSE, snap |-> made, queue |-> {}]
  /\ drop' = [drop EXCEPT !.known = TRUE, !.gap = drop.known, !.since = drop.old]
  /\ UNCHANGED <<made, seen, recovery, recorded, handed, bad, history, missed, excused>>

-----------------------------------------------------------------------------
(* Mutant: whatever is new in a snapshot is held back, the first one too. *)
HeldAlways == {f \in link.snap \ seen : f \notin drop.since}

(* Mutant: nothing is held back, the REST read is to bring it all. *)
HeldNone == {}

(* The fills of a snapshot the gap recovery is to emit. *)
Held == IF drop.gap THEN {f \in link.snap \ seen : f \notin drop.since} ELSE {}

(* The rest of the snapshot is taken as seen; a recovery of the gap starts. *)
Snapshot ==
  /\ link.st = "up" /\ ~link.silent
  /\ link' = [link EXCEPT !.st = "live", !.snap = {}]
  /\ seen' = seen \cup (link.snap \ Held)
  /\ IF drop.gap \/ Held # {}
     THEN \E r \in Recoveries :
            /\ recovery[r] = NoTask
            /\ recovery' = [recovery EXCEPT ![r] = [st |-> "read", since |-> drop.since, got |-> Held]]
     ELSE UNCHANGED recovery
  /\ history' = IF drop.gap THEN history ELSE link.snap
  /\ UNCHANGED <<made, drop, recorded, handed, bad, missed, excused>>

(* Mutant: a recovered fill is handed over like a live one. *)
CopiedAny(source) == TRUE

Copied(source) == source = "hl_ws"

(* Mutant: an event that was there already counts as created. *)
CreatedAlways(f) == TRUE

Created(f) == KeyOf(f) \notin recorded

(* _emit_event of an auto-copied leader: the row, once per key, and the task
   of the engine. *)
Emit(f, source) ==
  /\ recorded' = recorded \cup {KeyOf(f)}
  /\ handed' = IF Created(f) /\ Copied(source) THEN [handed EXCEPT ![f] = @ + 1] ELSE handed

(* A live frame. *)
Frame(f) ==
  /\ link.st = "live" /\ f \in link.queue
  /\ link' = [link EXCEPT !.queue = @ \ {f}]
  /\ seen' = seen \cup {f}
  /\ IF f \in seen THEN UNCHANGED <<recorded, handed>> ELSE Emit(f, "hl_ws")
  /\ UNCHANGED <<made, drop, recovery, bad, history, missed, excused>>

(* The REST read of a recovery, with what was held back; it may fail. *)
GapRead(r) ==
  /\ recovery[r].st = "read"
  /\ \/ /\ recovery' = [recovery EXCEPT ![r].st = "emit", ![r].got = @ \cup (made \ recovery[r].since)]
        /\ UNCHANGED bad
     \/ /\ bad.fails < MaxFails
        /\ recovery' = [recovery EXCEPT ![r].st = "emit"]
        /\ bad' = [bad EXCEPT !.fails = @ + 1]
  /\ UNCHANGED <<made, link, seen, drop, recorded, handed, history, missed, excused>>

(* A fill of a recovery: new ones are emitted, but taken as history while the
   next connection waits for its snapshot. *)
GapEmit(r, f) ==
  LET seeding == link.st = "up" IN
  /\ recovery[r].st = "emit" /\ f \in recovery[r].got
  /\ recovery' = [recovery EXCEPT ![r].got = @ \ {f}]
  /\ seen' = seen \cup {f}
  /\ IF f \in seen \/ seeding THEN UNCHANGED <<recorded, handed>> ELSE Emit(f, "hl_ws_gap")
  /\ excused' = IF f \notin seen /\ seeding THEN excused \cup {f} ELSE excused
  /\ UNCHANGED <<made, link, drop, bad, history, missed>>

GapEnds(r) ==
  /\ recovery[r].st = "emit" /\ recovery[r].got = {}
  /\ recovery' = [recovery EXCEPT ![r] = NoTask]
  /\ UNCHANGED <<made, link, seen, drop, recorded, handed, bad, history, missed, excused>>

FeedNext ==
  \/ \E f \in Fills : Trade(f) \/ Frame(f)
  \/ FallSilent \/ LinkDrops \/ Restarts \/ LinkUp \/ Snapshot
  \/ \E r \in Recoveries : GapRead(r) \/ GapEnds(r) \/ \E f \in Fills : GapEmit(r, f)

FeedSpec == FeedInit /\ [][FeedNext]_feedVars

-----------------------------------------------------------------------------
Quiet == link.st = "live" /\ ~link.silent /\ link.queue = {} /\ \A r \in Recoveries : recovery[r] = NoTask

(* When the feed has settled every fill made since the first snapshot of    *)
(* the process is an event row, through drops, failed reads and reconnects    *)
(* (tracker.py:8-12).  Excused are the fills the code passes over: made in  *)
(* an unnoticed silence, or in a gap whose recovery met the next drop.      *)
NothingLost == Quiet => \A f \in made \ (history \cup excused) : KeyOf(f) \in recorded

(* One event is handed to the copy engine once, whatever is delivered       *)
(* again, recovered or read after a restart.                                *)
HandedOnce ==
  \A f, g \in Fills : handed[f] <= 1 /\ (f # g /\ KeyOf(f) = KeyOf(g) => handed[f] + handed[g] <= 1)

(* A fill the leader made while no frame could come is never auto-copied:   *)
(* by then it is old (tracker.py:11-12).                                    *)
StaleNotCopied == \A f \in missed : handed[f] = 0

(* The copy engine is handed a fill at most once, and a fresh one. *)
HandedRight == HandedOnce /\ StaleNotCopied

(* What the first snapshot held stays history: it makes no event of its own *)
(* (tracker.py:7-9).                                                        *)
HistoryIsSilent ==
  [][\A f \in history :
       /\ handed'[f] = handed[f]
       /\ KeyOf(f) \in recorded' \ recorded => \E g \in made \ history : KeyOf(g) = KeyOf(f)]_feedVars
=============================================================================
