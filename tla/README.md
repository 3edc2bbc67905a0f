# SMIndex in TLA+

SMIndex is a FastAPI backend (src/backend/app) and a React frontend around the perpetuals
venues Perpl and Hyperliquid. It follows leaders, tells people what they do, and, the part
that moves money, **auto-copies** their trades: an event of a leader seen on Hyperliquid
becomes market orders on the follower's Perpl account, with nobody at the keyboard.
That path is the core of this project. Around it stand the services whose state machines are
as hard to test: the trading session, the live and the paper copies, the feeds, the alerts,
the cache, the rate budget, the paper strategies and the history of fills.

Contents: [inventory](#inventory) · [modules](#modules-and-code) · [properties](#properties) ·
[runs](#runs) · [bounds](#bounds-and-why-they-are-enough) · [fairness](#fairness) ·
[proofs](#proofs) · [what the runs refute](#what-the-violation-runs-show) ·
[other behaviours](#behaviours-seen-that-no-run-states) · [not modelled](#not-modelled) · [plan](#plan)

## Inventory

Paths are relative to `src/backend/app` unless they say otherwise. The last column names the
module that models the component; `PROJECT.json` lists every component with its sources.

| Component | State | Operations | Hard part | What makes it correct | Modelled by |
|---|---|---|---|---|---|
| auto-copy engine (`services/copy_auto/engine.py`, `rules.py`, `schema.py`) | MySQL `auto_copy_subs`, `_log`, `_positions`; in memory `_locks`, `_not_copied_seen` | `on_leader_event` → `_process` → `_claim`, `_mirror_exit`, `_mirror_entry`, `_finish`, `_check_pause` | one asyncio task per event, dozens of awaits between a read and the write that relies on it, orders that fail, fill in part or are never confirmed, crash between claim and finish | one order per action; rows = account; nothing held that the leader closed; limits | `CopyRules`, `CopyState`, `CopyEngine`, `AutoCopy`, `MirrorOnce` |
| auto-copy reconcile (`engine.py:446-503`) | none of its own | `reconcile_once` every `RECONCILE_SEC` | reads rows, reads chain, writes by id, no lock | ghosts end; nothing of the tasks is undone | `CopyReconcile` |
| auto-copy router, keys, user settings (`routers/copy_auto.py`, `keys.py`, `user_settings.py`) | the same tables | create, patch, delete, pause all, master switch, key delete | concurrent with tasks that took their copy of the subscription earlier | paused means closes only; one mode per open position | `CopyRouter` |
| Perpl trading session (`perpl_ws.py`, `executor.py`) | request counter, waiters and reader per socket; `_traders` per user | connect, `next_rq`, `_send`, `_read`, `_call` | shared socket, timeouts, a resend, refused ids, sockets that close under other calls | an order executes once, a fill is reported to its own call, calls end | `PerplSession` |
| Hyperliquid tracker (`services/hyperliquid/tracker.py`, `services/copy/leader_events.py`) | `leader_events` with a unique key, per-wallet baselines, seen ring | classify a fill, record, hand over; gap recovery; polling tier | reconnects, gaps, duplicates, silence, restarts | each fill one event, each event handed over once, history silent | `LeaderFeed` (websocket tier) |
| Hyperliquid client (`services/hyperliquid/client.py`) | weight window per minute, breakers | admit by class, count extra weight | critical requests past the ceiling, cost known only afterwards | no starvation, the background never eats the reserve | `HlBudget` |
| live manual copies (`services/copy/live_orders.py`, `live_positions.py`, `venue_reconcile.py`, the frontend's trading client) | `copy_orders`, `copy_live_positions` | attempt, result from the browser, expiry, venue sweep | three writers of one status, lost and late reports | a report stands; the sweep detaches only what is gone | `LiveCopy` |
| paper copies (`services/copy/paper_engine.py`, `positions.py`, `subscriptions.py`) and the trader tracker (`services/trader_tracker.py`) | `_snapshots`, `leader_trade_events`, `copy_orders`, `copy_paper_positions` | poll, difference, event, engine, subscription by subscription | failed polls, event keys that collide, a follower's pause in the middle | only real changes announced; a row stands where its leader stands | `PaperCopy` |
| Telegram queue, alerts, strategy outbox (`services/telegram_queue.py`, `services/alerts/`, `strat_outbox.py`) | bounded queue, recent keys, alert log, digest, outbox rows | enqueue, deliver, retry, report, drain | repeat of an alert while the first is on its way, full queue, failed delivery, crash | one message of an alert at a time; the log tells the truth | `Notify` |
| response cache (`utils/resp_cache.py`) | entries with in-flight builds | get, peek, invalidate, evict, refresh | invalidation and eviction of an entry in flight | single flight; nothing expired or invalidated is served | `RespCache` |
| strategy engine: risk and trades (`strategy_engine/risk`, `execution/manager.py`, `model_runner.py`) | `strat_trades`, `strat_risk_state`, kill switches; a model trade's parts, stop and tape | route, manage, pause, cap, kill, re-arm; quote, fill, targets, stops | state overwritten at each exit, restarts, several targets hit in a cycle | the strategies' limits; a barred strategy stays out; parts add up, stops only tighten | `PaperRisk`, `ModelTrade` |
| trades feed (`scripts/hl_trades_feed.py`) | sizes by account and coin, buffer of trades, reads in flight, closes due | follow, read, take over, replay, close the round trip | trades and reads cross, reconnects | size and ends follow the account | `TradesFeed`, `FillHistory` |
| featured: round trips and fill history (`services/featured/roundtrips.py`, `jobs.py`) | `hl_fills`, its cursor, `round_trips` | ingest page by page, build trips, rebuild | two writers of the cursor and of the trips, order within a millisecond, missing fills | no fill left behind the cursor; no trip invented | `FillHistory`, `RoundTrips` |
| browser feeds and proxies (`ws/`, `services/ws_manager.py`) | subscriptions per client | subscribe, fan out, reconnect | slow and vanished clients | no client blocks another | — |
| MCP server (`mcp/`) | rate windows | stage (a signature), execute in the browser | — | — | — |
| analytics, read models, statistics trackers, profiles | derived tables | batch jobs | none that is protocol | numeric | — |
| database, auth, application wiring, frontend | — | — | — | — | — |

How they interact on the core path:

    Hyperliquid ws ──fill──▶ tracker ──leader_events row──▶ create_task(on_leader_event)
                                                                │  per-subscription lock
              router ──▶ auto_copy_subs ──read before the lock──▶│
                                                                ▼
         auto_copy_log (UNIQUE claim) ◀── engine ──▶ auto_copy_positions ◀── reconcile loop
                                            │                                   │
                                            ▼                                   ▼
                              executor/_traders ─▶ PerplTrader ─▶ Perpl      chain reader

Around it: `trader_tracker` feeds the paper engine in its own task; alerts of all of them and
the strategies' outbox meet in the Telegram queue; the daily job and the trades feed share the
stored fills and their cursor; every Hyperliquid read but the websockets passes the client's
budget. Apart from these meetings, each of which is inside one module, the services share no
state.

## Modules and code

| Module | Lines of code it stands for | What it is |
|---|---|---|
| `CopyRules` | `rules.py`, `tracker._classify_fill` | the pure rules: what a move of the leader is, how an event splits into actions, how much of our position follows |
| `CopyState` | `schema.py`, `_held`, `_finish` | the tables, the memory, the account and the event tasks as variables, and the helpers on them |
| `CopyEngine` | `engine.py:36-437` | one action for each stretch of the task's code between two awaits |
| `CopyReconcile` | `engine.py:446-503` | the sweep in three steps: rows, chain, writes |
| `CopyRouter` | `routers/copy_auto.py:226-356`, `user_settings.py` | the calls that change a subscription |
| `AutoCopy` | — | the composition, with the leader, the account's own moves and the restart; all properties of auto-copy; the refinement mapping to `MirrorOnce` |
| `MirrorOnce` | `engine.py:5-16` promises it | the abstract specification: an action is decided once, sends one order, its position is booked once and ends for good |
| `PerplSession` | `perpl_ws.py`, `executor.py` | order calls of one user sharing sockets, and the venue as the code uses it |
| `RespCache` | `utils/resp_cache.py` | one key: entries, the lock of a build, invalidation, eviction, the warmer |
| `HlBudget` | `hyperliquid/client.py` | admission of requests of three classes into a window of weight, breakers |
| `Notify` | `alerts/gateway.py`, `strat_outbox.py`, `telegram_queue.py` | two senders, the outbox drain, the queue and its worker, for one chat |
| `LiveCopy` | `live_orders.py`, `live_positions.py`, `venue_reconcile.py`, `routers/copy.py`, the browser's client | attempts, reports, rows and sweep of one follower on one market |
| `PaperRisk` | `risk/engine.py`, `execution/manager.py`, parts of `evaluator.py`, `seed.py` | trades of strategies and models under the risk rules |
| `ModelTrade` | `model_runner.py` | one trade of a model from quote to last exit |
| `LeaderFeed` | the websocket tier of `hyperliquid/tracker.py` | one leader's fills through drops, silence, snapshots, gap reads and restarts |
| `TradesFeed` | `scripts/hl_trades_feed.py` | one featured account on one coin |
| `RoundTrips` | `featured/roundtrips.py` | trips from stored fills, and their two writers |
| `FillHistory` | `featured/jobs.py`, `featured_close_trip` of the feed | stored fills and their cursor under two writers |
| `PaperCopy` | `trader_tracker.py`, `copy/paper_engine.py`, `positions.py` | a Perpl leader polled, and copied on paper |
| `MCAutoCopy` | — | symmetry for the runs of auto-copy |
| `MCServices`, `MCProgress` | — | the services next to each other, for safety and for liveness |
| `SetLemmas`, `FoldLemmas` | — | lemmas about sums, least and greatest elements; about a fold over a sequence |
| `CopyRowsProofs`, `CopyVenueProofs` | — | theorems about `AutoCopy`: types, claims, rows, limits and legs; the account and the leader |
| `PerplSessionProofs` | — | theorems about `PerplSession` |
| `ReadSideProofs` | — | theorems about `RespCache`, `LeaderFeed`, `FillHistory`, `HlBudget`, `TradesFeed` |
| `RoundTripsProofs` | — | theorems about `RoundTrips` |
| `ServicesProofs` | — | theorems about `PaperCopy`, `LiveCopy`, `PaperRisk`, `ModelTrade`, `Notify`, and about all services next to each other |

`CopyRules` and `CopyState` are at the bottom, `CopyEngine`, `CopyReconcile` and `CopyRouter`
each EXTEND `CopyState`, `AutoCopy` EXTENDS those three. `PerplSession` stands alone: what it
leaves of a call (filled, failed, unconfirmed) is what `CopyEngine!Outcomes` offers the engine,
so the two meet at that interface; in the same way what `LeaderFeed` hands over is what
`AutoCopy!LeaderTrade` and `Redeliver` feed the engine. The other services share no variable
with the core or with one another. No name is defined in two of them, so that `MCServices`
extends them all.

**Correspondence of the core.** A row of `auto_copy_log` is `log[<<event, i>>]`, i the index of
the action in the event (the `{kind}:{i}` of the action key): "none" is the absence of the row,
and inserting it is the claim. A row of `auto_copy_positions` is `rows[e]`, e the event that
opened it (`open_event_id`). A task is `task[<<event, delivery>>]`: its `pc` says which await it
is at, the other fields are the local variables that survive awaits: the action's index, the
mode and status of the subscription **as read before the lock**, the held row and its size **as
read before the claim**, the executor's answer, the fill, the oids. `pos` and `legs` are the
account on the venue; an order changes them in the step that sends it and the answer is read in
a later one, so a crash in between is a crash after the fill. One follower is modelled: rows,
account and locks of two followers never meet, and a leader's event reaches each follower's
subscription in the same loop, which only delays the task.

**Data.** Sizes are integers in lots. Prices, leverage and P&L do not decide control except
through three places, which are nondeterministic: a gate on market data or balance may refuse
an entry (`May("gates")`), an exit's loss may reach the limit (`May("loss")`), a fill may be a
liquidation (`May("liquidated")`). `Allowed` lists what an instance lets happen, so that a run
asks its question without the noise of the others; no property mentions it, and the theorems
hold for every choice of it unless they say so.

**The services.** In each module a request, call, task or process has a `pc`-like field that
names the await it is at, its local variables that survive awaits are fields beside it, and a
table or an in-memory structure is a variable named after it.

- *PerplSession.* A call's `pc` follows `_call`: idle, connect (in `_trader`'s awaits), ready
  (heartbeat fresh or not), wait (in `wait_for`), answered (its future is set, it has not run
  yet), close (between `t.close()` and the `pop`), done. Sockets are FIFO in both directions. The
  venue is modelled from what the code relies on and its comments report: ids strictly above the
  last one, outside the band of residues the venue refuses, each executed at most once; it may
  not answer a repeated id, or refuse it as too low. Cancels and triggers use the same `_send` and
  are left out, as are their matchers. `Half` is 2^31 in the code; ids do not wrap (Python).
- *RespCache.* `slot` is what the dictionary holds at the key, `entry` the `_Entry` objects,
  which live on as long as a waiting request refers to one: invalidating and evicting replace the
  slot, not the object. Times are ages that stop counting where no test tells them apart.
- *HlBudget.* A request waits, is admitted, shed or answered; the window is the weight admitted
  per tick of age, of the background and of the rest. `Lost` is a request that dies unanswered.
- *Notify.* `sender` is a call of `send_alert`, with the row it has written; `tgQueue`,
  `tgKeys`, `tgWorker` are the queue's process memory and go with a `Restart`; `alog` and
  `outbox` are tables.
- *LiveCopy.* `attempt` is a row of `copy_orders` with two ghosts: `told`, the last status the
  browser reported, and `real`, whether the venue took the order. `chain` is what the chain reader
  shows, which lags `venue`; a glitch is a read that comes back empty by mistake.
- *PaperRisk.* One engine process works in cycles, `cycle` saying whose turn it is; `owed` is
  the history variable of what the rules imposed.
- *ModelTrade.* A long trade with prices from a small set; a cycle is one transaction, in four
  phases (pending, close, stop or time, target).
- *LeaderFeed.* Times are sets of fills: those made, missed (no frame could come), old (before
  the gap recovery's window), excused (see the property).
- *TradesFeed.* A trade is named by its number, which is also the venue's time; a state read
  carries the time of the last trade in it. How far back the buffer reaches (`POS_BUF_MS` or 400
  trades) and how long a read may take are numbers of trades.
- *RoundTrips, FillHistory.* `BuildTrips` is the fold of `build_trips` over the fills by time.
  The loop over the sorted rows is said with sets: the group that is next is what has the earliest
  time (`FirstGroup`), and the next of it, by `NextOf`, is the first by tid of what follows on, else of the
  roots, else of all. A tid is a rank within its millisecond: the first fill made there has `FirstTid`, so
  later ones may sort before it or after it; the cursor, the pages and the margins are those of
  `ingest_fills` and `featured_close_trip`.
- *PaperCopy.* `tick` is the change under work and the subscriptions left; of a size only
  whether it is zero is kept. `sidesSince` and `astray` are history variables: where the leader
  has been since the last look, and the rows a named cause left behind.

## Properties

Auto-copy (`AutoCopy`; run in brackets):

- `AtMostOneOrder` [faults]: no action of an event sends two orders, whatever is delivered twice, fails or restarts.
- `OwnOpenKept` [faults]: the close half of a flip never acts on the position the same event opened.
- `OneOpenRow` [faults]: never two open rows of one subscription on one market and mode.
- `OpensOnFlatMarket` [faults], of a step: an open is only sent on a market where the account is flat.
- `MirrorsOnce` [faults]: `AutoCopy` implements `MirrorOnce`.
- `LimitsKept` [core]: `PositionsWithinMax` and `MarginWithinAllocation`, limits checked long before the row is written.
- `BooksMatchVenue` [core]: at rest, the account holds exactly what the live rows say.
- `NoOrphanCopy` [core]: at rest, a flat leader leaves no copy open, paused or not.
- `NoOrphanLeg` [legs]: an armed stop or take profit has an open row that knows it.
- `EventsDone`, `GhostRowsEnd` [live]: each delivered event is worked through; a row whose
  position is gone is ended by the sweep.

The services [services]:

- session: `AtMostOnce` (an order executes once), `FillIsOurs` (a fill is reported to its own
  call), `SentOutsideBand` (no id the venue refuses).
- cache: `ServedValid` (nothing expired, but briefly after a failed build, and nothing built
  before an invalidation is served to who came after it), `SharedBuild` (single flight).
- budget: `ExplorerHasRoom` (the background never eats the reserve), `WaitsBounded` (only a
  critical request waits past its deadline).
- notify: `MessagesAccounted` (one message of an alert at a time; the log and the outbox tell
  the truth about it).
- live copies: `OutcomesAreReal` (no row is detached while its position was there, none closed
  without an order the venue took; a report stands).
- paper strategies: `ConcurrencyKept`, `EntriesBarred` (a kill, a pause or a cap bars the
  entries it should); `PartsAddUp`, `StopNeverLoosens` of a model trade.
- leader's feed: `NothingLost`, `HandedRight`, `HistoryIsSilent`.
- trades feed: `FeedFollows` (the size followed is the account's, and the end of each position
  is closed); round trips: `TripsHold` (trips from any stored part of the fills began and ended
  where real ones did, and from everything they are the real ones); history: `NoneLeftBehind`.
- paper copies: `ChangesAreReal`, `PaperFollows`.
- `ServicesTypeOK`: the types of all of them, with queues within their caps and breakers within
  their longest.

Liveness of the services [progress]: `CallsEnd`, `AnswersCome`, `CriticalGoesOut`,
`NotifyDrains`, `GoneRowsEnd`, `SizesHeal`, `HistoryFills`.

Stated by the source and refuted: see [below](#what-the-violation-runs-show).

Several of these properties name exceptions: `NothingLost` the fills of an unnoticed silence and
of a gap whose recovery met the next drop, `FeedFollows` three blurs and the ends seen while a
close ran, `PaperFollows` the causes in `astray`, `StopNeverLoosens` the first target's move,
`EntriesBarred` a later close. Each exception is a behaviour of the code, found as a
counterexample or as a proof step that failed, and listed under
[behaviours](#behaviours-seen-that-no-run-states); the property says that there is no other.

## Runs

| Run | Question | Expect |
|---|---|---|
| `core` | three events of one leader on two markets; opens, adds, reduces, closes, flips, live or shadow, partial fills, gates, pauses of every kind, resumes, the master switch: books, orphans, limits | pass |
| `faults` | two events, each delivered twice and in any order; rejected, unconfirmed, partly filled orders and closes, bad keys, a crash anywhere, the sweep: the once-properties and the refinement | pass |
| `legs` | stops fire, the follower trades by hand, the sweep runs, between the steps of three events | pass |
| `live` | liveness, with a mode change, a stop, a restart, failures and failed chain reads | pass |
| `services` | safety of the twelve services, one in focus per behaviour | pass |
| `progress` | liveness of seven of them | pass |
| `dust`, `wrongside`, `twosources`, `stoploss`, `unsettled`, `doublesend` | a statement of the source that the code does not keep | violation |

`CHECK_DEADLOCK FALSE` everywhere: with every event worked through, every call returned and
every clock at its bound, these bounded systems stop.

`MCServices` and `MCProgress` add one variable, `focus`, which names the service a behaviour is
about. A step is a step of that service, the others stay in an initial state, so the state space
is the sum of the services' and not their product: they share no state, hence nothing is lost.
`VIEW FocusView` identifies states that differ in a service out of focus only; it keeps every
variable of the one in focus, and the invariants read nothing else that changes. `progress` uses
no view, because it checks liveness.

### Bounds and why they are enough

- `Events`: the interaction of one subscription needs an open, a change and a close or flip,
  hence three; the once-properties concern one event against its own copies and one other,
  hence two, with `Copies = {1, 2}`.
- `MaxLead = 2`: a position of 1 or 2 in either sign gives every kind of move, a reduce that
  rounds to nothing of ours, and flips. (`live` uses 1: its question is about control only.)
- `OpenLots = 2`: a fill in part is a proper part. In `core` 3, with `Allocation = 4`: an open
  fits and its doubling does not.
- `MaxPositions`: 1 in `core`, with two markets; 2 in `faults`, where a second row on one market
  must be refused by the slot rule and not by the count.
- `FailsBeforePause = 2` (3 in the code): two failures in a row are reached with two events.
- `MaxOps`: one outside move (router call, crash, leg, trade by hand) at any point. Each is
  a single disturbance to every interleaving; two of them multiply the states past the time
  a run should take.
- session: two calls make every sharing of a socket; three sockets let both calls fall
  back to a new one; `Half = 4`, `FirstLast = 2`: the first ids sent reach the band and jump it.
- cache: two requests and the warmer, two entries (one in the slot, one replaced in flight);
  `TTL = 1 < StaleMax = 2`: fresh, stale and dead are three ages.
- budget: one request of each class, the critical one of weight 2, ceilings 3 and 4: each class
  meets its ceiling with the others inside.
- notify: one alert from two callers, a queue of one, one retry, one hourly alert, one mishap;
  the log window is longer than the key window as in the code.
- live copies: two attempts from two tabs, one wrong read and one lost report or restart.
- paper strategies: two strategies and a model on one asset in two directions, three slots, two trades at
  most, two losses to a pause. Model trade: prices 0 to 7 around one setup (stop 2, entry 3,
  targets 4, 5 and 6 or none), five parts, a tape of two.
- leader's feed: three fills, two of which have one key; two drops, two recoveries, one failed read.
- trades feed: three trades among the holdings -1, 0, 1; one lost; reads of one trade's time.
- trips: four fills from stakes -1 to 2, three tids, any of them not stored.
- history: pages of one fill, two pages a pass, margins of one millisecond, a clock of five,
  three fills; first window longer than the clock, the feed's shorter.
- paper copies: one subscription (they meet in the leader's event only, which one task works
  through), three moves, two slips.
- `progress` takes the smallest instance in which the awaited thing can be delayed by another actor.

### Fairness

`AutoCopy!Fairness`: weak fairness of each task (asyncio runs what is ready; every wait on the
venue has a timeout, `perpl_ws.py:199`), weak fairness of the sweep (the loop wakes every
`RECONCILE_SEC`), and strong fairness of a successful chain read: it may fail any number of
times, not for ever. Nothing is assumed of the leader, the router, the account or redelivery.

`MCProgress` states, per service:

- `CallsFair`: weak fairness of each order call, every wait of which has a timeout; the venue
  and the network owe nothing.
- `ReadersFair`: a build that a request began ends, one way or the other (weak); the lock of an
  entry is an `asyncio.Lock`, which is fair, so a request is given it (strong, since others take it
  in between).
- `RequestsFair`: a waiting request of the budget polls again.
- `LoopsFair`: the loops run: warmer, Telegram worker and its report, the venue sweep, the
  position sweep, the daily job's start and turn; and, apart, the outbox drain.
- `TimeFair`: time passes and, of the reads that may fail, some succeed (strong): the budget's
  tick, the live copies' clock, a state read, a page of the job; and what was read is taken over
  or written, some time. A read that fails for ever would refute any progress.

## Proofs

Everything below is proved by TLAPS for every value of the constants that satisfies the modules'
assumptions: any number of subscriptions, coins, events, deliveries, calls, sockets, entries,
requests, fills and faults. Each invariant was first checked by TLC on a small instance. The
pattern is the same throughout: the property is not inductive, a named strengthening is; one
lemma shows that it holds initially, one per action that the action keeps it, and a theorem joins them
by PTL. Facts about a helper are lemmas of their own, and a group of actions that touches none
of the variables of an invariant is dealt with by a frame lemma.

`SetLemmas` holds what the proofs need of sums over finite sets (`MapThenSumSet`) and sequences: what
adding, dropping or changing one member does to a sum, and that a sum of naturals bounds each
of its parts. `FoldLemmas` holds what they need of a fold over a sequence, for an operator that is put
where the module is instantiated: the fold takes one element at a time, and what is so before the first
and kept by each is so after the last. The library's induction theorems take an operator as a parameter,
which the provers cannot instantiate, so these lemmas argue by a least counterexample on the recursive
definition of the fold.

**Auto-copy: types and claims** (`CopyRowsProofs`)

- `TypesHold == Spec => []TypeOK`. `TypeOK` alone is not inductive: a step of a task reads
  `event[t[1]]` and the `act`-th action of it, so `TypeInv` adds that a task that works has its
  event and a valid action index (`WellFormed`), that an open row's event exists (`RowsKnown`)
  and that a row in the sweep's hands has its event (`SweepKnown`).
- `OneOrderPerAction == Spec => []AtMostOneOrder`. `OnceInv` adds: what is not in the log has sent
  nothing; a task past the claim has its key in the log; two tasks past the claim and before the
  order's end never hold the same key; a task that has claimed and not sent finds its key "pending"
  with no order sent. The claim step is where the UNIQUE key is used, the order step is where the
  count goes from 0 to 1. A restart empties the tasks and keeps log and count, so a "pending" key
  stays burnt.

**Auto-copy: rows, limits and legs** (`CopyRowsProofs`)

- `OneRowPerMarket` (`OneOpenRow`). `RowInv`: who works on a subscription holds its lock (`LockHeld`);
  the row in the hands of a task or of the sweep has been booked (`HeldBooked`, `SweptBooked`); what came
  by the entry is no exit (`EntryKinds`); a task on its way to an open that found no row to act on is
  right until it books its own (`HeldCurrent`); and past the slot rule an open holds none (`OpensUnheld`).
- `ImplementsMirrorOnce` (`MirrorsOnce`): the refinement. `BookInv` adds that a row
  stands only for an open that was decided, which is the last action of its event (`OpenDecided`), and
  that a task on its way to an open finds its event unbooked (`Unbooked`). Then every step of `AutoCopy`, one lemma per action, maps to a decision, an
  order, a booking, an end or a stutter of `MirrorOnce`.
- `PositionsStayWithinMax` (`PositionsWithinMax`, half of `LimitsKept`). `MaxInv`: from the gate to
  the booking, an open keeps a place free (`RoomLeft`). The other writers of a row, which
  do not take the lock, only ever end one.
- `FlipsKeepTheirOpen` (`OwnOpenKept`). The close of a flip is dealt with before its open: claimed,
  passed over and remembered, or lost with the process (`FirstDone`). `OwnInv`: so it is when the
  event has a row (`RowsAfterFirst`) and when a task is past the event's first action (`TasksAfterFirst`),
  hence an exit at its claim that holds the row of its own event finds the key taken (`OwnSeen`). The
  memory of what was passed over does not survive a restart; `LostInv` says why that is harmless: the
  tasks of an event begin at its first action, its first delivery among them (`QueuedFirst`, `Started`),
  and once that one is lost the others are, or never began (`LostTogether`).
- `LimitsAreKept` (`LimitsKept`). `MarginInv`: sizes are naturals, an answered fill is at most what
  was asked (`FillFits`), and from the gate to the booking the margin counted there plus what is
  asked stays within the allocation (`MarginLeft`); it needs the sums of `SetLemmas`.
- `LegsHaveOwners` (`NoOrphanLeg`), under `~May("arm")`, `~May("cancel")`, `~May("restart")`: the venue
  answers to protective orders and cancels, and the process does not die between sending them and
  writing the row. Each hypothesis is needed, as TLC shows at once without it: the engine arms a leg and
  then writes its oid, and cancels best-effort. `LegInv` says who knows a leg at each await.
- `OrderInv` (`OidsLive`, `LiveOrders`, `ArmOpens`, `ShadowBare`, `ClosingFits`) carries the facts about
  modes and order ids that these share.

**Auto-copy: the account** (`CopyVenueProofs`)

- `OpensWhereFlat` (`OpensOnFlatMarket`), for one subscription and an account that nobody else
  moves (`~May("user")`, `~May("fire")`). `FlatAtPlace`: from the gate's chain read to the order the
  market stays flat. With two subscriptions of one follower this fails, which is the run `twosources`.
- `BooksMatch` (`BooksMatchVenue`) and `NoOrphans` (`NoOrphanCopy`), under `Calm`: one subscription, and
  none of the upsets `user`, `fire`, `restart`, `reconcile`, `mode`, `stop`, `reorder`, `reject`, `key`,
  `unconfirmed`, `partial_close`. What may still happen is what `core` allows: refused gates,
  opens that fill in part, losses, liquidations, pauses, resumes, the master switch, shadow copies,
  and any number of events on any number of markets, each delivered any number of times. TLC finds
  `BooksMatchVenue` violated on the instance of `core` as soon as any one of the eleven is allowed, and
  with two subscriptions and four events; `NoOrphanCopy` likewise, but for `reconcile` and
  `partial_close`, under which it holds there. `dust` keeps one of these counterexamples.
  Both properties speak of the state at rest, so the invariant, `CalmInv`, says what each await owes:
  - the events of a market are a chain, each begins where the last ended (`ChainInv`); their keys are taken in
    that order, each by a task that takes all the keys of its event before it leaves the lock (`KeysInv`). So
    there is a point of the chain up to which a market has been followed (`Reached`), and a task in the
    middle of an event is at its end (`BusyReached`);
  - what a task read of the row it acts on is still so when it acts (`HeldOpen`), every order fills, and a close
    fills whole (`EntryFills`, `ExitFills`, `SizesPos`, `LotsPos`);
  - an open row is on the side of the position followed to; halfway through a flip that is flat (`Holds`,
    `SideFits`). At rest nothing is unmet, the point is the leader's present position, and that is `NoOrphanCopy`;
  - the account is what the live rows say, and where an order is out and its row not yet written, that
    but for what the order has moved (`BooksNow`, `Unsettled`, `Moved`). At rest no order is out, and that is
    `BooksMatchVenue`.

**Session** (`PerplSessionProofs`)

- `IdsOutsideBand` (`SentOutsideBand`). The id drawn is above both counters and its residue modulo
  `2 * Half` is below `Half`, jump or not. The frames alone are not inductive, because a resend sends
  the id that the call has kept: `BandInv` adds that the id of every call is outside the band.
- `ExecutedAtMostOnce == ASSUME ~May("mute") PROVE Spec => []AtMostOnce`. The assumption says
  that the venue sends the fill of what it executes on the socket the order came on: it is lost
  with that socket, never alone. `OnceInv`: the frames of a call that the venue would still accept
  share one id (`OneLive`), the call's present id on its present socket (`Current`); none is left once
  the call is executed (`ExecutedDead`); and while such a call waits on a live socket, its fill is ahead
  of any refusal of its id (`FillFirst`). So a call that hears sr:32 was not executed (`Refused`), and
  drawing a new id is safe. Without the assumption the last step fails, which is the run `doublesend`.
- `FillsAreOurs` (`FillIsOurs`), with no such hypothesis. `FillInv`: the ids of a socket only grow,
  past every id under way in either direction (`IdsGivenOut`), so an id belongs to one call for good
  (`IdsOwned`), and a fill on its way names the call whose order made it (`FillsOwned`).

**Read side** (`ReadSideProofs`)

- Response cache: `ServedIsValid`, `BuildsAreShared`, `CacheTypesHold`. `CacheInv`: an entry is built by
  the one who holds its lock (`LocksOK`), an entry that nobody refers to is as new (`FreeAreNew`), and
  what came after an invalidation refers to a younger entry only (`YoungOK`).
- Leader's feed: `NothingGetsLost`, `HandedRightly`, `HistoryStaysSilent`, `FeedTypesHold`. `FeedInv`
  accounts for every fill at each moment: a row, history, excused, or still to come in a frame, a
  snapshot or a read (`Accounted`); what a gap read will not emit again was seen (`SeenOK`); and a fill that
  waits in a live frame, or can come in none, has not been handed over (`HandedOK`).
- Fill history: `NothingLeftBehind`, `HistoryTyped`. `HistoryInv`: the fills of the exchange are in the
  order of time (`InOrder`), visible after the margin (`ShownInTime`), a page in the job's hands was
  read from the cursor it will write (`JobOK`), and so for the close of a trip (`TripReadOK`).
- Client budget: `DeadlinesHold` (`WaitsBounded`), `ReserveIsKept` (`ExplorerHasRoom`), `BudgetTyped`.
  `BudgetInv`: who polled and waits on is not at the deadline of its class (`WaitsOn`), and the
  background's part of the window is within its ceiling (`BackgroundFits`). The reserve needs
  `Headroom <= SoftCeiling`, that is, a soft budget of at least
  `INTERACTIVE_HEADROOM` (150, `client.py:54`).
- Trades feed: `FollowsTheAccount` (`FeedFollows`), `TradesTyped`. `TradesInv`: the queue holds the
  account's last trades in their order (`QueueFits`); the size known is the position after the last trade
  counted in it, be it the state's or the last one received (`SizeFits`); so will be the size that a read
  under way takes over, whatever is buffered until then (`ReadFits`); and the ends shown are those up to
  the state shown (`ShownFits`). The buffer is trimmed and replayed by folds: the lemmas from
  `Keeps` to `GainKept` say, by a least counterexample, that what is trimmed was not to be replayed. It needs
  `ReadTrades <= BufTrades`: a read is given up (20 s, `hl_trades_feed.py:101`) before what it
  must replay leaves the buffer (30 s, or 400 trades).

**Round trips** (`RoundTripsProofs`)

- `TripsHeld` (`TripsHold`), `RoundTyped`. `RoundInv` has two parts beside the types. `Path`: each
  fill starts where the one before it ended, and not before it in time. `RowsInv`: with everything stored
  the rows are those of the trips that ended by the last close written (`RowsHeld`), and what is
  written is of blocks that are over. The properties follow in four steps.
  - The chain. Where no position comes twice in a millisecond only one fill of a group starts at the
    running position, and only one is a root, so whatever order the ids give, `ChainSameTime` puts
    the fills stored from some fill on in the order they happened (`NextFill`, `ChainInOrder`).
  - The trips. Let the first q fills have been taken: the trips built are those that ended among them
    (`EndedBy`), and the one in hand is the one under way (`TripsBuilt`). At most one is under way, and the
    position is not flat while it is (`StillOpen`, `OpenedOne`). One fill keeps this, whatever its kind
    (`BuiltStep`), so at the last one the trips are the account's (`BuiltFrom`).
  - Fills missing anywhere. Then neither the order nor the sums are known, but each trip in hand began at a real
    opening and each one done ended at a real end (`BuildInv`), because a trip begins only at a fill that
    starts flat or turns the position over.
  - The rows. A write of trips in their order, all that are not yet written among them, leaves the rows of
    all that ended (`UpsertMix`). The daily rebuild writes all of them (`RebuildRows`). What the feed's close
    reads starts a millisecond before the last close, so no trip that closed later is cut in two, and what it does not
    read is written (`CloseRows`). A fill more changes no trip that ended (`MoreTrip`, `MoreRow`), and the trips it ends close after the
    last written (`FillRows`).

**Followers** (`ServicesProofs`)

- Paper copies: `PaperRowsFollow` (`PaperFollows`), `ChangesTookPlace` (`ChangesAreReal`),
  `PaperTypesHold`. Halfway through a tick the rows do not follow: `PaperInv` says which subscriptions
  the tick still has to visit, and that the change in its hands is the difference of the leader's side
  then and now (`TickFits`, `SidesFit`, `RowsFit`).
- Live copies: `OutcomesHold` (`OutcomesAreReal`), `LiveTyped`. `LiveInv`: a report stands (`ToldStands`); a tab past
  the server's answer has an attempt that no other tab has (`AttemptsOwned`), and a close is about a row that was
  made (`RowsMade`); each empty read of a market
  that was held is a glitch (`GoneSeen`, `MissesAreGlitches`); a row is detached only after two of them in a row
  (`Detachments`); a close was taken by the venue (`ClosesAreReal`). Hypothesis of `OutcomesHold`: `MaxGlitches <= 1`,
  because two empty reads in a row are exactly what the sweep takes for a position that is gone. The types need none.

**Strategies and messages** (`ServicesProofs`)

- Risk: `ConcurrencyHolds`, `EntriesStayBarred`, `RiskTypesHold`. `RiskInv`: the rules owed are in force
  in the stored state (`RulesInForce`), but for the ones a later close has overwritten.
- Model trade: `PartsAlwaysAddUp`, `StopsNeverLoosen`, `BreakevenHolds`, `FillsOnLaterMids`,
  `TradeTypesHold`. `TradeInv`: what each phase of a cycle has left of the trade (`PhaseOK`,
  `Untouched`), what the stop is by then (`StopAsSet`), and that no print older than the quote is on
  the tape (`NoneStale`). The exception in `StopNeverLoosens` (a trade quoted beyond its stop, or whose
  trail was armed before its first target) was found as the proof step that failed.
- Messages: `MessagesAreAccounted`, `NotifyTyped`. `NotifyInv`: a message on its
  way has its row, which says "queued" (`MessagesStand`); an alert has one message at a time (`OneEach`); a call
  that may still put its alert to the queue will be refused while there is one (`SendersKnow`), and owns
  its row until then (`SendersOwn`); what the worker has to report is so (`ReportsTrue`, `LogRight`); what
  the drain's open transaction has marked was offered (`OfferedFirst`).

**All services** (`ServicesProofs`)

- `ServicesTyped` (`ServicesTypeOK`). The services share no variable, so a behaviour of `MCServices` is
  one of each service (`EachStarts`, `EachSteps`), and the theorems on the types of the eleven give theirs together.

**Assumptions.** Each is a named ASSUME of the module that declares the constants, and TLC evaluates
it in the runs of that module: `ConstantsOK` (finite set of events, positive sizes and limits),
`NoneIsNoEvent`, `SessionConstants`, `CacheConstants`, `BudgetConstants`, `NotifyConstants`,
`LiveConstants`, `PaperConstants`, `RiskConstants`, `TapeConstants`, `HistoryConstants`,
`TradesConstants`, `TripsConstants`. They say that bounds are naturals, that the ends of an interval
are in order, and that a "no value" is not a value. Any other hypothesis is in the statement of the theorem.

**Model-checked only.** Every safety property of the passing runs is stated by a theorem above, some under
the hypotheses given there. What remains with TLC:

- Liveness (`EventsDone`, `GhostRowsEnd` and the seven properties of `progress`): WF, SF and ENABLED
  are out of the prover's reach.


## What the violation runs show

- **dust**: a full exit whose IOC order fills in part closes the row with size 0
  (`engine.py:239, 274`); the rest stays on the account with its legs cancelled.
- **wrongside**: the close half of a flip is rejected, the leader then adds: the order goes
  out against our own position, because adds skip the slot rule (`engine.py:321`).
- **twosources**: the slot rule is checked under a lock per subscription, so two leaders of one
  follower pass it together.
- **stoploss**: a position ended by its stop is detached without `realized_pnl`; the loss
  limit never sees it. This needs no race.
- **unsettled**: an unconfirmed open that filled is in no row and no sweep looks at it.
- **doublesend**: the fill of an executed order is never pushed, the resend of the same id is
  refused as too low (sr:32), and the order goes out again under a new id. The comment at
  `perpl_ws.py:216` ("can never have executed") holds for a first send only. In `services`,
  where a fill that was executed is pushed or its socket dies, the same code sends once.

## Behaviours seen that no run states

The models have the following; no line of the source settles them against the code clearly
enough for a run. Those that a property excuses by name are marked (excused).

Auto-copy:

- Events waiting for the lock act on the status read before it: a pause that arrives meanwhile
  does not stop their opens (`engine.py:177, 295`).
- Two events whose `_subs_for` reads return out of order reach the lock in that order: a close
  finds nothing, is dropped, and the open that follows stays (`May("reorder")`).
- A sweep that read the chain before an add shrinks the row after it, and nothing grows it
  back; one that read the row before our close relabels it "detached".
- A mode change is checked and written in two transactions; an open in flight can record its
  row in the old mode in between.
- A mirrored reduce leaves both legs at the size of the open; a leg that then fires is larger
  than the position.
- A stopped subscription does not mirror the leader's closes of what is open.

Session:

- An mt:3 frame rejects all calls waiting on the socket, with or without an order behind them.
- A resend on a socket that another call has closed raises `ConnectionClosed`, which is neither
  `ConnectionError` nor `OSError`: the call fails as if nothing had been sent.
- Two calls that find no session both connect; the second session replaces the first in
  `_traders`, and the first lives on until its call ends. A call that fails pops whichever
  session is installed by then.

Live and paper copies:

- Two closes of one position can be pending at once: the attempt checks the row
  (`live_orders.py:332, 336`), the row is reduced at the report (`live_positions.py:151-153`).
- A crash between the result and the write of the position row leaves a filled order without one
  (`routers/copy.py:380`).
- `account_watch` leaves the triggers of a manually closed position active when none is crossed: a later position of
  that market is matched against them.
- The copies of a paused or stopped paper subscription never wind down (excused), although
  `risk.py:4-5` says that closes are always allowed.
- A failure after the detection loses the event: the snapshot advances all the same
  (`trader_tracker.py:61-62, 354`) (excused). A later event of the same figures takes the key of
  an earlier one (the TODO at `leader_events.py:34`) and loses, say, a close (excused). A flip between two polls is seen as
  a change of size (excused).
- A close whose market has no mark books its profit at price 0 (`_D(None)`, `positions.py:159`);
  an increase without a mark opens a row of size 0.
- `position_tracker.py:35-36` takes a failed read for a close.

Alerts:

- A full queue drops the newest message (`telegram_queue.py:73-76`), where line 36 says the oldest.
- After a restart a row stays "queued" and blocks the same alert for the log window
  (`gateway.py:88`); a digest is taken off before it is sent (`gateway.py:140`), so what
  fails or restarts then is lost.
- The hourly limit is tested before the row is logged and counted after (`gateway.py:118, 131`): a
  burst of alerts passes it together.
- The outbox marks as sent what the queue refused (`strat_outbox.py:84`).
- Assumed: a message waits less than the log window (`Tick`).

Budget, cache, strategies:

- The hard ceiling is crossed by overdue critical requests and by weights known afterwards
  (`client.py:53` against `253-263`).
- A later close overwrites a pause or a cap still in force (`manager.py:324-339`, against the
  docstring at 316-319) (excused by `owed.pauseExit`, `owed.capExit`).
- `_daily_reset` compares `updated_ts`, which the raw SQL of the updates never changes (`manager.py:371`).

Hyperliquid feeds and history:

- A silence that ends before it is noticed loses its fills (excused), and so does a gap whose
  recovery is under way at the next drop (excused).
- The trades feed: a trade that comes while the row is written is neither applied nor replayed; a state
  read before a reconnect is taken over after it; the snapshot of a subscription may not cover the gap
  (the three blurs). A flat seen while a close runs is dropped, and a failed close is not tried
  again, against the docstring at 41-43 (excused).
- `chain_same_time` is ambiguous when a position is revisited within one millisecond; the upsert
  of a trip never updates its side; funding is added by the daily rebuild only; `build_trips` mixes
  the fills of a wallet's several accounts on one coin; a flip hidden in a gap keeps the old side.
- A page of fills that ends inside a millisecond loses the rest of it (`jobs.py:401`, cursor + 1 at 361).
  An account the feed reads before the daily job gets a cursor after seven days of fills
  (`hl_trades_feed.py:96, 972`), not the ninety of the first run (`jobs.py:357`).
- The job's plain write of the cursor can move it back; the feed's GREATEST raises it again.
  The feed's close reads one page, oldest first, so a busy account's close finds no trip until the
  next end. A quiet wallet is read again by every restart (`jobs.py:961-965` against `956-958`).
- The weights of an unfinished wallet are lost on a crash; the candle cap is per run.

## Not modelled

Failed database writes inside a step of auto-copy; validation and formatting in the routers;
encryption of keys; signing; prices and P&L arithmetic; the tracker's polling tier; the choice
of wallets, accounts and candidates; the relay pool of the Hyperliquid client; the replay scripts
and tests (read as evidence). The v0 copy path (`services/auto_copy.py`) is mounted but never
executed (`copy_auto/__init__.py:2-3`). MCP staging keeps no state: a staged order is a signed text
that the browser executes. The browser feeds keep one subscription set per client and forward
what comes; a client that fails is dropped.

The modules stand for some 4,000 of 57,500 lines. The rest is, by far, the frontend, the HTTP routers
and the application's wiring, batch statistics over stored data (analytics, profiles, leaderboards,
clusters, metrics), external reads with a cache in front, migrations and scripts. They have no protocol
of their own: what there is to know of them is in values and formats, which tests reach better than a
model. A module that restated a query would not find anything.

## Plan

What is left, in the order of what a failure would cost:

1. The polling tier of the tracker: wallets that are read in turn, and their move to and from the websocket.
2. A second subscription in the paper copies and the live copies, should the code ever let them share
   more than the leader's event.
3. `NoOrphanCopy` for every value of the constants with closes in part and the sweep allowed:
   TLC finds it to hold there on the instance of `core`, where `BooksMatchVenue` no longer does.
