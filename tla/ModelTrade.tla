------------------------------ MODULE ModelTrade ------------------------------
(***************************************************************************)
(* The life of one paper trade of a model: ModelEvaluator._open and        *)
(* ModelTradeManager of strategy_engine/model_runner.py, a long trade (a   *)
(* short one mirrors it).  The tape of mids grows while no cycle runs; a   *)
(* cycle is one transaction, and one that fails leaves no step.  What      *)
(* swings, candles and the mind decide is left open, and so is the price   *)
(* the post-only rule quotes.                                              *)
(***************************************************************************)
EXTENDS Integers, Sequences

CONSTANTS
  Prices,          \* a range of price levels
  Setups,          \* [entry, stop, t1, t2, t3, part, after, fallback, replaces];
                   \* after: when the trail arms; fallback: has a second attempt
  Whole,           \* a trade's size, in parts of which `part` are closed at T1
  NoTarget,        \* t3 of a setup without a third target
  MaxTape          \* mids one cycle finds on the tape: bound

ASSUME TapeConstants ==
  /\ Prices \subseteq Nat /\ Whole \in Nat \ {0} /\ NoTarget \notin Prices
  /\ Setups # {} /\ MaxTape \in Nat
  /\ \A s \in Setups : s.part \in 1 .. Whole /\ {s.entry, s.stop, s.t1, s.t2} \subseteq Prices

VARIABLES
  setup,    \* what the model asked for
  pos,      \* the row of strat_trades with its lifecycle_json
  tape,     \* the mids after tape_ts: [px, stale], stale when the entry was priced later
  phase,    \* where the cycle is
  booked    \* history: the parts whose result has been booked

tradeVars == <<setup, pos, tape, phase, booked>>

PosRec == [st : {"none", "pending", "open", "closed", "cancelled"}, entry : Prices, stop : Prices,
           rem : 0 .. Whole, t1 : BOOLEAN, t2 : BOOLEAN, armed : BOOLEAN, trailed : BOOLEAN,
           used : BOOLEAN]
MidRec == [px : Prices, stale : BOOLEAN]

(* The types of the trade and its tape. *)
TradeTypeOK ==
  /\ setup \in Setups /\ pos \in PosRec
  /\ tape \in Seq(MidRec) /\ Len(tape) <= MaxTape
  /\ phase \in {"idle", "pending", "open"}
  /\ booked \in Nat

TradeInit ==
  /\ setup = CHOOSE s \in Setups : TRUE
  /\ pos = [st |-> "none", entry |-> setup.entry, stop |-> setup.stop, rem |-> Whole, t1 |-> FALSE,
            t2 |-> FALSE, armed |-> FALSE, trailed |-> FALSE, used |-> FALSE]
  /\ tape = <<>> /\ phase = "idle" /\ booked = 0

-----------------------------------------------------------------------------
(* The model takes its setup: the entry rests at its price or, where that
   would cross, one tick inside the market. *)
TakeSetup ==
  /\ pos.st = "none"
  /\ \E s \in Setups, px \in Prices :
       /\ px <= s.entry
       /\ setup' = s
       /\ pos' = [pos EXCEPT !.st = "pending", !.entry = px, !.stop = s.stop]
  /\ tape' = <<>>
  /\ UNCHANGED <<phase, booked>>

MidComes ==
  /\ phase = "idle" /\ pos.st \in {"pending", "open"} /\ Len(tape) < MaxTape
  /\ \E px \in Prices : tape' = Append(tape, [px |-> px, stale |-> FALSE])
  /\ UNCHANGED <<setup, pos, phase, booked>>

StartCycle ==
  /\ phase = "idle" /\ pos.st \in {"pending", "open"}
  /\ phase' = pos.st
  /\ UNCHANGED <<setup, pos, tape, booked>>

-----------------------------------------------------------------------------
(* The first mid through the resting entry fills it; the open part of the
   cycle goes on after it. *)
Fill ==
  /\ phase = "pending"
  /\ \E i \in DOMAIN tape :
       /\ tape[i].px < pos.entry /\ \A j \in 1 .. i - 1 : tape[j].px >= pos.entry
       /\ tape' = SubSeq(tape, i + 1, Len(tape))
  /\ pos' = [pos EXCEPT !.st = "open"] /\ phase' = "open"
  /\ UNCHANGED <<setup, booked>>

(* tape_ts moves to the last mid walked. *)
Walked == <<>>

Cancel ==
  /\ pos' = [pos EXCEPT !.st = "cancelled"]
  /\ tape' = Walked

(* The second attempt: a new price, quoted as the first was; what the tape
   held so far is not for it. *)
Reprice ==
  /\ setup.fallback /\ ~pos.used
  /\ \E px \in Prices : pos' = [pos EXCEPT !.entry = px, !.used = TRUE]
  /\ tape' = [i \in DOMAIN Walked |-> [Walked[i] EXCEPT !.stale = TRUE]]

(* No mid fills: a close beyond the level cancels; then the second attempt,
   then the end of the entry's validity; otherwise it rests on. *)
PendingRest ==
  /\ phase = "pending" /\ \A i \in DOMAIN tape : tape[i].px >= pos.entry
  /\ phase' = "idle"
  /\ Cancel \/ Reprice \/ (tape' = Walked /\ UNCHANGED pos)
  /\ UNCHANGED <<setup, booked>>

-----------------------------------------------------------------------------
(* The rest is closed at whatever price: _close. *)
CloseRest ==
  /\ pos' = [pos EXCEPT !.st = "closed", !.rem = 0]
  /\ booked' = booked + pos.rem
  /\ phase' = "idle"

Stopped(px) == px <= pos.stop

(* The stop first, then the end of the time allowed. *)
StopOrTime ==
  /\ phase = "open" /\ tape # <<>>
  /\ \E late \in BOOLEAN : Stopped(Head(tape).px) \/ late
  /\ CloseRest
  /\ tape' = <<>>
  /\ UNCHANGED setup

PartQty == IF setup.part < pos.rem THEN setup.part ELSE pos.rem

(* Mutant: a part is booked and the whole left open. *)
AfterPartWhole == pos

AfterPart == [pos EXCEPT !.rem = @ - PartQty]

(* The first target: part of the size, the stop to the entry. *)
AtT1 == [AfterPart EXCEPT !.t1 = TRUE, !.stop = pos.entry, !.armed = @ \/ setup.after = "t1"]

AtT2 == [AfterPart EXCEPT !.t2 = TRUE, !.armed = @ \/ setup.after \in {"t2", "near_t2"}]

(* A partial close, which ends the trade when nothing is left. *)
PartClose(after) ==
  /\ pos' = [after EXCEPT !.st = IF after.rem = 0 THEN "closed" ELSE "open"]
  /\ phase' = IF after.rem = 0 THEN "idle" ELSE "open"
  /\ booked' = booked + PartQty

T2Exits == ~(pos.armed /\ setup.replaces)

(* A mid that is past no stop: the first of the targets it goes through. *)
Target ==
  LET px == Head(tape).px
      atT1 == ~pos.t1 /\ px > setup.t1
      atT2 == pos.t1 /\ ~pos.t2 /\ T2Exits /\ px > setup.t2
      atT3 == pos.t2 /\ setup.t3 # NoTarget /\ px > setup.t3
  IN
  /\ phase = "open" /\ tape # <<>> /\ ~Stopped(px)
  /\ tape' = Tail(tape)
  /\ \/ atT1 /\ PartClose(AtT1)
     \/ atT2 /\ setup.t3 # NoTarget /\ PartClose(AtT2)
     \/ atT2 /\ setup.t3 = NoTarget /\ CloseRest
     \/ atT3 /\ CloseRest
     \/ ~(atT1 \/ atT2 \/ atT3) /\ UNCHANGED <<pos, phase, booked>>
  /\ UNCHANGED setup

(* Mutant: any confirmed swing becomes the stop. *)
TrailAny(px) == TRUE

(* A confirmed swing that improves the stop. *)
TrailStop(px) == px > pos.stop

(* The end of a cycle in which a 15m candle closed: arm near the second
   target, trail, ask the mind. *)
BarCloses ==
  /\ phase = "open" /\ tape = <<>>
  /\ \E near, mindExits \in BOOLEAN, px \in Prices \cup {pos.stop} :
       LET armed == pos.armed \/ (setup.after = "near_t2" /\ near)
           trail == armed /\ px # pos.stop /\ TrailStop(px)
           held  == [pos EXCEPT !.armed = armed, !.trailed = @ \/ trail,
                                !.stop = IF trail THEN px ELSE @]
       IN IF mindExits
          THEN pos' = [held EXCEPT !.st = "closed", !.rem = 0] /\ booked' = booked + pos.rem
          ELSE pos' = held /\ UNCHANGED booked
  /\ phase' = "idle"
  /\ UNCHANGED <<setup, tape>>

CycleEnds ==
  /\ phase = "open" /\ tape = <<>>
  /\ phase' = "idle"
  /\ UNCHANGED <<setup, pos, tape, booked>>

TradeNext ==
  \/ TakeSetup \/ MidComes \/ StartCycle \/ Fill \/ PendingRest
  \/ StopOrTime \/ Target \/ BarCloses \/ CycleEnds

TradeSpec == TradeInit /\ [][TradeNext]_tradeVars

-----------------------------------------------------------------------------
(* What was booked and what is open make up the trade's size, through any  *)
(* targets, stops and exits of the mind: no part is settled twice or lost. *)
PartsAddUp == pos.st \in {"open", "closed"} => booked + pos.rem = Whole

(* A trade that took its first target is not stopped below its entry.      *)
BreakevenKept == pos.t1 => pos.stop >= pos.entry

(* The stop of an open trade never loosens, but by the first target's move *)
(* to the entry: when the trail was armed before it (a setup of M1), or    *)
(* when the entry was quoted beyond the stop, which nothing checks         *)
(* (model_runner.py:596, 779, 872).                                        *)
StopNeverLoosens ==
  [][pos.st = "open" /\ pos'.st = "open"
       => pos'.stop >= pos.stop \/ (~pos.t1 /\ pos'.t1 /\ (pos.trailed \/ pos.entry < setup.stop))
    ]_tradeVars

(* An entry fills on a mid that came after its price was set, never on one *)
(* the walk had passed (model_runner.py:746-758, paper.py:60-66).          *)
FillsLater ==
  [][pos.st = "pending" /\ pos'.st = "open"
       => \E i \in DOMAIN tape : ~tape[i].stale /\ Len(tape') = Len(tape) - i]_tradeVars
=============================================================================
