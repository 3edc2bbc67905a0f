------------------------- MODULE PerplSessionProofs -------------------------
(* Theorems about the trading session: its request ids, and that an order   *)
(* call executes at most once.                                              *)
EXTENDS PerplSession, SequenceTheorems, TLAPS

(* The invariant: types, with every id in a call or on its way to the venue *)
(* outside the band, and a session behind every call that uses one.         *)
OkCall  == {r \in CallRec : /\ ~InBand(r.rq)
                            /\ r.pc \in {"ready", "wait", "answered"} => r.on \in Sessions}
OkFrame == {f \in [call : Calls, rq : Nat] : ~InBand(f.rq)}
Msg     == [kind : {"fill", "reject", "sr32", "error"}, rq : Nat, lfr : Nat]

CallsOK   == call \in [Calls -> OkCall]
SessOK    == sess \in [Sessions -> SessRec] /\ traders \in Sessions \cup {None}
ToVenueOK == toVenue \in [Sessions -> Seq(OkFrame)]
ToUsOK    == toUs \in [Sessions -> Seq(Msg)]
VenueOK   == last \in Nat /\ executed \in [Calls -> Nat] /\ ops \in Nat

BandInv == CallsOK /\ SessOK /\ ToVenueOK /\ ToUsOK /\ VenueOK

(* A multiple of a number leaves no remainder. *)
LEMMA MultipleLeavesNothing ==
  ASSUME NEW d \in Nat \ {0}, NEW k \in Nat
  PROVE  (k * d) % d = 0
  OBVIOUS

(* The next multiple lies above. *)
LEMMA NextMultiple ==
  ASSUME NEW d \in Nat \ {0}, NEW v \in Nat
  PROVE  v \div d \in Nat /\ (v \div d + 1) * d \in Nat /\ (v \div d + 1) * d > v
<1> DEFINE q == v \div d
<1>1. q \in Int
  OBVIOUS
<1>2. q >= 0 /\ v - d * q < d
  OBVIOUS
<1> HIDE DEF q
<1>3. (q + 1) * d = d * q + d /\ (q + 1) * d \in Int
  BY <1>1
<1>4. d * q \in Int
  BY <1>1
<1>5. (q + 1) * d > v
  BY <1>1, <1>2, <1>3, <1>4
<1>6. q \in Nat /\ (q + 1) * d \in Nat
  BY <1>1, <1>2, <1>3, <1>5
<1> QED BY <1>5, <1>6 DEF q

(* The next request id is above ours and above the venue's, and never in the *)
(* band the venue refuses (perpl_ws.py:104-113).                             *)
LEMMA NextRqOutside ==
  ASSUME NEW rq \in Nat, NEW lfr \in Nat
  PROVE  /\ NextRq(rq, lfr) \in Nat
         /\ NextRq(rq, lfr) > rq /\ NextRq(rq, lfr) > lfr
         /\ ~InBand(NextRq(rq, lfr))
<1> DEFINE v == Above(rq, lfr) + 1
           d == 2 * Half
           j == (v \div d + 1) * d
<1>1. v \in Nat /\ v > rq /\ v > lfr
  BY DEF Above
<1>2. d \in Nat \ {0} /\ Half \in Nat \ {0}
  BY SessionConstants
<1> HIDE DEF v, d
<1>3. v \div d \in Nat /\ j \in Nat /\ j > v
  BY <1>1, <1>2, NextMultiple
<1>4. j % d = 0
  <2>1. v \div d + 1 \in Nat
    BY <1>3
  <2> QED BY <2>1, <1>2, MultipleLeavesNothing
<1> HIDE DEF j
<1>5. ~(j % d >= Half)
  BY <1>2, <1>4
<1>6. NextRq(rq, lfr) = IF v % d >= Half THEN j ELSE v
  BY DEF NextRq, InBand, v, d, j
<1>7. CASE v % d >= Half
  <2>1. NextRq(rq, lfr) = j
    BY <1>6, <1>7
  <2>2. ~InBand(j)
    BY <1>5 DEF InBand, d
  <2> QED BY <1>1, <1>3, <2>1, <2>2
<1>8. CASE ~(v % d >= Half)
  <2>1. NextRq(rq, lfr) = v
    BY <1>6, <1>8
  <2>2. ~InBand(v)
    BY <1>8 DEF InBand, d
  <2> QED BY <1>1, <2>1, <2>2
<1> QED BY <1>7, <1>8

-----------------------------------------------------------------------------
(* Zero is no id of the band. *)
LEMMA ZeroOutside == ~InBand(0)
<1>1. 2 * Half \in Nat \ {0} /\ Half \in Nat \ {0} /\ 0 * (2 * Half) = 0
  BY SessionConstants
<1>2. 0 % (2 * Half) = 0
  BY <1>1, MultipleLeavesNothing
<1> QED BY <1>1, <1>2 DEF InBand

(* A call between two uses of a session. *)
LEMMA FreshOK ==
  ASSUME NEW pc \in {"idle", "connect", "close", "done"}, NEW attempt \in {1, 2},
         NEW res \in {"none", "filled", "failed", "unconfirmed"}
  PROVE  Fresh(pc, attempt, res) \in OkCall
<1>1. Fresh(pc, attempt, res) \in CallRec
  BY DEF Fresh, CallRec
<1> QED BY <1>1, ZeroOutside DEF OkCall, Fresh

(* The venue's number moves a session's counter to a number. *)
LEMMA BumpOK ==
  ASSUME NEW r \in SessRec, NEW lfr \in Nat
  PROVE  Bump(r, lfr) \in SessRec
  BY DEF Bump, SessRec, Above

(* A call that ends, or changes in place, keeps the calls well formed. *)
LEMMA CallMoves ==
  ASSUME CallsOK, NEW c \in Calls, NEW r \in OkCall
  PROVE  [call EXCEPT ![c] = r] \in [Calls -> OkCall]
  BY DEF CallsOK

(* A new id is outside the band and its session keeps its type. *)
LEMMA FreshRqOK ==
  ASSUME SessOK, NEW c \in Calls, On(c) \in Sessions
  PROVE  /\ FreshRq(c) \in Nat /\ ~InBand(FreshRq(c))
         /\ [sess EXCEPT ![On(c)].rq = FreshRq(c)] \in [Sessions -> SessRec]
<1>1. sess[On(c)] \in SessRec
  BY DEF SessOK
<1>2. sess[On(c)].rq \in Nat /\ sess[On(c)].lfr \in Nat
  BY <1>1 DEF SessRec
<1>3. FreshRq(c) \in Nat /\ ~InBand(FreshRq(c))
  BY <1>2, NextRqOutside DEF FreshRq
<1>4. [sess EXCEPT ![On(c)].rq = FreshRq(c)] \in [Sessions -> SessRec]
  BY <1>1, <1>3 DEF SessOK, SessRec
<1> QED BY <1>3, <1>4

(* What goes to the venue carries the call's id, which is outside the band. *)
LEMMA PutOK ==
  ASSUME CallsOK, ToVenueOK, NEW c \in Calls, On(c) \in Sessions,
         NEW rq \in Nat, ~InBand(rq), NEW next \in OkCall, next.on = On(c),
         Put(c, rq, next)
  PROVE  CallsOK' /\ ToVenueOK'
<1>1. CASE sess[On(c)].up
  <2>1. [call |-> c, rq |-> rq] \in OkFrame
    BY DEF OkFrame
  <2>2. Append(toVenue[On(c)], [call |-> c, rq |-> rq]) \in Seq(OkFrame)
    BY <2>1, AppendProperties DEF ToVenueOK
  <2>3. ToVenueOK'
    BY <1>1, <2>2 DEF Put, ToVenueOK
  <2> DEFINE r == [next EXCEPT !.pc = "wait", !.answer = "none", !.rq = rq]
  <2>4. r \in OkCall
    <3>1. r \in CallRec /\ r.rq = rq /\ r.on = On(c)
      BY DEF OkCall, CallRec
    <3> QED BY <3>1 DEF OkCall
  <2>5. call' = [call EXCEPT ![c] = r]
    BY <1>1 DEF Put
  <2> QED BY <2>3, <2>4, <2>5, CallMoves DEF CallsOK
<1>2. CASE ~sess[On(c)].up
  BY <1>2, FreshOK, CallMoves DEF Put, End, CallsOK, ToVenueOK
<1> QED BY <1>1, <1>2

-----------------------------------------------------------------------------
(* A call as it is, and the session it uses. *)
LEMMA CallNow ==
  ASSUME CallsOK, NEW c \in Calls
  PROVE  /\ call[c] \in OkCall /\ call[c] \in CallRec
         /\ call[c].pc \in {"ready", "wait", "answered"} => On(c) \in Sessions
  BY DEF CallsOK, OkCall, On

(* A session closed keeps the types. *)
LEMMA CloseOK ==
  ASSUME SessOK, ToUsOK, NEW s \in Sessions, Close(s), UNCHANGED traders
  PROVE  SessOK' /\ ToUsOK'
<1>1. sess' \in [Sessions -> SessRec]
  BY DEF SessOK, SessRec, Close
<1>2. toUs' \in [Sessions -> Seq(Msg)]
  BY EmptySeq DEF ToUsOK, Close
<1> QED BY <1>1, <1>2 DEF SessOK, ToUsOK

(* The steps of a call before it sends, and between two sockets. *)
LEMMA QuietCallStep ==
  ASSUME BandInv, NEW c \in Calls,
         Trader(c) \/ ConnectFails(c) \/ Connect(c) \/ NoBlock(c) \/ GiveUp(c) \/ Pop(c)
  PROVE  BandInv'
<1>0. /\ CallsOK /\ SessOK /\ ToVenueOK /\ ToUsOK /\ VenueOK
      /\ call[c] \in OkCall /\ call[c] \in CallRec
      /\ call[c].pc \in {"ready", "wait", "answered"} => On(c) \in Sessions
  BY CallNow DEF BandInv
<1>1. CASE Trader(c)
  <2>1. CASE traders # None /\ sess[traders].up
    <3> DEFINE r == [call[c] EXCEPT !.pc = "ready", !.on = traders]
    <3>1. traders \in Sessions
      BY <1>0, <2>1 DEF SessOK
    <3>2. r \in CallRec /\ r.rq = call[c].rq /\ r.on \in Sessions
      BY <1>0, <3>1 DEF CallRec
    <3>3. r \in OkCall
      BY <1>0, <3>2 DEF OkCall
    <3>4. call' = [call EXCEPT ![c] = r]
      BY <1>1, <2>1 DEF Trader
    <3>5. CallsOK'
      BY <1>0, <3>3, <3>4, CallMoves DEF CallsOK
    <3> QED BY <1>0, <1>1, <3>5 DEF Trader, BandInv, SessOK, ToVenueOK, ToUsOK, VenueOK, conns
  <2>2. CASE ~(traders # None /\ sess[traders].up)
    <3> DEFINE r == [call[c] EXCEPT !.pc = "connect"]
    <3>1. r \in CallRec /\ r.rq = call[c].rq /\ r.pc = "connect"
      BY <1>0 DEF CallRec
    <3>2. r \in OkCall
      BY <1>0, <3>1 DEF OkCall
    <3>3. call' = [call EXCEPT ![c] = r]
      BY <1>1, <2>2 DEF Trader
    <3>4. CallsOK'
      BY <1>0, <3>2, <3>3, CallMoves DEF CallsOK
    <3> QED BY <1>0, <1>1, <3>4 DEF Trader, BandInv, SessOK, ToVenueOK, ToUsOK, VenueOK, conns
  <2> QED BY <2>1, <2>2
<1>2. CASE ConnectFails(c)
  <2>1. CallsOK'
    BY <1>0, <1>2, FreshOK, CallMoves DEF ConnectFails, End, CallsOK
  <2> QED BY <1>0, <1>2, <2>1 DEF ConnectFails, BandInv, SessOK, ToVenueOK, ToUsOK, VenueOK, conns
<1>3. CASE Connect(c)
  <2> DEFINE s == CHOOSE s \in Unopened : TRUE
  <2>1. s \in Sessions
    BY <1>3 DEF Connect, Unopened
  <2>2. /\ sess' = [sess EXCEPT ![s] = [Bump(@, last) EXCEPT !.up = TRUE, !.used = TRUE]]
        /\ traders' = s
        /\ call' = [call EXCEPT ![c].pc = "ready", ![c].on = s]
        /\ UNCHANGED <<toVenue, toUs, last, executed, ops>>
    BY <1>3 DEF Connect
  <2> HIDE DEF s
  <2>3. Bump(sess[s], last) \in SessRec
    BY <1>0, <2>1, BumpOK DEF SessOK, VenueOK
  <2>4. [Bump(sess[s], last) EXCEPT !.up = TRUE, !.used = TRUE] \in SessRec
    BY <2>3 DEF SessRec
  <2>5. SessOK'
    BY <1>0, <2>1, <2>2, <2>4 DEF SessOK
  <2> DEFINE r == [call[c] EXCEPT !.pc = "ready", !.on = s]
  <2>6. r \in CallRec /\ r.rq = call[c].rq /\ r.on = s
    BY <1>0, <2>1 DEF CallRec
  <2>7. r \in OkCall
    BY <1>0, <2>1, <2>6 DEF OkCall
  <2>8. call' = [call EXCEPT ![c] = r]
    BY <2>2
  <2>9. CallsOK'
    BY <1>0, <2>7, <2>8, CallMoves DEF CallsOK
  <2> QED BY <1>0, <2>2, <2>5, <2>9 DEF BandInv, ToVenueOK, ToUsOK, VenueOK
<1>4. CASE NoBlock(c)
  <2>1. On(c) \in Sessions /\ call[c].attempt \in {1, 2}
    BY <1>0, <1>4 DEF NoBlock, At, CallRec
  <2>2. CallsOK'
    BY <1>0, <1>4, <2>1, FreshOK, CallMoves DEF NoBlock, CallsOK
  <2>3. SessOK' /\ ToUsOK'
    BY <1>0, <1>4, <2>1, CloseOK DEF NoBlock
  <2>4. VenueOK' /\ ToVenueOK'
    BY <1>0, <1>4 DEF NoBlock, Outside, VenueOK, ToVenueOK
  <2> QED BY <2>2, <2>3, <2>4 DEF BandInv
<1>5. CASE GiveUp(c)
  <2>1. On(c) \in Sessions
    BY <1>0, <1>5 DEF GiveUp, At
  <2>2. CallsOK'
    BY <1>0, <1>5, FreshOK, CallMoves DEF GiveUp, Unconfirmed, CallsOK
  <2>3. SessOK' /\ ToUsOK'
    BY <1>0, <1>5, <2>1, CloseOK DEF GiveUp, Unconfirmed
  <2> QED BY <1>0, <1>5, <2>2, <2>3 DEF GiveUp, BandInv, ToVenueOK, VenueOK
<1>6. CASE Pop(c)
  <2> DEFINE res == IF call[c].res = "none" THEN "failed" ELSE call[c].res
  <2>1. res \in {"none", "filled", "failed", "unconfirmed"}
    BY <1>0 DEF CallRec
  <2>2. PICK r \in {Fresh("idle", 2, "none"), Fresh("done", 1, res)} :
          call' = [call EXCEPT ![c] = r]
    BY <1>6 DEF Pop, End
  <2>3. r \in OkCall
    BY <2>1, <2>2, FreshOK
  <2>4. CallsOK'
    BY <1>0, <2>2, <2>3, CallMoves DEF CallsOK
  <2> QED BY <1>0, <1>6, <2>4 DEF Pop, BandInv, SessOK, ToVenueOK, ToUsOK, VenueOK
<1> QED BY <1>1, <1>2, <1>3, <1>4, <1>5, <1>6

(* The steps that send. *)
LEMMA SendingStep ==
  ASSUME BandInv, NEW c \in Calls, Send(c) \/ Resend(c) \/ Resume(c)
  PROVE  BandInv'
<1>0. /\ CallsOK /\ SessOK /\ ToVenueOK /\ ToUsOK /\ VenueOK
      /\ call[c] \in OkCall /\ call[c] \in CallRec
      /\ On(c) \in Sessions
  BY CallNow DEF BandInv, Send, Resend, Resume, At
<1>1. CASE Send(c)
  <2>1. CallsOK' /\ ToVenueOK'
    BY <1>0, <1>1, FreshRqOK, PutOK DEF Send, On
  <2>2. SessOK'
    BY <1>0, <1>1, FreshRqOK DEF Send, SessOK
  <2> QED BY <1>0, <1>1, <2>1, <2>2 DEF Send, BandInv, ToUsOK, VenueOK
<1>2. CASE Resend(c)
  <2> DEFINE r == [call[c] EXCEPT !.retried = TRUE]
  <2>1. r \in CallRec /\ r.rq = call[c].rq /\ r.on = On(c) /\ r.pc = call[c].pc
    BY <1>0 DEF CallRec, On
  <2>2. r \in OkCall
    BY <1>0, <2>1 DEF OkCall, On
  <2>3. call[c].rq \in Nat /\ ~InBand(call[c].rq)
    BY <1>0 DEF OkCall, CallRec
  <2>4. Put(c, call[c].rq, r)
    BY <1>2 DEF Resend
  <2> HIDE DEF r
  <2>5. CallsOK' /\ ToVenueOK'
    BY <1>0, <2>1, <2>2, <2>3, <2>4, PutOK
  <2> QED BY <1>0, <1>2, <2>5 DEF Resend, BandInv, SessOK, ToUsOK, VenueOK, conns
<1>3. CASE Resume(c)
  <2>0. UNCHANGED <<traders, last, executed, ops>>
    BY <1>3 DEF Resume
  <2>1. CASE Unconfirmed(c) /\ UNCHANGED toVenue
    <3>1. CallsOK'
      BY <1>0, <2>1, FreshOK, CallMoves DEF Unconfirmed, CallsOK
    <3>2. SessOK' /\ ToUsOK'
      BY <1>0, <2>0, <2>1, CloseOK DEF Unconfirmed
    <3> QED BY <1>0, <2>0, <2>1, <3>1, <3>2 DEF BandInv, ToVenueOK, VenueOK
  <2>2. CASE /\ sess' = [sess EXCEPT ![On(c)].rq = FreshRq(c)]
             /\ Put(c, FreshRq(c), [call[c] EXCEPT !.sr32 = TRUE])
             /\ UNCHANGED toUs
    <3> DEFINE r == [call[c] EXCEPT !.sr32 = TRUE]
    <3>1. r \in CallRec /\ r.rq = call[c].rq /\ r.on = On(c) /\ r.pc = call[c].pc
      BY <1>0 DEF CallRec, On
    <3>2. r \in OkCall
      BY <1>0, <3>1 DEF OkCall, On
    <3>3. Put(c, FreshRq(c), r)
      BY <2>2
    <3> HIDE DEF r
    <3>4. CallsOK' /\ ToVenueOK'
      BY <1>0, <3>1, <3>2, <3>3, FreshRqOK, PutOK
    <3>5. SessOK'
      BY <1>0, <2>0, <2>2, FreshRqOK DEF SessOK
    <3> QED BY <1>0, <2>0, <2>2, <3>4, <3>5 DEF BandInv, ToUsOK, VenueOK
  <2>3. CASE /\ \E res \in {"filled", "failed"} : call' = End(c, res)
             /\ UNCHANGED <<sess, toVenue, toUs>>
    <3>1. CallsOK'
      BY <1>0, <2>3, FreshOK, CallMoves DEF End, CallsOK
    <3> QED BY <1>0, <2>0, <2>3, <3>1 DEF BandInv, SessOK, ToVenueOK, ToUsOK, VenueOK
  <2> QED BY <1>3, <2>1, <2>2, <2>3 DEF Resume
<1> QED BY <1>1, <1>2, <1>3

-----------------------------------------------------------------------------
(* A frame read settles calls and moves a counter. *)
LEMMA ReadStep ==
  ASSUME BandInv, NEW s \in Sessions, Read(s)
  PROVE  BandInv'
<1> DEFINE m == Head(toUs[s])
<1>0. CallsOK /\ SessOK /\ ToVenueOK /\ ToUsOK /\ VenueOK /\ toUs[s] # <<>>
  BY DEF BandInv, Read
<1>1. m \in Msg /\ Tail(toUs[s]) \in Seq(Msg)
  BY <1>0, HeadTailProperties DEF ToUsOK
<1>2. /\ sess' = [sess EXCEPT ![s] = Bump(@, m.lfr)]
      /\ call' = [c \in Calls |->
            IF c \in Matched(s, m)
            THEN Answer(c, IF m.kind = "error" THEN "reject" ELSE m.kind) ELSE call[c]]
      /\ toUs' = [toUs EXCEPT ![s] = Tail(@)]
      /\ UNCHANGED <<traders, toVenue, last, executed, ops>>
  BY DEF Read
<1> HIDE DEF m
<1>3. SessOK'
  <2>1. Bump(sess[s], m.lfr) \in SessRec
    BY <1>0, <1>1, BumpOK DEF SessOK, Msg
  <2> QED BY <1>0, <1>2, <2>1 DEF SessOK
<1>4. ToUsOK'
  BY <1>0, <1>1, <1>2 DEF ToUsOK
<1>5. ASSUME NEW c \in Calls PROVE call'[c] \in OkCall
  <2>1. CASE c \in Matched(s, m)
    <3> DEFINE kind == IF m.kind = "error" THEN "reject" ELSE m.kind
               r    == [call[c] EXCEPT !.pc = "answered", !.answer = kind]
    <3>1. call[c] \in OkCall /\ call[c] \in CallRec /\ On(c) = s
      BY <1>0, <2>1, CallNow DEF Matched
    <3>2. kind \in {"fill", "reject", "sr32"}
      BY <1>1 DEF Msg
    <3> HIDE DEF kind
    <3>3. r \in CallRec /\ r.rq = call[c].rq /\ r.on = s
      BY <3>1, <3>2 DEF CallRec, On
    <3>4. r \in OkCall
      BY <3>1, <3>3 DEF OkCall
    <3> QED BY <1>2, <2>1, <3>4 DEF Answer, kind
  <2>2. CASE c \notin Matched(s, m)
    BY <1>0, <1>2, <2>2, CallNow
  <2> QED BY <2>1, <2>2
<1>6. CallsOK'
  BY <1>2, <1>5 DEF CallsOK
<1> QED BY <1>0, <1>2, <1>3, <1>4, <1>6 DEF BandInv, ToVenueOK, VenueOK

(* A socket that dies cuts what is under way, and tells calls or does not. *)
LEMMA DropStep ==
  ASSUME BandInv, NEW s \in Sessions, NEW told \in BOOLEAN, Drop(s, told)
  PROVE  BandInv'
<1>0. CallsOK /\ SessOK /\ ToVenueOK /\ ToUsOK /\ VenueOK
  BY DEF BandInv
<1>1. /\ sess' = [sess EXCEPT ![s].up = FALSE]
      /\ toUs' = [toUs EXCEPT ![s] = <<>>]
      /\ call' = [c \in Calls |-> IF told /\ At(c, "wait") /\ On(c) = s
                                  THEN Answer(c, "conn") ELSE call[c]]
      /\ ops' = ops + 1
      /\ UNCHANGED <<traders, last, executed>>
  BY DEF Drop, Outside
<1>2. SessOK'
  BY <1>0, <1>1 DEF SessOK, SessRec
<1>3. ToUsOK'
  BY <1>0, <1>1, EmptySeq DEF ToUsOK
<1>4. ToVenueOK'
  <2>1. PICK n \in 0..Len(toVenue[s]) : toVenue' = [toVenue EXCEPT ![s] = SubSeq(@, 1, n)]
    BY DEF Drop
  <2>2. toVenue[s] \in Seq(OkFrame)
    BY <1>0 DEF ToVenueOK
  <2>3. \A i \in 1..n : toVenue[s][i] \in OkFrame
    <3>1. Len(toVenue[s]) \in Nat
      BY <2>2
    <3> QED BY <2>1, <2>2, <3>1, ElementOfSeq
  <2>4. SubSeq(toVenue[s], 1, n) \in Seq(OkFrame)
    BY <2>1, <2>2, <2>3
  <2> QED BY <1>0, <2>1, <2>4 DEF ToVenueOK
<1>5. ASSUME NEW c \in Calls PROVE call'[c] \in OkCall
  <2>1. CASE told /\ At(c, "wait") /\ On(c) = s
    <3> DEFINE r == [call[c] EXCEPT !.pc = "answered", !.answer = "conn"]
    <3>1. call[c] \in OkCall /\ call[c] \in CallRec
      BY <1>0, CallNow
    <3>2. r \in CallRec /\ r.rq = call[c].rq /\ r.on = s
      BY <2>1, <3>1 DEF CallRec, On
    <3>3. r \in OkCall
      BY <3>1, <3>2 DEF OkCall
    <3> QED BY <1>1, <2>1, <3>3 DEF Answer
  <2>2. CASE ~(told /\ At(c, "wait") /\ On(c) = s)
    BY <1>0, <1>1, <2>2, CallNow
  <2> QED BY <2>1, <2>2
<1>6. CallsOK'
  BY <1>1, <1>5 DEF CallsOK
<1>7. VenueOK'
  BY <1>0, <1>1 DEF VenueOK
<1> QED BY <1>2, <1>3, <1>4, <1>6, <1>7 DEF BandInv

(* A reply is a message, on a socket that is up. *)
LEMMA ReplyOK ==
  ASSUME ToUsOK, NEW s \in Sessions, NEW kind \in {"fill", "reject", "sr32"},
         NEW rq \in Nat, NEW lfr \in Nat, Reply(s, kind, rq, lfr)
  PROVE  ToUsOK'
<1>1. [kind |-> kind, rq |-> rq, lfr |-> lfr] \in Msg
  BY DEF Msg
<1>2. Append(toUs[s], [kind |-> kind, rq |-> rq, lfr |-> lfr]) \in Seq(Msg)
  BY <1>1, AppendProperties DEF ToUsOK
<1> QED BY <1>2 DEF Reply, ToUsOK

(* The venue takes a frame. *)
LEMMA VenueStep ==
  ASSUME BandInv, NEW s \in Sessions, Venue(s)
  PROVE  BandInv'
<1> DEFINE f == Head(toVenue[s])
<1>0. CallsOK /\ SessOK /\ ToVenueOK /\ ToUsOK /\ VenueOK /\ toVenue[s] # <<>>
  BY DEF BandInv, Venue
<1>1. f \in OkFrame /\ Tail(toVenue[s]) \in Seq(OkFrame)
  BY <1>0, HeadTailProperties DEF ToVenueOK
<1>2. f.rq \in Nat /\ f.call \in Calls
  BY <1>1 DEF OkFrame
<1>3. /\ toVenue' = [toVenue EXCEPT ![s] = Tail(@)]
      /\ UNCHANGED <<call, conns, ops>>
      /\ last' \in {last, f.rq}
      /\ executed' \in {executed, [executed EXCEPT ![f.call] = @ + 1]}
      /\ \/ \E kind \in {"fill", "reject", "sr32"}, lfr \in {0, last} :
               Reply(s, kind, f.rq, lfr)
         \/ UNCHANGED toUs
  BY DEF Venue
<1> HIDE DEF f
<1>4. ToVenueOK'
  BY <1>0, <1>1, <1>3 DEF ToVenueOK
<1>5. VenueOK'
  BY <1>0, <1>2, <1>3 DEF VenueOK
<1>6. ToUsOK'
  <2>1. CASE UNCHANGED toUs
    BY <1>0, <2>1 DEF ToUsOK
  <2>2. CASE \E kind \in {"fill", "reject", "sr32"}, lfr \in {0, last} :
               Reply(s, kind, f.rq, lfr)
    <3>1. PICK kind \in {"fill", "reject", "sr32"}, lfr \in {0, last} :
            Reply(s, kind, f.rq, lfr)
      BY <2>2
    <3>2. lfr \in Nat
      BY <1>0 DEF VenueOK
    <3> QED BY <1>0, <1>2, <3>1, <3>2, ReplyOK
  <2> QED BY <1>3, <2>1, <2>2
<1> QED BY <1>0, <1>3, <1>4, <1>5, <1>6 DEF BandInv, CallsOK, SessOK, conns

(* The other clients, and error frames. *)
LEMMA OthersStep ==
  ASSUME BandInv, OtherClient \/ \E s \in Sessions : VenueError(s)
  PROVE  BandInv'
<1>0. CallsOK /\ SessOK /\ ToVenueOK /\ ToUsOK /\ VenueOK
  BY DEF BandInv
<1>1. CASE OtherClient
  <2>1. last' \in Nat
    BY <1>0, <1>1, NextRqOutside DEF OtherClient, VenueOK
  <2> QED BY <1>0, <1>1, <2>1 DEF OtherClient, Outside, BandInv, CallsOK, SessOK, ToVenueOK,
                                  ToUsOK, VenueOK, conns
<1>2. CASE \E s \in Sessions : VenueError(s)
  <2>1. PICK s \in Sessions : VenueError(s)
    BY <1>2
  <2> DEFINE m == [kind |-> "error", rq |-> 0, lfr |-> 0]
  <2>2. m \in Msg
    BY DEF Msg
  <2>3. Append(toUs[s], m) \in Seq(Msg)
    BY <1>0, <2>2, AppendProperties DEF ToUsOK
  <2>4. ToUsOK'
    BY <1>0, <2>1, <2>3 DEF VenueError, ToUsOK
  <2> QED BY <1>0, <2>1, <2>4 DEF VenueError, Outside, BandInv, CallsOK, SessOK, ToVenueOK,
                                  VenueOK, conns
<1> QED BY <1>1, <1>2

-----------------------------------------------------------------------------
(* The initial state. *)
LEMMA BandInit == Init => BandInv
<1> SUFFICES ASSUME Init PROVE BandInv
  OBVIOUS
<1>1. CallsOK
  BY FreshOK DEF Init, CallsOK
<1>2. SessOK
  BY DEF Init, SessOK, SessRec
<1>3. ToVenueOK /\ ToUsOK
  BY EmptySeq DEF Init, ToVenueOK, ToUsOK
<1>4. VenueOK
  BY SessionConstants DEF Init, VenueOK
<1> QED BY <1>1, <1>2, <1>3, <1>4 DEF BandInv

(* Every step. *)
LEMMA BandNext == BandInv /\ [Next]_vars => BandInv'
<1> SUFFICES ASSUME BandInv, [Next]_vars PROVE BandInv'
  OBVIOUS
<1>1. ASSUME NEW c \in Calls, CallStep(c) PROVE BandInv'
  BY <1>1, QuietCallStep, SendingStep DEF CallStep
<1>2. ASSUME NEW s \in Sessions,
             Read(s) \/ Venue(s) \/ VenueError(s) \/ \E told \in BOOLEAN : Drop(s, told)
      PROVE BandInv'
  BY <1>2, ReadStep, VenueStep, OthersStep, DropStep
<1>3. CASE OtherClient
  BY <1>3, OthersStep
<1>4. CASE UNCHANGED vars
  BY <1>4 DEF BandInv, CallsOK, SessOK, ToVenueOK, ToUsOK, VenueOK, vars, conns
<1> QED BY <1>1, <1>2, <1>3, <1>4 DEF Next

(* Whatever the sockets, the other clients and the timeouts do, no request   *)
(* id sent lies in the band the venue refuses (perpl_ws.py:104-108).         *)
THEOREM IdsOutsideBand == Spec => []SentOutsideBand
<1>1. BandInv => SentOutsideBand
  <2> SUFFICES ASSUME BandInv, NEW s \in Sessions, NEW i \in 1..Len(toVenue[s])
               PROVE  ~InBand(toVenue[s][i].rq)
    BY DEF SentOutsideBand
  <2>1. toVenue[s] \in Seq(OkFrame)
    BY DEF BandInv, ToVenueOK
  <2>2. toVenue[s][i] \in OkFrame
    BY <2>1, ElementOfSeq
  <2> QED BY <2>2 DEF OkFrame
<1> QED BY <1>1, BandInit, BandNext, PTL DEF Spec

(*****************************************************************************)
(* An order call is executed at most once, for any calls, sockets, faults    *)
(* and other clients, as long as the venue sends the fill of what it         *)
(* executed on the socket the order came on (it may be lost with the         *)
(* socket, not alone).                                                       *)
(*****************************************************************************)

(* The frames on their way to the venue: what order they come in does not   *)
(* matter, only whether the venue may still execute them.                   *)
InFlight(s) == {toVenue[s][i] : i \in 1..Len(toVenue[s])}
FramesOf(c) == UNION {{f \in InFlight(s) : f.call = c} : s \in Sessions}

(* A call that has sent nothing. *)
BeforeSend(r) == \/ r.pc \in {"idle", "connect", "ready"}
                 \/ r.pc = "close" /\ r.res = "none"
Unsent == \A c \in Calls : BeforeSend(call[c]) => executed[c] = 0 /\ FramesOf(c) = {}

(* The frames of a call that the venue would still accept share one id.     *)
OneLive == \A c \in Calls : \A f, g \in FramesOf(c) :
             f.rq > last /\ g.rq > last => f.rq = g.rq

(* None is left of a call that was executed. *)
ExecutedDead == \A c \in Calls : executed[c] > 0 => \A f \in FramesOf(c) : f.rq <= last

(* A call that waits has its live frames on its own socket, under its id.   *)
Sending(c) == call[c].pc \in {"wait", "answered"}
Current == \A c \in Calls : Sending(c) =>
             \A s \in Sessions : \A f \in InFlight(s) :
               f.call = c /\ f.rq > last => s = On(c) /\ f.rq = call[c].rq
ExecutedLow == \A c \in Calls : Sending(c) /\ executed[c] > 0 => call[c].rq <= last

(* The venue refuses only ids that are not above its last one. *)
RefusedLow == \A s \in Sessions : \A i \in 1..Len(toUs[s]) :
                toUs[s][i].kind = "sr32" => toUs[s][i].rq <= last

(* The fill of an executed call comes before any refusal of its id.         *)
FillAhead(s, rq) == \E i \in 1..Len(toUs[s]) :
                      /\ toUs[s][i].kind = "fill" /\ toUs[s][i].rq = rq
                      /\ \A j \in 1..(i-1) : ~(toUs[s][j].kind = "sr32" /\ toUs[s][j].rq = rq)
FillFirst == \A c \in Calls : At(c, "wait") /\ executed[c] > 0 /\ sess[On(c)].up
                                => FillAhead(On(c), call[c].rq)

(* So a call that hears its id was refused was not executed. *)
Refused == \A c \in Calls : At(c, "answered") /\ call[c].answer = "sr32"
                              => executed[c] = 0 /\ call[c].rq <= last

(* A socket in use has been opened, and is not opened again. *)
UsedKnown == /\ traders # None => sess[traders].used
             /\ \A c \in Calls : call[c].pc \in {"ready", "wait", "answered"} => sess[On(c)].used

OnceInv == /\ Unsent /\ OneLive /\ ExecutedDead /\ Current /\ ExecutedLow
           /\ RefusedLow /\ FillFirst /\ Refused /\ UsedKnown /\ AtMostOnce

-----------------------------------------------------------------------------
(* The sockets after a step: those in use stay so, are not revived, and     *)
(* keep what is under way to us unless they have died.                      *)
SocketsKept == \A s \in Sessions :
  /\ sess[s].used => sess'[s].used
  /\ sess[s].used /\ sess'[s].up => sess[s].up /\ toUs'[s] = toUs[s]
  /\ toUs'[s] = toUs[s] \/ toUs'[s] = <<>>

(* A call moves on without sending anything. *)
LEMMA QuietOnce ==
  ASSUME BandInv, OnceInv, NEW c \in Calls, NEW r \in CallRec,
         call' = [call EXCEPT ![c] = r],
         r.pc \notin {"wait", "answered"}, BeforeSend(r) => BeforeSend(call[c]),
         UNCHANGED <<toVenue, last, executed>>, SocketsKept,
         traders' # None => sess'[traders'].used,
         r.pc = "ready" => sess'[r.on].used
  PROVE  OnceInv'
<1>0. /\ call \in [Calls -> OkCall] /\ call'[c] = r /\ \A d \in Calls \ {c} : call'[d] = call[d]
      /\ \A d \in Calls : FramesOf(d)' = FramesOf(d)
      /\ \A s \in Sessions : InFlight(s)' = InFlight(s)
      /\ last' = last /\ executed' = executed
  BY DEF BandInv, CallsOK, FramesOf, InFlight
<1>1. Unsent'
  BY <1>0 DEF OnceInv, Unsent
<1>2. OneLive' /\ ExecutedDead'
  BY <1>0 DEF OnceInv, OneLive, ExecutedDead
<1>3. Current' /\ ExecutedLow'
  BY <1>0 DEF OnceInv, Current, ExecutedLow, Sending, On
<1>4. RefusedLow'
  BY <1>0 DEF OnceInv, RefusedLow, SocketsKept
<1>5. FillFirst'
  <2> SUFFICES ASSUME NEW d \in Calls, At(d, "wait")', executed[d] > 0, sess'[On(d)'].up
               PROVE  FillAhead(On(d), call[d].rq)'
    BY <1>0 DEF FillFirst
  <2>1. d # c /\ call'[d] = call[d] /\ On(d)' = On(d)
    BY <1>0 DEF At, On
  <2>2. At(d, "wait") /\ On(d) \in Sessions /\ sess[On(d)].used
    BY <2>1, CallNow DEF At, OnceInv, UsedKnown, BandInv
  <2>3. sess[On(d)].up /\ toUs'[On(d)] = toUs[On(d)]
    BY <2>1, <2>2 DEF SocketsKept
  <2>4. FillAhead(On(d), call[d].rq)
    BY <2>2, <2>3 DEF OnceInv, FillFirst
  <2> QED BY <2>1, <2>3, <2>4 DEF FillAhead
<1>6. Refused'
  BY <1>0 DEF OnceInv, Refused, At
<1>7. UsedKnown'
  <2> SUFFICES ASSUME NEW d \in Calls, call'[d].pc \in {"ready", "wait", "answered"}
               PROVE  sess'[On(d)'].used
    BY DEF UsedKnown
  <2>1. CASE d = c
    BY <1>0, <2>1 DEF On
  <2>2. CASE d # c
    <3>1. call'[d] = call[d] /\ On(d)' = On(d)
      BY <1>0, <2>2 DEF On
    <3>2. On(d) \in Sessions /\ sess[On(d)].used
      BY <3>1, CallNow DEF OnceInv, UsedKnown, BandInv
    <3> QED BY <3>1, <3>2 DEF SocketsKept
  <2> QED BY <2>1, <2>2
<1>8. AtMostOnce'
  BY <1>0 DEF OnceInv, AtMostOnce
<1> QED BY <1>1, <1>2, <1>3, <1>4, <1>5, <1>6, <1>7, <1>8 DEF OnceInv

(* Sockets untouched, or one of them closed. *)
LEMMA SocketsSame ==
  ASSUME UNCHANGED <<sess, toUs>>
  PROVE  SocketsKept
  BY DEF SocketsKept

(* A socket closed by its call. *)
LEMMA SocketsClosed ==
  ASSUME BandInv, NEW s \in Sessions, Close(s)
  PROVE  SocketsKept /\ \A z \in Sessions : sess'[z].used = sess[z].used
  BY DEF SocketsKept, Close, BandInv, SessOK, SessRec, ToUsOK

(* The steps of a call that send nothing. *)
LEMMA QuietStepOnce ==
  ASSUME BandInv, OnceInv, NEW c \in Calls,
         Trader(c) \/ ConnectFails(c) \/ Connect(c) \/ NoBlock(c) \/ GiveUp(c) \/ Pop(c)
  PROVE  OnceInv'
<1>0. /\ CallsOK /\ SessOK /\ call[c] \in CallRec
      /\ traders # None => sess[traders].used
      /\ call[c].pc \in {"ready", "wait", "answered"} => On(c) \in Sessions
  BY CallNow DEF BandInv, OnceInv, UsedKnown
<1>1. CASE Trader(c)
  <2>0. SocketsKept /\ UNCHANGED <<sess, traders, toVenue, last, executed>> /\ call[c].pc = "idle"
    BY <1>1, SocketsSame DEF Trader, conns, At
  <2>1. CASE traders # None /\ sess[traders].up
    <3> DEFINE r == [call[c] EXCEPT !.pc = "ready", !.on = traders]
    <3>1. r \in CallRec /\ r.pc = "ready" /\ r.on = traders
      BY <1>0, <2>1 DEF CallRec, SessOK
    <3>2. call' = [call EXCEPT ![c] = r]
      BY <1>1, <2>1 DEF Trader
    <3> HIDE DEF r
    <3> QED BY <1>0, <2>0, <2>1, <3>1, <3>2, QuietOnce DEF BeforeSend
  <2>2. CASE ~(traders # None /\ sess[traders].up)
    <3> DEFINE r == [call[c] EXCEPT !.pc = "connect"]
    <3>1. r \in CallRec /\ r.pc = "connect"
      BY <1>0 DEF CallRec
    <3>2. call' = [call EXCEPT ![c] = r]
      BY <1>1, <2>2 DEF Trader
    <3> HIDE DEF r
    <3> QED BY <1>0, <2>0, <3>1, <3>2, QuietOnce DEF BeforeSend
  <2> QED BY <2>1, <2>2
<1>2. CASE ConnectFails(c)
  <2> DEFINE r == Fresh("done", 1, "failed")
  <2>1. r \in CallRec /\ r.pc = "done"
    BY FreshOK DEF OkCall, Fresh
  <2>2. /\ call' = [call EXCEPT ![c] = r] /\ SocketsKept
        /\ UNCHANGED <<sess, traders, toVenue, last, executed>>
    BY <1>2, SocketsSame DEF ConnectFails, End, conns
  <2> HIDE DEF r
  <2> QED BY <1>0, <2>1, <2>2, QuietOnce DEF BeforeSend
<1>3. CASE Connect(c)
  <2> DEFINE s == CHOOSE s \in Unopened : TRUE
             r == [call[c] EXCEPT !.pc = "ready", !.on = s]
  <2>1. s \in Sessions /\ ~sess[s].used
    BY <1>3 DEF Connect, Unopened
  <2>2. /\ sess' = [sess EXCEPT ![s] = [Bump(@, last) EXCEPT !.up = TRUE, !.used = TRUE]]
        /\ traders' = s
        /\ call' = [call EXCEPT ![c] = r]
        /\ UNCHANGED <<toVenue, toUs, last, executed>>
        /\ call[c].pc = "connect"
    BY <1>3 DEF Connect, At
  <2> HIDE DEF s
  <2>3. Bump(sess[s], last) \in SessRec
    BY <1>0, <2>1, BumpOK DEF SessOK, BandInv, VenueOK
  <2>4. sess'[s].used /\ \A z \in Sessions \ {s} : sess'[z] = sess[z]
    BY <1>0, <2>1, <2>2, <2>3 DEF SessOK, SessRec
  <2>5. SocketsKept
    BY <2>1, <2>2, <2>4 DEF SocketsKept
  <2>6. r \in CallRec /\ r.pc = "ready" /\ r.on = s
    BY <1>0, <2>1 DEF CallRec
  <2> HIDE DEF r
  <2> QED BY <1>0, <2>2, <2>4, <2>5, <2>6, QuietOnce DEF BeforeSend
<1>4. CASE NoBlock(c)
  <2> DEFINE r == Fresh("close", call[c].attempt, "none")
  <2>1. r \in CallRec /\ r.pc = "close"
    BY <1>0, FreshOK DEF OkCall, Fresh, CallRec
  <2>2. /\ call' = [call EXCEPT ![c] = r] /\ call[c].pc = "ready" /\ Close(On(c))
        /\ UNCHANGED <<traders, toVenue, last, executed>>
    BY <1>4 DEF NoBlock, At
  <2> HIDE DEF r
  <2>3. SocketsKept /\ (traders # None => sess'[traders].used)
    BY <1>0, <2>2, SocketsClosed DEF SessOK
  <2> QED BY <1>0, <2>1, <2>2, <2>3, QuietOnce DEF BeforeSend
<1>5. CASE GiveUp(c)
  <2> DEFINE r == Fresh("close", 1, "unconfirmed")
  <2>1. r \in CallRec /\ r.pc = "close" /\ r.res # "none"
    BY FreshOK DEF OkCall, Fresh
  <2>2. /\ call' = [call EXCEPT ![c] = r] /\ call[c].pc = "wait" /\ Close(On(c))
        /\ UNCHANGED <<traders, toVenue, last, executed>>
    BY <1>5 DEF GiveUp, Unconfirmed, At
  <2> HIDE DEF r
  <2>3. SocketsKept /\ (traders # None => sess'[traders].used)
    BY <1>0, <2>2, SocketsClosed DEF SessOK
  <2> QED BY <1>0, <2>1, <2>2, <2>3, QuietOnce DEF BeforeSend
<1>6. CASE Pop(c)
  <2> DEFINE res == IF call[c].res = "none" THEN "failed" ELSE call[c].res
  <2>1. res \in {"none", "filled", "failed", "unconfirmed"}
    BY <1>0 DEF CallRec
  <2>2. /\ SocketsKept /\ UNCHANGED <<toVenue, last, executed>> /\ traders' = None
        /\ call[c].pc = "close"
    BY <1>6, SocketsSame DEF Pop, At
  <2>3. CASE call[c].res = "none" /\ call[c].attempt = 1
    <3> DEFINE r == Fresh("idle", 2, "none")
    <3>1. r \in CallRec /\ r.pc = "idle"
      BY FreshOK DEF OkCall, Fresh
    <3>2. call' = [call EXCEPT ![c] = r]
      BY <1>6, <2>3 DEF Pop
    <3> HIDE DEF r
    <3> QED BY <2>2, <2>3, <3>1, <3>2, QuietOnce DEF BeforeSend
  <2>4. CASE ~(call[c].res = "none" /\ call[c].attempt = 1)
    <3> DEFINE r == Fresh("done", 1, res)
    <3>1. r \in CallRec /\ r.pc = "done"
      BY <2>1, FreshOK DEF OkCall, Fresh
    <3>2. call' = [call EXCEPT ![c] = r]
      BY <1>6, <2>4 DEF Pop, End
    <3> HIDE DEF r
    <3> QED BY <2>2, <3>1, <3>2, QuietOnce DEF BeforeSend
  <2> QED BY <2>3, <2>4
<1> QED BY <1>1, <1>2, <1>3, <1>4, <1>5, <1>6

-----------------------------------------------------------------------------
(* One more element at the end of a sequence. *)
LEMMA Appended ==
  ASSUME NEW S, NEW q \in Seq(S), NEW x \in S
  PROVE  {Append(q, x)[i] : i \in 1..Len(Append(q, x))} = {q[i] : i \in 1..Len(q)} \cup {x}
<1>1. /\ Len(q) \in Nat /\ Len(Append(q, x)) = Len(q) + 1
      /\ \A i \in 1..Len(q) : Append(q, x)[i] = q[i]
      /\ Append(q, x)[Len(q) + 1] = x
  BY AppendProperties, LenProperties
<1> DEFINE q1 == Append(q, x)
           n  == Len(q)
<1> HIDE DEF q1, n
<1>2. n \in Nat /\ Len(q1) = n + 1 /\ q1[n+1] = x /\ \A i \in 1..n : q1[i] = q[i]
  BY <1>1 DEF q1, n
<1>3. {q1[i] : i \in 1..(n+1)} = {q[i] : i \in 1..n} \cup {x}
  <2>1. 1..(n+1) = 1..n \cup {n+1}
    BY <1>2
  <2> QED BY <1>2, <2>1
<1> QED BY <1>2, <1>3 DEF q1, n

(* The frames of a call are frames. *)
LEMMA FramesOK ==
  ASSUME ToVenueOK, NEW s \in Sessions, NEW f \in InFlight(s)
  PROVE  f \in OkFrame /\ f.rq \in Nat /\ f.call \in Calls
<1>1. f \in OkFrame
  BY ElementOfSeq DEF ToVenueOK, InFlight
<1> QED BY <1>1 DEF OkFrame

(* A call sends a frame: none of its own under another id is live, and if   *)
(* it was executed, its answer is ahead.                                    *)
LEMMA PutOnce ==
  ASSUME BandInv, OnceInv, NEW c \in Calls, NEW rq \in Nat, ~InBand(rq), NEW next \in OkCall,
         On(c) \in Sessions, sess[On(c)].used, next.on = On(c), Put(c, rq, next),
         \A f \in FramesOf(c) : f.rq > last => f.rq = rq,
         \A s \in Sessions : \A f \in InFlight(s) : f.call = c /\ f.rq > last => s = On(c),
         executed[c] > 0 => rq <= last /\ (sess[On(c)].up => FillAhead(On(c), rq)),
         UNCHANGED <<traders, toUs, last, executed>>,
         \A s \in Sessions : sess'[s].up = sess[s].up /\ sess'[s].used = sess[s].used,
         call[c].pc \in {"ready", "wait", "answered"}
  PROVE  OnceInv'
<1>0. CallsOK /\ ToVenueOK /\ SessOK /\ VenueOK /\ call \in [Calls -> OkCall]
  BY DEF BandInv, CallsOK
<1>1. CASE ~sess[On(c)].up
  <2> DEFINE r == Fresh("done", 1, "failed")
  <2>1. r \in CallRec /\ r.pc = "done"
    BY FreshOK DEF OkCall, Fresh
  <2>2. call' = [call EXCEPT ![c] = r] /\ UNCHANGED toVenue
    BY <1>1 DEF Put, End
  <2>3. SocketsKept /\ (traders' # None => sess'[traders'].used)
    BY <1>0 DEF SocketsKept, OnceInv, UsedKnown, SessOK
  <2> HIDE DEF r
  <2> QED BY <2>1, <2>2, <2>3, QuietOnce DEF BeforeSend
<1>2. CASE sess[On(c)].up
  <2> DEFINE x == [call |-> c, rq |-> rq]
             r == [next EXCEPT !.pc = "wait", !.answer = "none", !.rq = rq]
  <2>1. r.pc = "wait" /\ r.on = On(c) /\ r.rq = rq
    BY DEF OkCall, CallRec
  <2>2. call' = [call EXCEPT ![c] = r]
    BY <1>2 DEF Put
  <2>3. x \in OkFrame /\ x.call = c /\ x.rq = rq
    BY DEF OkFrame
  <2>4. toVenue' = [toVenue EXCEPT ![On(c)] = Append(@, x)]
    BY <1>2 DEF Put
  <2> HIDE DEF x, r
  <2> PICK z \in Sessions : z = On(c)
    OBVIOUS
  <2>5. InFlight(z)' = InFlight(z) \cup {x} /\ \A s \in Sessions \ {z} : InFlight(s)' = InFlight(s)
    <3>1. /\ toVenue'[z] = Append(toVenue[z], x) /\ toVenue[z] \in Seq(OkFrame)
          /\ \A s \in Sessions \ {z} : toVenue'[s] = toVenue[s]
      BY <1>0, <2>4 DEF ToVenueOK
    <3>2. InFlight(z)' = {toVenue'[z][i] : i \in 1..Len(toVenue'[z])}
      BY DEF InFlight
    <3>3. InFlight(z)' = InFlight(z) \cup {x}
      BY <2>3, <3>1, <3>2, Appended DEF InFlight
    <3> QED BY <3>1, <3>3 DEF InFlight
  <2>6. /\ call'[c] = r /\ \A d \in Calls \ {c} : call'[d] = call[d]
        /\ \A d \in Calls : On(d)' = On(d)
    BY <1>0, <2>1, <2>2 DEF On
  <2>7. /\ \A d \in Calls \ {c} : FramesOf(d)' = FramesOf(d)
        /\ FramesOf(c)' = FramesOf(c) \cup {x}
    BY <2>3, <2>5 DEF FramesOf
  <2>8. last' = last /\ executed' = executed
    OBVIOUS
  <2>9. Unsent'
    BY <2>1, <2>6, <2>7, <2>8 DEF OnceInv, Unsent, BeforeSend
  <2>10. OneLive' /\ ExecutedDead'
    BY <2>3, <2>7, <2>8 DEF OnceInv, OneLive, ExecutedDead
  <2>11. Current'
    <3> SUFFICES ASSUME NEW d \in Calls, Sending(d)', NEW s \in Sessions, NEW f \in InFlight(s)',
                        f.call = d, f.rq > last
                 PROVE  s = On(d) /\ f.rq = call'[d].rq
      BY <2>6, <2>8 DEF Current
    <3>1. CASE d = c
      <4>1. call'[d].rq = rq
        BY <2>1, <2>6, <3>1
      <4>2. CASE f = x /\ s = z
        BY <2>3, <3>1, <4>1, <4>2
      <4>3. CASE f \in InFlight(s)
        BY <1>0, <3>1, <4>1, <4>3 DEF FramesOf
      <4> QED BY <2>5, <4>2, <4>3
    <3>2. CASE d # c
      <4>1. f \in InFlight(s) /\ Sending(d)
        BY <2>3, <2>5, <2>6, <3>2 DEF Sending
      <4> QED BY <2>6, <3>2, <4>1 DEF OnceInv, Current
    <3> QED BY <3>1, <3>2
  <2>12. ExecutedLow' /\ RefusedLow'
    BY <2>1, <2>6, <2>8 DEF OnceInv, ExecutedLow, RefusedLow, Sending
  <2>13. FillFirst'
    <3> SUFFICES ASSUME NEW d \in Calls, At(d, "wait")', executed[d] > 0, sess'[On(d)'].up
                 PROVE  FillAhead(On(d), call[d].rq)'
      BY <2>8 DEF FillFirst
    <3>1. FillAhead(On(d), call'[d].rq)
      <4>1. CASE d = c
        BY <1>2, <2>1, <2>6, <4>1
      <4>2. CASE d # c
        <5>1. call'[d] = call[d] /\ At(d, "wait") /\ On(d) \in Sessions
          BY <1>0, <2>6, <4>2, CallNow DEF At
        <5>2. sess[On(d)].up
          BY <2>6, <5>1
        <5> QED BY <5>1, <5>2 DEF OnceInv, FillFirst
      <4> QED BY <4>1, <4>2
    <3> QED BY <2>6, <3>1 DEF FillAhead
  <2>14. Refused' /\ AtMostOnce'
    BY <2>1, <2>6, <2>8 DEF OnceInv, Refused, AtMostOnce, At
  <2>15. UsedKnown'
    BY <1>0, <2>6, CallNow DEF OnceInv, UsedKnown, SessOK
  <2> QED BY <2>9, <2>10, <2>11, <2>12, <2>13, <2>14, <2>15 DEF OnceInv
<1> QED BY <1>1, <1>2

(* The steps that send, or end a call that has its answer. *)
LEMMA SendingStepOnce ==
  ASSUME BandInv, OnceInv, NEW c \in Calls, Send(c) \/ Resend(c) \/ Resume(c)
  PROVE  OnceInv'
<1>0. /\ CallsOK /\ SessOK /\ ToVenueOK /\ call[c] \in OkCall /\ call[c] \in CallRec
      /\ On(c) \in Sessions /\ sess[On(c)].used
      /\ call[c].pc \in {"ready", "wait", "answered"} /\ call[c].on = On(c)
  BY CallNow DEF BandInv, Send, Resend, Resume, At, OnceInv, UsedKnown, On
<1>a. /\ FreshRq(c) \in Nat /\ ~InBand(FreshRq(c))
  BY <1>0, FreshRqOK
<1>b. ASSUME sess' = [sess EXCEPT ![On(c)].rq = FreshRq(c)]
      PROVE  \A s \in Sessions : sess'[s].up = sess[s].up /\ sess'[s].used = sess[s].used
  BY <1>0, <1>b DEF SessOK, SessRec
<1>1. CASE Send(c)
  <2>1. executed[c] = 0 /\ FramesOf(c) = {}
    BY <1>1 DEF Send, At, OnceInv, Unsent, BeforeSend
  <2>2. \A s \in Sessions : \A f \in InFlight(s) : f.call # c
    BY <2>1 DEF FramesOf
  <2>3. /\ Put(c, FreshRq(c), call[c]) /\ UNCHANGED <<traders, toUs, last, executed>>
        /\ sess' = [sess EXCEPT ![On(c)].rq = FreshRq(c)]
    BY <1>1 DEF Send
  <2> QED BY <1>0, <1>a, <1>b, <2>1, <2>2, <2>3, PutOnce
<1>2. CASE Resend(c)
  <2> DEFINE r == [call[c] EXCEPT !.retried = TRUE]
  <2>1. r \in CallRec /\ r.rq = call[c].rq /\ r.on = On(c) /\ r.pc = call[c].pc
    BY <1>0 DEF CallRec
  <2>2. r \in OkCall /\ call[c].rq \in Nat /\ ~InBand(call[c].rq)
    BY <1>0, <2>1 DEF OkCall, CallRec
  <2>3. /\ Put(c, call[c].rq, r) /\ UNCHANGED <<sess, traders, toUs, last, executed>>
        /\ At(c, "wait")
    BY <1>2 DEF Resend, conns
  <2> HIDE DEF r
  <2>4. \A s \in Sessions : \A f \in InFlight(s) :
          f.call = c /\ f.rq > last => s = On(c) /\ f.rq = call[c].rq
    BY <2>3 DEF OnceInv, Current, Sending, At
  <2>5. \A f \in FramesOf(c) : f.rq > last => f.rq = call[c].rq
    BY <2>4 DEF FramesOf
  <2>6. executed[c] > 0 => call[c].rq <= last /\ (sess[On(c)].up => FillAhead(On(c), call[c].rq))
    BY <2>3 DEF OnceInv, ExecutedLow, FillFirst, Sending, At
  <2> QED BY <1>0, <2>1, <2>2, <2>3, <2>4, <2>5, <2>6, PutOnce
<1>3. CASE Resume(c)
  <2>0. UNCHANGED <<traders, last, executed>> /\ At(c, "answered")
    BY <1>3 DEF Resume
  <2>1. CASE Unconfirmed(c) /\ UNCHANGED toVenue
    <3> DEFINE r == Fresh("close", 1, "unconfirmed")
    <3>1. r \in CallRec /\ r.pc = "close" /\ r.res # "none"
      BY FreshOK DEF OkCall, Fresh
    <3>2. call' = [call EXCEPT ![c] = r] /\ Close(On(c))
      BY <2>1 DEF Unconfirmed
    <3> HIDE DEF r
    <3>3. SocketsKept /\ (traders # None => sess'[traders].used)
      BY <1>0, <3>2, SocketsClosed DEF SessOK, OnceInv, UsedKnown
    <3> QED BY <2>0, <2>1, <3>1, <3>2, <3>3, QuietOnce DEF BeforeSend
  <2>2. CASE /\ call[c].answer = "sr32"
             /\ sess' = [sess EXCEPT ![On(c)].rq = FreshRq(c)]
             /\ Put(c, FreshRq(c), [call[c] EXCEPT !.sr32 = TRUE])
             /\ UNCHANGED toUs
    <3> DEFINE r == [call[c] EXCEPT !.sr32 = TRUE]
    <3>1. r \in CallRec /\ r.rq = call[c].rq /\ r.on = On(c) /\ r.pc = call[c].pc
      BY <1>0 DEF CallRec
    <3>2. r \in OkCall
      BY <1>0, <3>1 DEF OkCall
    <3>3. Put(c, FreshRq(c), r)
      BY <2>2
    <3> HIDE DEF r
    <3>4. executed[c] = 0 /\ call[c].rq <= last
      BY <2>0, <2>2 DEF OnceInv, Refused
    <3>5. \A s \in Sessions : \A f \in InFlight(s) : ~(f.call = c /\ f.rq > last)
      <4> SUFFICES ASSUME NEW s \in Sessions, NEW f \in InFlight(s), f.call = c, f.rq > last
                   PROVE  FALSE
        OBVIOUS
      <4>1. f.rq = call[c].rq
        BY <2>0 DEF OnceInv, Current, Sending, At
      <4>2. f.rq \in Nat /\ last \in Nat
        BY <1>0, FramesOK DEF BandInv, VenueOK
      <4> QED BY <3>4, <4>1, <4>2
    <3>6. \A f \in FramesOf(c) : ~(f.rq > last)
      BY <3>5 DEF FramesOf
    <3> QED BY <1>0, <1>a, <1>b, <2>0, <2>2, <3>1, <3>2, <3>3, <3>4, <3>5, <3>6, PutOnce
  <2>3. CASE /\ \E res \in {"filled", "failed"} : call' = End(c, res)
             /\ UNCHANGED <<sess, toVenue, toUs>>
    <3>1. PICK res \in {"filled", "failed"} : call' = End(c, res)
      BY <2>3
    <3> DEFINE r == Fresh("done", 1, res)
    <3>2. r \in CallRec /\ r.pc = "done"
      BY <3>1, FreshOK DEF OkCall, Fresh
    <3>3. call' = [call EXCEPT ![c] = r] /\ SocketsKept
      BY <2>3, <3>1, SocketsSame DEF End
    <3> HIDE DEF r
    <3>4. traders' # None => sess'[traders'].used
      BY <2>0, <2>3 DEF OnceInv, UsedKnown
    <3> QED BY <2>0, <2>3, <3>2, <3>3, <3>4, QuietOnce DEF BeforeSend
  <2> QED BY <1>3, <2>1, <2>2, <2>3 DEF Resume
<1> QED BY <1>1, <1>2, <1>3

-----------------------------------------------------------------------------
(* Some calls that wait are answered, and frames to the venue may be lost. *)
Answered == \A c \in Calls :
  \/ call'[c] = call[c]
  \/ /\ At(c, "wait") /\ call'[c].pc = "answered"
     /\ call'[c].on = call[c].on /\ call'[c].rq = call[c].rq

(* Answers that are kept in order with the fills, and frames that are lost, *)
(* execute nothing.                                                         *)
LEMMA AnsweredOnce ==
  ASSUME BandInv, OnceInv, Answered, UNCHANGED <<traders, last, executed>>,
         \A s \in Sessions : InFlight(s)' \subseteq InFlight(s),
         \A s \in Sessions : sess'[s].used = sess[s].used
  PROVE  /\ Unsent' /\ OneLive' /\ ExecutedDead' /\ Current' /\ ExecutedLow'
         /\ UsedKnown' /\ AtMostOnce'
<1>1. \A c \in Calls : FramesOf(c)' \subseteq FramesOf(c)
  BY DEF FramesOf
<1>2. \A c \in Calls : /\ BeforeSend(call'[c]) => BeforeSend(call[c])
                       /\ Sending(c)' => Sending(c)
                       /\ On(c)' = On(c) /\ call'[c].rq = call[c].rq
  BY DEF Answered, At, BeforeSend, Sending, On
<1>3. Unsent'
  <2> SUFFICES ASSUME NEW c \in Calls, BeforeSend(call'[c])
               PROVE  executed'[c] = 0 /\ FramesOf(c)' = {}
    BY DEF Unsent
  <2>1. executed[c] = 0 /\ FramesOf(c) = {}
    BY <1>2 DEF OnceInv, Unsent
  <2>2. FramesOf(c)' \subseteq {}
    BY <1>1, <2>1
  <2> QED BY <2>1, <2>2
<1>4. OneLive' /\ ExecutedDead'
  BY <1>1 DEF OnceInv, OneLive, ExecutedDead
<1>5. Current' /\ ExecutedLow'
  <2>1. Current'
    <3> SUFFICES ASSUME NEW c \in Calls, Sending(c)', NEW s \in Sessions, NEW f \in InFlight(s)',
                        f.call = c, f.rq > last
                 PROVE  s = On(c) /\ f.rq = call'[c].rq
      BY <1>2 DEF Current
    <3>1. Sending(c) /\ f \in InFlight(s)
      BY <1>2
    <3>2. s = On(c) /\ f.rq = call[c].rq
      BY <3>1 DEF OnceInv, Current
    <3> QED BY <1>2, <3>2
  <2>2. ExecutedLow'
    <3> SUFFICES ASSUME NEW c \in Calls, Sending(c)', executed[c] > 0
                 PROVE  call'[c].rq <= last
      BY DEF ExecutedLow
    <3>1. call[c].rq <= last
      BY <1>2 DEF OnceInv, ExecutedLow
    <3> QED BY <1>2, <3>1
  <2> QED BY <2>1, <2>2
<1>6. UsedKnown'
  <2>1. \A c \in Calls : call'[c].pc \in {"ready", "wait", "answered"}
                           => call[c].pc \in {"ready", "wait", "answered"} /\ On(c) \in Sessions
    BY CallNow DEF Answered, At, BandInv
  <2>2. traders # None => sess'[traders].used
    BY DEF OnceInv, UsedKnown, BandInv, SessOK
  <2>3. ASSUME NEW c \in Calls, call'[c].pc \in {"ready", "wait", "answered"}
        PROVE  sess'[On(c)'].used
    BY <1>2, <2>1, <2>3 DEF OnceInv, UsedKnown
  <2> QED BY <2>2, <2>3 DEF UsedKnown
<1>7. AtMostOnce'
  BY DEF OnceInv, AtMostOnce
<1> QED BY <1>3, <1>4, <1>5, <1>6, <1>7

(* A frame read: the fill of an executed call is read before a refusal.     *)
LEMMA ReadOnce ==
  ASSUME BandInv, OnceInv, NEW s \in Sessions, Read(s)
  PROVE  OnceInv'
<1> DEFINE m == Head(toUs[s])
<1>0. /\ CallsOK /\ SessOK /\ ToUsOK /\ VenueOK /\ sess[s].up /\ toUs[s] # <<>>
      /\ toUs[s] \in Seq(Msg)
  BY DEF BandInv, Read, ToUsOK
<1>1. /\ m = toUs[s][1] /\ m \in Msg /\ Len(toUs[s]) \in Nat \ {0}
      /\ Len(Tail(toUs[s])) = Len(toUs[s]) - 1
      /\ \A i \in 1..Len(Tail(toUs[s])) : Tail(toUs[s])[i] = toUs[s][i+1]
  BY <1>0, HeadTailProperties, EmptySeq
<1>2. /\ sess' = [sess EXCEPT ![s] = Bump(@, m.lfr)]
      /\ call' = [c \in Calls |->
            IF c \in Matched(s, m)
            THEN Answer(c, IF m.kind = "error" THEN "reject" ELSE m.kind) ELSE call[c]]
      /\ toUs' = [toUs EXCEPT ![s] = Tail(@)]
      /\ UNCHANGED <<traders, toVenue, last, executed>>
  BY DEF Read
<1> HIDE DEF m
<1>3. \A z \in Sessions : sess'[z].up = sess[z].up /\ sess'[z].used = sess[z].used
  <2>1. sess[s] \in SessRec
    BY <1>0 DEF SessOK
  <2>2. Bump(sess[s], m.lfr).up = sess[s].up /\ Bump(sess[s], m.lfr).used = sess[s].used
    BY <2>1 DEF Bump, SessRec
  <2> QED BY <1>0, <1>2, <2>2 DEF SessOK
<1>4. \A c \in Calls :
        IF c \in Matched(s, m)
        THEN /\ At(c, "wait") /\ On(c) = s /\ (m.kind = "error" \/ m.rq = call[c].rq)
             /\ call'[c].pc = "answered" /\ call'[c].on = call[c].on /\ call'[c].rq = call[c].rq
             /\ call'[c].answer = (IF m.kind = "error" THEN "reject" ELSE m.kind)
        ELSE call'[c] = call[c]
  <2> SUFFICES ASSUME NEW c \in Calls, c \in Matched(s, m)
               PROVE  /\ At(c, "wait") /\ On(c) = s /\ (m.kind = "error" \/ m.rq = call[c].rq)
                      /\ call'[c].pc = "answered" /\ call'[c].on = call[c].on
                      /\ call'[c].rq = call[c].rq
                      /\ call'[c].answer = (IF m.kind = "error" THEN "reject" ELSE m.kind)
    BY <1>2
  <2>1. call[c] \in CallRec
    BY <1>0, CallNow
  <2>2. call'[c] = Answer(c, IF m.kind = "error" THEN "reject" ELSE m.kind)
    BY <1>2
  <2> QED BY <2>1, <2>2 DEF Matched, Answer, CallRec
<1>5. Answered
  <2> SUFFICES ASSUME NEW c \in Calls
               PROVE  \/ call'[c] = call[c]
                      \/ /\ At(c, "wait") /\ call'[c].pc = "answered"
                         /\ call'[c].on = call[c].on /\ call'[c].rq = call[c].rq
    BY DEF Answered
  <2>1. CASE c \in Matched(s, m)
    BY <1>4, <2>1
  <2>2. CASE c \notin Matched(s, m)
    BY <1>4, <2>2
  <2> QED BY <2>1, <2>2
<1>6. \A z \in Sessions : InFlight(z)' \subseteq InFlight(z)
  BY <1>2 DEF InFlight
<1>7. RefusedLow'
  <2> SUFFICES ASSUME NEW z \in Sessions, NEW i \in 1..Len(toUs'[z]), toUs'[z][i].kind = "sr32"
               PROVE  toUs'[z][i].rq <= last
    BY <1>2 DEF RefusedLow
  <2>1. CASE z = s
    <3>1. toUs'[z] = Tail(toUs[s])
      BY <1>0, <1>2, <2>1 DEF ToUsOK
    <3>2. i + 1 \in 1..Len(toUs[s]) /\ toUs'[z][i] = toUs[s][i+1]
      BY <1>1, <3>1
    <3> QED BY <3>2 DEF OnceInv, RefusedLow
  <2>2. CASE z # s
    <3>1. toUs'[z] = toUs[z]
      BY <1>0, <1>2, <2>2 DEF ToUsOK
    <3> QED BY <3>1 DEF OnceInv, RefusedLow
  <2> QED BY <2>1, <2>2
<1>8. FillFirst'
  <2> SUFFICES ASSUME NEW c \in Calls, At(c, "wait")', executed[c] > 0, sess'[On(c)'].up
               PROVE  FillAhead(On(c), call[c].rq)'
    BY <1>2 DEF FillFirst
  <2>1. c \notin Matched(s, m) /\ call'[c] = call[c] /\ On(c)' = On(c) /\ At(c, "wait")
        /\ On(c) \in Sessions
    BY <1>0, <1>4, CallNow DEF At, On
  <2>2. FillAhead(On(c), call[c].rq)
    BY <1>3, <2>1 DEF OnceInv, FillFirst
  <2>3. CASE On(c) # s
    BY <1>0, <1>2, <2>1, <2>2, <2>3 DEF FillAhead, ToUsOK
  <2>4. CASE On(c) = s
    <3>1. PICK i \in 1..Len(toUs[s]) :
            /\ toUs[s][i].kind = "fill" /\ toUs[s][i].rq = call[c].rq
            /\ \A j \in 1..(i-1) : ~(toUs[s][j].kind = "sr32" /\ toUs[s][j].rq = call[c].rq)
      BY <2>2, <2>4 DEF FillAhead
    <3>2. i # 1
      BY <1>1, <2>1, <2>4, <3>1 DEF Matched
    <3> DEFINE k == i - 1
    <3>3. k \in 1..Len(Tail(toUs[s])) /\ toUs'[s] = Tail(toUs[s])
      BY <1>0, <1>1, <1>2, <3>1, <3>2 DEF ToUsOK
    <3>4. toUs'[s][k].kind = "fill" /\ toUs'[s][k].rq = call[c].rq
      BY <1>1, <3>1, <3>3
    <3>5. \A j \in 1..(k-1) : toUs'[s][j] = toUs[s][j+1] /\ j + 1 \in 1..(i-1)
      BY <1>1, <3>1, <3>3
    <3> HIDE DEF k
    <3>6. /\ k \in 1..Len(toUs'[s]) /\ toUs'[s][k].kind = "fill" /\ toUs'[s][k].rq = call[c].rq
          /\ \A j \in 1..(k-1) : ~(toUs'[s][j].kind = "sr32" /\ toUs'[s][j].rq = call[c].rq)
      BY <3>1, <3>3, <3>4, <3>5
    <3>7. FillAhead(On(c), call[c].rq)' <=>
            \E n \in 1..Len(toUs'[s]) :
              /\ toUs'[s][n].kind = "fill" /\ toUs'[s][n].rq = call[c].rq
              /\ \A j \in 1..(n-1) : ~(toUs'[s][j].kind = "sr32" /\ toUs'[s][j].rq = call[c].rq)
      BY <2>1, <2>4 DEF FillAhead
    <3> QED BY <3>6, <3>7
  <2> QED BY <2>3, <2>4
<1>9. Refused'
  <2> SUFFICES ASSUME NEW c \in Calls, At(c, "answered")', call'[c].answer = "sr32"
               PROVE  executed[c] = 0 /\ call'[c].rq <= last
    BY <1>2 DEF Refused
  <2>1. CASE c \in Matched(s, m)
    <3>0. /\ At(c, "wait") /\ On(c) = s /\ (m.kind = "error" \/ m.rq = call[c].rq)
          /\ call'[c].rq = call[c].rq
          /\ call'[c].answer = (IF m.kind = "error" THEN "reject" ELSE m.kind)
      BY <1>4, <2>1
    <3>1. /\ m.kind = "sr32" /\ m.rq = call[c].rq /\ At(c, "wait") /\ On(c) = s
          /\ call'[c].rq = call[c].rq
      BY <3>0
    <3>2. call[c].rq <= last
      BY <1>1, <3>1 DEF OnceInv, RefusedLow
    <3>3. ASSUME executed[c] > 0 PROVE FALSE
      <4>1. FillAhead(s, call[c].rq)
        BY <1>0, <3>1, <3>3 DEF OnceInv, FillFirst
      <4>2. PICK i \in 1..Len(toUs[s]) :
              /\ toUs[s][i].kind = "fill"
              /\ \A j \in 1..(i-1) : ~(toUs[s][j].kind = "sr32" /\ toUs[s][j].rq = call[c].rq)
        BY <4>1 DEF FillAhead
      <4>3. i # 1
        BY <1>1, <3>1, <4>2
      <4>4. 1 \in 1..(i-1)
        BY <1>1, <4>2, <4>3
      <4> QED BY <1>1, <3>1, <4>2, <4>4
    <3> QED BY <1>0, <3>1, <3>2, <3>3 DEF VenueOK
  <2>2. CASE c \notin Matched(s, m)
    BY <1>4, <2>2 DEF OnceInv, Refused, At
  <2> QED BY <2>1, <2>2
<1> QED BY <1>2, <1>3, <1>5, <1>6, <1>7, <1>8, <1>9, AnsweredOnce DEF OnceInv

(* A prefix holds nothing new. *)
LEMMA PrefixInside ==
  ASSUME NEW S, NEW q \in Seq(S), NEW n \in 0..Len(q)
  PROVE  {SubSeq(q, 1, n)[i] : i \in 1..Len(SubSeq(q, 1, n))} \subseteq {q[i] : i \in 1..Len(q)}
<1>1. Len(q) \in Nat /\ n \in Nat /\ n <= Len(q)
  BY LenProperties
<1>2. \A i \in 1..n : q[i] \in S
  BY <1>1, ElementOfSeq
<1>3. Len(SubSeq(q, 1, n)) = n /\ \A i \in 1..n : SubSeq(q, 1, n)[i] = q[i]
  BY <1>1, <1>2
<1> QED BY <1>1, <1>3

(* A socket dies. *)
LEMMA DropOnce ==
  ASSUME BandInv, OnceInv, NEW s \in Sessions, NEW told \in BOOLEAN, Drop(s, told)
  PROVE  OnceInv'
<1>0. CallsOK /\ SessOK /\ ToUsOK /\ ToVenueOK
  BY DEF BandInv
<1>1. /\ sess' = [sess EXCEPT ![s].up = FALSE]
      /\ toUs' = [toUs EXCEPT ![s] = <<>>]
      /\ call' = [c \in Calls |-> IF told /\ At(c, "wait") /\ On(c) = s
                                  THEN Answer(c, "conn") ELSE call[c]]
      /\ UNCHANGED <<traders, last, executed>>
  BY DEF Drop
<1>2. /\ \A z \in Sessions : sess'[z].used = sess[z].used
      /\ ~sess'[s].up /\ \A z \in Sessions \ {s} : sess'[z] = sess[z] /\ toUs'[z] = toUs[z]
      /\ toUs'[s] = <<>>
  BY <1>0, <1>1 DEF SessOK, SessRec, ToUsOK
<1>3. \A z \in Sessions : InFlight(z)' \subseteq InFlight(z)
  <2>1. PICK n \in 0..Len(toVenue[s]) : toVenue' = [toVenue EXCEPT ![s] = SubSeq(@, 1, n)]
    BY DEF Drop
  <2>2. /\ toVenue[s] \in Seq(OkFrame) /\ toVenue'[s] = SubSeq(toVenue[s], 1, n)
        /\ \A z \in Sessions \ {s} : toVenue'[z] = toVenue[z]
    BY <1>0, <2>1 DEF ToVenueOK
  <2>3. InFlight(s)' \subseteq InFlight(s)
    BY <2>1, <2>2, PrefixInside DEF InFlight
  <2> QED BY <2>2, <2>3 DEF InFlight
<1>4. ASSUME NEW c \in Calls
      PROVE  \/ call'[c] = call[c]
             \/ /\ At(c, "wait") /\ call'[c].pc = "answered" /\ call'[c].answer = "conn"
                /\ call'[c].on = call[c].on /\ call'[c].rq = call[c].rq
  <2>1. call[c] \in CallRec
    BY <1>0, CallNow
  <2> QED BY <1>1, <2>1 DEF Answer, CallRec
<1>5. Answered
  BY <1>4 DEF Answered
<1>6. RefusedLow'
  <2> SUFFICES ASSUME NEW z \in Sessions, NEW i \in 1..Len(toUs'[z]), toUs'[z][i].kind = "sr32"
               PROVE  toUs'[z][i].rq <= last
    BY <1>1 DEF RefusedLow
  <2>1. z # s
    BY <1>2
  <2> QED BY <1>2, <2>1 DEF OnceInv, RefusedLow
<1>7. FillFirst'
  <2> SUFFICES ASSUME NEW c \in Calls, At(c, "wait")', executed[c] > 0, sess'[On(c)'].up
               PROVE  FillAhead(On(c), call[c].rq)'
    BY <1>1 DEF FillFirst
  <2>1. call'[c] = call[c] /\ On(c)' = On(c) /\ At(c, "wait") /\ On(c) \in Sessions
    BY <1>0, <1>4, CallNow DEF At, On
  <2>2. On(c) # s /\ sess[On(c)].up /\ toUs'[On(c)] = toUs[On(c)]
    BY <1>2, <2>1
  <2>3. FillAhead(On(c), call[c].rq)
    BY <2>1, <2>2 DEF OnceInv, FillFirst
  <2> QED BY <2>1, <2>2, <2>3 DEF FillAhead
<1>8. Refused'
  <2> SUFFICES ASSUME NEW c \in Calls, At(c, "answered")', call'[c].answer = "sr32"
               PROVE  executed[c] = 0 /\ call'[c].rq <= last
    BY <1>1 DEF Refused
  <2>1. call'[c] = call[c]
    BY <1>4
  <2> QED BY <2>1 DEF OnceInv, Refused, At
<1> QED BY <1>1, <1>2, <1>3, <1>5, <1>6, <1>7, <1>8, AnsweredOnce DEF OnceInv

-----------------------------------------------------------------------------
(* The venue's number only grows. *)
LEMMA LastGrows ==
  ASSUME BandInv, OnceInv, UNCHANGED <<call, sess, traders, executed>>,
         last' \in Nat, last' >= last,
         \A s \in Sessions : InFlight(s)' \subseteq InFlight(s)
  PROVE  /\ Unsent' /\ OneLive' /\ ExecutedDead' /\ Current' /\ ExecutedLow'
         /\ Refused' /\ UsedKnown' /\ AtMostOnce'
<1>0. CallsOK /\ ToVenueOK /\ VenueOK
  BY DEF BandInv
<1>1. \A c \in Calls : FramesOf(c)' \subseteq FramesOf(c)
  BY DEF FramesOf
<1>2. \A c \in Calls : \A f \in FramesOf(c) : f.rq \in Nat
  BY <1>0, FramesOK DEF FramesOf
<1>3. \A c \in Calls : call[c].rq \in Nat
  BY <1>0, CallNow DEF CallRec
<1>4. Unsent'
  <2> SUFFICES ASSUME NEW c \in Calls, BeforeSend(call[c])
               PROVE  executed[c] = 0 /\ FramesOf(c)' = {}
    BY DEF Unsent
  <2>1. executed[c] = 0 /\ FramesOf(c) = {}
    BY DEF OnceInv, Unsent
  <2> QED BY <1>1, <2>1
<1>5. OneLive'
  <2> SUFFICES ASSUME NEW c \in Calls, NEW f \in FramesOf(c)', NEW g \in FramesOf(c)',
                      f.rq > last', g.rq > last'
               PROVE  f.rq = g.rq
    BY DEF OneLive
  <2>1. f \in FramesOf(c) /\ g \in FramesOf(c)
    BY <1>1
  <2>2. f.rq > last /\ g.rq > last
    BY <1>0, <1>2, <2>1 DEF VenueOK
  <2> QED BY <2>1, <2>2 DEF OnceInv, OneLive
<1>6. ExecutedDead'
  <2> SUFFICES ASSUME NEW c \in Calls, executed[c] > 0, NEW f \in FramesOf(c)'
               PROVE  f.rq <= last'
    BY DEF ExecutedDead
  <2>1. f \in FramesOf(c) /\ f.rq <= last
    BY <1>1 DEF OnceInv, ExecutedDead
  <2> QED BY <1>0, <1>2, <2>1 DEF VenueOK
<1>7. Current'
  <2> SUFFICES ASSUME NEW c \in Calls, Sending(c), NEW s \in Sessions, NEW f \in InFlight(s)',
                      f.call = c, f.rq > last'
               PROVE  s = On(c) /\ f.rq = call[c].rq
    BY DEF Current, Sending, On
  <2>1. f \in InFlight(s) /\ f.rq \in Nat
    BY <1>0, FramesOK
  <2>2. f.rq > last
    BY <1>0, <2>1 DEF VenueOK
  <2> QED BY <2>1, <2>2 DEF OnceInv, Current
<1>8. ExecutedLow' /\ Refused'
  BY <1>0, <1>3 DEF OnceInv, ExecutedLow, Refused, Sending, At, VenueOK
<1>9. UsedKnown' /\ AtMostOnce'
  BY DEF OnceInv, UsedKnown, AtMostOnce, On
<1> QED BY <1>4, <1>5, <1>6, <1>7, <1>8, <1>9

(* A message that is no refusal of a live id joins those on their way to us. *)
LEMMA ReplyKeeps ==
  ASSUME BandInv, OnceInv, NEW s \in Sessions, NEW m \in Msg,
         toUs' = toUs \/ toUs' = [toUs EXCEPT ![s] = Append(@, m)],
         UNCHANGED <<call, sess>>, last' \in Nat, last' >= last,
         m.kind = "sr32" => m.rq <= last'
  PROVE  /\ RefusedLow'
         /\ \A c \in Calls : At(c, "wait") /\ executed[c] > 0 /\ sess[On(c)].up
                                => FillAhead(On(c), call[c].rq)'
<1>0. CallsOK /\ ToUsOK /\ VenueOK
  BY DEF BandInv
<1>1. ASSUME NEW z \in Sessions
      PROVE  /\ Len(toUs[z]) \in Nat /\ Len(toUs'[z]) >= Len(toUs[z]) /\ Len(toUs'[z]) \in Nat
             /\ \A i \in 1..Len(toUs[z]) : toUs'[z][i] = toUs[z][i] /\ toUs[z][i] \in Msg
             /\ \A i \in 1..Len(toUs'[z]) : i \in 1..Len(toUs[z]) \/ toUs'[z][i] = m
  <2>1. toUs[z] \in Seq(Msg) /\ Len(toUs[z]) \in Nat
    BY <1>0, LenProperties DEF ToUsOK
  <2>2. \A i \in 1..Len(toUs[z]) : toUs[z][i] \in Msg
    BY <2>1, ElementOfSeq
  <2>3. CASE toUs'[z] = toUs[z]
    BY <2>1, <2>2, <2>3
  <2>4. CASE toUs'[z] = Append(toUs[z], m)
    <3>1. /\ Len(toUs'[z]) = Len(toUs[z]) + 1
          /\ \A i \in 1..Len(toUs[z]) : toUs'[z][i] = toUs[z][i]
          /\ toUs'[z][Len(toUs[z]) + 1] = m
      BY <2>1, <2>4, AppendProperties
    <3> QED BY <2>1, <2>2, <3>1
  <2> QED BY <1>0, <2>3, <2>4 DEF ToUsOK
<1>2. RefusedLow'
  <2> SUFFICES ASSUME NEW z \in Sessions, NEW i \in 1..Len(toUs'[z]), toUs'[z][i].kind = "sr32"
               PROVE  toUs'[z][i].rq <= last'
    BY DEF RefusedLow
  <2>1. CASE toUs'[z][i] = m
    BY <2>1
  <2>2. CASE i \in 1..Len(toUs[z])
    <3>1. toUs'[z][i] = toUs[z][i] /\ toUs[z][i].rq \in Nat
      BY <1>1, <2>2 DEF Msg
    <3>2. toUs[z][i].rq <= last
      BY <2>2, <3>1 DEF OnceInv, RefusedLow
    <3> QED BY <1>0, <3>1, <3>2 DEF VenueOK
  <2> QED BY <1>1, <2>1, <2>2
<1>3. ASSUME NEW c \in Calls, At(c, "wait"), executed[c] > 0, sess[On(c)].up
      PROVE  FillAhead(On(c), call[c].rq)'
  <2>1. On(c) \in Sessions /\ On(c)' = On(c)
    BY <1>0, <1>3, CallNow DEF At, On
  <2>2. FillAhead(On(c), call[c].rq)
    BY <1>3 DEF OnceInv, FillFirst
  <2> PICK z \in Sessions : z = On(c)
    BY <2>1
  <2>3. PICK i \in 1..Len(toUs[z]) :
          /\ toUs[z][i].kind = "fill" /\ toUs[z][i].rq = call[c].rq
          /\ \A j \in 1..(i-1) : ~(toUs[z][j].kind = "sr32" /\ toUs[z][j].rq = call[c].rq)
    BY <2>2 DEF FillAhead
  <2>4. i \in 1..Len(toUs'[z]) /\ \A j \in 1..(i-1) : j \in 1..Len(toUs[z])
    BY <1>1, <2>3
  <2>5. /\ toUs'[z][i].kind = "fill" /\ toUs'[z][i].rq = call[c].rq
        /\ \A j \in 1..(i-1) : ~(toUs'[z][j].kind = "sr32" /\ toUs'[z][j].rq = call[c].rq)
    BY <1>1, <2>3, <2>4
  <2> QED BY <2>1, <2>4, <2>5 DEF FillAhead
<1> QED BY <1>2, <1>3

(* The venue refuses, ignores or rejects a frame, or another client moves   *)
(* its number: nothing is executed.                                         *)
LEMMA VenueQuietOnce ==
  ASSUME BandInv, OnceInv, UNCHANGED <<call, sess, traders, executed>>,
         last' \in Nat, last' >= last,
         \A s \in Sessions : InFlight(s)' \subseteq InFlight(s),
         UNCHANGED toUs \/ \E s \in Sessions, m \in Msg :
           toUs' \in {toUs, [toUs EXCEPT ![s] = Append(@, m)]} /\ (m.kind = "sr32" => m.rq <= last')
  PROVE  OnceInv'
<1>1. RefusedLow' /\ FillFirst'
  <2>1. CASE UNCHANGED toUs
    <3>1. RefusedLow'
      <4> SUFFICES ASSUME NEW z \in Sessions, NEW i \in 1..Len(toUs[z]), toUs[z][i].kind = "sr32"
                   PROVE  toUs[z][i].rq <= last'
        BY <2>1 DEF RefusedLow
      <4>0. toUs[z] \in Seq(Msg)
        BY DEF BandInv, ToUsOK
      <4>1. toUs[z][i].rq \in Nat
        <5>1. toUs[z][i] \in Msg
          BY <4>0, ElementOfSeq
        <5> QED BY <5>1 DEF Msg
      <4>2. toUs[z][i].rq <= last
        BY DEF OnceInv, RefusedLow
      <4> QED BY <4>1, <4>2 DEF BandInv, VenueOK
    <3>2. FillFirst'
      BY <2>1 DEF OnceInv, FillFirst, FillAhead, At, On
    <3> QED BY <3>1, <3>2
  <2>2. CASE \E s \in Sessions, m \in Msg :
           toUs' \in {toUs, [toUs EXCEPT ![s] = Append(@, m)]} /\ (m.kind = "sr32" => m.rq <= last')
    <3>1. PICK s \in Sessions, m \in Msg :
            toUs' \in {toUs, [toUs EXCEPT ![s] = Append(@, m)]} /\ (m.kind = "sr32" => m.rq <= last')
      BY <2>2
    <3>2. RefusedLow' /\ \A c \in Calls : At(c, "wait") /\ executed[c] > 0 /\ sess[On(c)].up
                                          => FillAhead(On(c), call[c].rq)'
      BY <3>1, ReplyKeeps
    <3>3. FillFirst'
      BY <3>2 DEF FillFirst, At, On
    <3> QED BY <3>2, <3>3
  <2> QED BY <2>1, <2>2
<1> QED BY <1>1, LastGrows DEF OnceInv

(* The venue executes a frame: its call had not been executed, and no other *)
(* frame of it stays live.                                                  *)
LEMMA ExecutesOnce ==
  ASSUME BandInv, OnceInv, NEW s \in Sessions, NEW f \in InFlight(s), f.rq > last,
         UNCHANGED <<call, sess, traders>>, last' = f.rq,
         executed' = [executed EXCEPT ![f.call] = @ + 1],
         Reply(s, "fill", f.rq, 0),
         \A z \in Sessions : InFlight(z)' \subseteq InFlight(z)
  PROVE  OnceInv'
<1> DEFINE c == f.call
           m == [kind |-> "fill", rq |-> f.rq, lfr |-> 0]
<1>0. CallsOK /\ ToVenueOK /\ ToUsOK /\ VenueOK /\ call \in [Calls -> OkCall]
  BY DEF BandInv, CallsOK
<1>1. c \in Calls /\ f.rq \in Nat /\ last \in Nat /\ last' \in Nat /\ f \in FramesOf(c)
  BY <1>0, FramesOK DEF FramesOf, VenueOK
<1>2. executed[c] = 0 /\ executed'[c] = 1 /\ \A d \in Calls \ {c} : executed'[d] = executed[d]
  <2>1. executed[c] \in Nat /\ executed \in [Calls -> Nat]
    BY <1>0, <1>1 DEF VenueOK
  <2>2. ~(executed[c] > 0)
    <3>1. ASSUME executed[c] > 0 PROVE FALSE
      <4>1. f.rq <= last
        BY <1>1, <3>1 DEF OnceInv, ExecutedDead
      <4> QED BY <1>1, <4>1
    <3> QED BY <3>1
  <2> QED BY <1>1, <2>1, <2>2
<1>3. m \in Msg /\ m.kind = "fill" /\ m.rq = f.rq
  BY <1>1 DEF Msg
<1>4. toUs' = IF sess[s].up THEN [toUs EXCEPT ![s] = Append(@, m)] ELSE toUs
  BY DEF Reply
<1> HIDE DEF c, m
<1>5. \A d \in Calls : FramesOf(d)' \subseteq FramesOf(d)
  BY DEF FramesOf
<1>6. \A d \in Calls : \A g \in FramesOf(d) : g.rq \in Nat
  BY <1>0, FramesOK DEF FramesOf
<1>7. \A d \in Calls : call[d].rq \in Nat
  BY <1>0, CallNow DEF CallRec
<1>8. Unsent'
  <2> SUFFICES ASSUME NEW d \in Calls, BeforeSend(call[d])
               PROVE  executed'[d] = 0 /\ FramesOf(d)' = {}
    BY DEF Unsent
  <2>1. executed[d] = 0 /\ FramesOf(d) = {}
    BY DEF OnceInv, Unsent
  <2>2. d # c
    BY <1>1, <2>1
  <2> QED BY <1>2, <1>5, <2>1, <2>2
<1>9. OneLive'
  <2> SUFFICES ASSUME NEW d \in Calls, NEW g \in FramesOf(d)', NEW h \in FramesOf(d)',
                      g.rq > last', h.rq > last'
               PROVE  g.rq = h.rq
    BY DEF OneLive
  <2>1. g \in FramesOf(d) /\ h \in FramesOf(d) /\ g.rq > last /\ h.rq > last
    BY <1>1, <1>5, <1>6
  <2> QED BY <2>1 DEF OnceInv, OneLive
<1>10. ExecutedDead'
  <2> SUFFICES ASSUME NEW d \in Calls, executed'[d] > 0, NEW g \in FramesOf(d)', g.rq > last'
               PROVE  FALSE
    <3>1. \A d \in Calls : \A g \in FramesOf(d)' : g.rq \in Nat
      BY <1>5, <1>6
    <3> QED BY <1>1, <3>1 DEF ExecutedDead
  <2>1. g \in FramesOf(d) /\ g.rq > last
    BY <1>1, <1>5, <1>6
  <2>2. CASE d = c
    BY <1>1, <2>1, <2>2 DEF OnceInv, OneLive
  <2>3. CASE d # c
    <3>1. g.rq <= last /\ g.rq \in Nat
      BY <1>2, <1>6, <2>1, <2>3 DEF OnceInv, ExecutedDead
    <3> QED BY <1>1, <2>1, <3>1
  <2> QED BY <2>2, <2>3
<1>11. \A d \in Calls : \A z \in Sessions : \A g \in InFlight(z) :
         Sending(d) /\ g.call = d /\ g.rq > last => z = On(d) /\ g.rq = call[d].rq
  BY DEF OnceInv, Current
<1>12. Current'
  <2> SUFFICES ASSUME NEW d \in Calls, Sending(d), NEW z \in Sessions, NEW g \in InFlight(z)',
                      g.call = d, g.rq > last'
               PROVE  z = On(d) /\ g.rq = call[d].rq
    BY DEF Current, Sending, On
  <2>1. g \in InFlight(z) /\ g.rq \in Nat
    BY <1>0, FramesOK
  <2>2. g.rq > last
    BY <1>1, <2>1
  <2> QED BY <1>11, <2>1, <2>2
<1>13. Sending(c) => On(c) = s /\ call[c].rq = f.rq
  BY <1>1, <1>11 DEF c
<1>14. ExecutedLow'
  <2> SUFFICES ASSUME NEW d \in Calls, Sending(d), executed'[d] > 0
               PROVE  call[d].rq <= last'
    BY DEF ExecutedLow, Sending
  <2>1. CASE d = c
    BY <1>1, <1>13, <2>1
  <2>2. CASE d # c
    <3>1. call[d].rq <= last
      BY <1>2, <2>2 DEF OnceInv, ExecutedLow
    <3> QED BY <1>1, <1>7, <3>1
  <2> QED BY <2>1, <2>2
<1>15. /\ RefusedLow'
       /\ \A d \in Calls : At(d, "wait") /\ executed[d] > 0 /\ sess[On(d)].up
                            => FillAhead(On(d), call[d].rq)'
  BY <1>1, <1>3, <1>4, ReplyKeeps
<1>16. FillFirst'
  <2> SUFFICES ASSUME NEW d \in Calls, At(d, "wait"), executed'[d] > 0, sess[On(d)].up
               PROVE  FillAhead(On(d), call[d].rq)'
    BY DEF FillFirst, At, On
  <2>1. CASE d # c
    BY <1>2, <1>15, <2>1
  <2>2. CASE d = c
    <3> DEFINE n == Len(toUs[s])
    <3>1. On(c) = s /\ On(c)' = s /\ call[c].rq = f.rq
      BY <1>13, <2>2 DEF Sending, At, On
    <3>2. toUs[s] \in Seq(Msg) /\ n \in Nat
      BY <1>0, LenProperties DEF ToUsOK
    <3>3. toUs'[s] = Append(toUs[s], m)
      BY <1>0, <1>4, <2>2, <3>1 DEF ToUsOK
    <3>4. /\ Len(toUs'[s]) = n + 1 /\ toUs'[s][n+1] = m
          /\ \A i \in 1..n : toUs'[s][i] = toUs[s][i]
      BY <1>3, <3>2, <3>3, AppendProperties
    <3> HIDE DEF n
    <3>5. \A j \in 1..n : ~(toUs'[s][j].kind = "sr32" /\ toUs'[s][j].rq = f.rq)
      <4> SUFFICES ASSUME NEW j \in 1..n, toUs[s][j].kind = "sr32", toUs[s][j].rq = f.rq
                   PROVE  FALSE
        BY <3>4
      <4>1. toUs[s][j].rq <= last
        BY DEF OnceInv, RefusedLow, n
      <4> QED BY <1>1, <4>1
    <3>6. n + 1 \in 1..Len(toUs'[s]) /\ (n + 1) - 1 = n
      BY <3>2, <3>4
    <3>7. FillAhead(On(c), call[c].rq)' <=>
            \E i \in 1..Len(toUs'[s]) :
              /\ toUs'[s][i].kind = "fill" /\ toUs'[s][i].rq = f.rq
              /\ \A j \in 1..(i-1) : ~(toUs'[s][j].kind = "sr32" /\ toUs'[s][j].rq = f.rq)
      BY <3>1 DEF FillAhead
    <3>8. FillAhead(On(c), call[c].rq)'
      BY <1>3, <3>4, <3>5, <3>6, <3>7
    <3> QED BY <2>2, <3>8
  <2> QED BY <2>1, <2>2
<1>17. Refused'
  <2> SUFFICES ASSUME NEW d \in Calls, At(d, "answered"), call[d].answer = "sr32"
               PROVE  executed'[d] = 0 /\ call[d].rq <= last'
    BY DEF Refused, At
  <2>1. executed[d] = 0 /\ call[d].rq <= last
    BY DEF OnceInv, Refused
  <2>2. d # c
    BY <1>1, <1>7, <1>13, <2>1 DEF Sending, At
  <2> QED BY <1>1, <1>2, <1>7, <2>1, <2>2
<1>18. UsedKnown' /\ AtMostOnce'
  BY <1>2 DEF OnceInv, UsedKnown, AtMostOnce, On
<1> QED BY <1>8, <1>9, <1>10, <1>12, <1>14, <1>15, <1>16, <1>17, <1>18 DEF OnceInv

(* A step of the venue that always sends the fill of what it executes. *)
LEMMA VenueOnce ==
  ASSUME BandInv, OnceInv, ~May("mute"), NEW s \in Sessions, Venue(s)
  PROVE  OnceInv'
<1> DEFINE f == Head(toVenue[s])
<1>0. ToVenueOK /\ VenueOK /\ toVenue[s] # <<>> /\ toVenue[s] \in Seq(OkFrame)
  BY DEF BandInv, Venue, ToVenueOK
<1>1. /\ f = toVenue[s][1] /\ Len(toVenue[s]) \in Nat \ {0}
      /\ Len(Tail(toVenue[s])) = Len(toVenue[s]) - 1
      /\ \A i \in 1..Len(Tail(toVenue[s])) : Tail(toVenue[s])[i] = toVenue[s][i+1]
  BY <1>0, HeadTailProperties, EmptySeq
<1>2. f \in InFlight(s)
  BY <1>1 DEF InFlight
<1>3. f.rq \in Nat /\ ~InBand(f.rq) /\ last \in Nat
  BY <1>0, <1>2, FramesOK DEF VenueOK, OkFrame
<1>4. toVenue' = [toVenue EXCEPT ![s] = Tail(@)] /\ UNCHANGED <<call, sess, traders>>
  BY DEF Venue, conns
<1>5. \A z \in Sessions : InFlight(z)' \subseteq InFlight(z)
  <2>1. InFlight(s)' \subseteq InFlight(s)
    <3>1. toVenue'[s] = Tail(toVenue[s])
      BY <1>0, <1>4 DEF ToVenueOK
    <3>2. \A i \in 1..Len(toVenue'[s]) :
            toVenue'[s][i] = toVenue[s][i+1] /\ i + 1 \in 1..Len(toVenue[s])
      BY <1>1, <3>1
    <3> QED BY <3>2 DEF InFlight
  <2>2. \A z \in Sessions \ {s} : toVenue'[z] = toVenue[z]
    BY <1>0, <1>4 DEF ToVenueOK
  <2> QED BY <2>1, <2>2 DEF InFlight
<1>6. \/ /\ f.rq > last /\ last' = f.rq
         /\ executed' = [executed EXCEPT ![f.call] = @ + 1] /\ Reply(s, "fill", f.rq, 0)
      \/ /\ f.rq > last /\ last' = f.rq
         /\ UNCHANGED executed /\ Reply(s, "reject", f.rq, 0)
      \/ /\ ~(f.rq > last) /\ UNCHANGED <<last, executed>>
         /\ UNCHANGED toUs \/ \E lfr \in {0, last} : Reply(s, "sr32", f.rq, lfr)
  BY <1>3 DEF Venue
<1> HIDE DEF f
<1>7. CASE /\ f.rq > last /\ last' = f.rq
           /\ executed' = [executed EXCEPT ![f.call] = @ + 1] /\ Reply(s, "fill", f.rq, 0)
  BY <1>2, <1>4, <1>5, <1>7, ExecutesOnce
<1>8. CASE /\ f.rq > last /\ last' = f.rq
           /\ UNCHANGED executed /\ Reply(s, "reject", f.rq, 0)
  <2> DEFINE m == [kind |-> "reject", rq |-> f.rq, lfr |-> 0]
  <2>1. m \in Msg /\ m.kind # "sr32" /\ toUs' \in {toUs, [toUs EXCEPT ![s] = Append(@, m)]}
    BY <1>3, <1>8 DEF Msg, Reply
  <2> HIDE DEF m
  <2>2. last' \in Nat /\ last' >= last
    BY <1>3, <1>8
  <2> QED BY <1>4, <1>5, <1>8, <2>1, <2>2, VenueQuietOnce
<1>9. CASE /\ ~(f.rq > last) /\ UNCHANGED <<last, executed>>
           /\ UNCHANGED toUs \/ \E lfr \in {0, last} : Reply(s, "sr32", f.rq, lfr)
  <2>1. last' \in Nat /\ last' >= last /\ f.rq <= last'
    BY <1>3, <1>9
  <2>2. CASE UNCHANGED toUs
    BY <1>4, <1>5, <1>9, <2>1, <2>2, VenueQuietOnce
  <2>3. CASE \E lfr \in {0, last} : Reply(s, "sr32", f.rq, lfr)
    <3>1. PICK lfr \in {0, last} : Reply(s, "sr32", f.rq, lfr)
      BY <2>3
    <3> DEFINE m == [kind |-> "sr32", rq |-> f.rq, lfr |-> lfr]
    <3>2. m \in Msg /\ m.rq = f.rq /\ toUs' \in {toUs, [toUs EXCEPT ![s] = Append(@, m)]}
      BY <1>3, <3>1 DEF Msg, Reply
    <3> HIDE DEF m
    <3> QED BY <1>4, <1>5, <1>9, <2>1, <3>2, VenueQuietOnce
  <2> QED BY <1>9, <2>2, <2>3
<1> QED BY <1>6, <1>7, <1>8, <1>9

(* Other clients and error frames execute nothing of ours. *)
LEMMA OthersOnce ==
  ASSUME BandInv, OnceInv, OtherClient \/ \E s \in Sessions : VenueError(s)
  PROVE  OnceInv'
<1>0. \A s \in Sessions : InFlight(s)' \subseteq InFlight(s)
  BY DEF OtherClient, VenueError, InFlight
<1>1. UNCHANGED <<call, sess, traders, executed>> /\ last \in Nat
  BY DEF OtherClient, VenueError, conns, BandInv, VenueOK
<1>2. CASE OtherClient
  <2>1. last' \in Nat /\ last' >= last /\ UNCHANGED toUs
    BY <1>1, <1>2, NextRqOutside DEF OtherClient
  <2> QED BY <1>0, <1>1, <2>1, VenueQuietOnce
<1>3. CASE \E s \in Sessions : VenueError(s)
  <2>1. PICK s \in Sessions : VenueError(s)
    BY <1>3
  <2> DEFINE m == [kind |-> "error", rq |-> 0, lfr |-> 0]
  <2>2. /\ m \in Msg /\ m.kind # "sr32" /\ last' = last
        /\ toUs' = [toUs EXCEPT ![s] = Append(@, m)]
    BY <2>1 DEF VenueError, Msg
  <2> HIDE DEF m
  <2>3. last' \in Nat /\ last' >= last
    BY <1>1, <2>2
  <2> QED BY <1>0, <1>1, <2>2, <2>3, VenueQuietOnce
<1> QED BY <1>2, <1>3

-----------------------------------------------------------------------------
(* At the start nothing is sent. *)
LEMMA OnceInit == Init => OnceInv
<1> SUFFICES ASSUME Init PROVE OnceInv
  OBVIOUS
<1>1. /\ \A c \in Calls : call[c].pc = "idle" /\ executed[c] = 0
      /\ \A s \in Sessions : toVenue[s] = <<>> /\ toUs[s] = <<>>
      /\ traders = None
  BY DEF Init, Fresh
<1>2. \A s \in Sessions : InFlight(s) = {} /\ Len(toUs[s]) = 0
  BY <1>1 DEF InFlight
<1>3. \A c \in Calls : FramesOf(c) = {}
  BY <1>2 DEF FramesOf
<1> QED BY <1>1, <1>2, <1>3 DEF OnceInv, Unsent, OneLive, ExecutedDead, Current, ExecutedLow,
          RefusedLow, FillFirst, Refused, UsedKnown, AtMostOnce, Sending, At

(* Every step executes no call again. *)
LEMMA OnceNext == ~May("mute") /\ BandInv /\ OnceInv /\ [Next]_vars => OnceInv'
<1> SUFFICES ASSUME ~May("mute"), BandInv, OnceInv, [Next]_vars PROVE OnceInv'
  OBVIOUS
<1>1. ASSUME NEW c \in Calls, CallStep(c) PROVE OnceInv'
  BY <1>1, QuietStepOnce, SendingStepOnce DEF CallStep
<1>2. ASSUME NEW s \in Sessions,
             Read(s) \/ Venue(s) \/ VenueError(s) \/ \E told \in BOOLEAN : Drop(s, told)
      PROVE OnceInv'
  BY <1>2, ReadOnce, VenueOnce, OthersOnce, DropOnce
<1>3. CASE OtherClient
  BY <1>3, OthersOnce
<1>4. CASE UNCHANGED vars
  <2> USE <1>4 DEF vars, conns
  <2>0. \A c \in Calls : FramesOf(c)' = FramesOf(c)
    BY DEF FramesOf, InFlight
  <2>1. Unsent' /\ OneLive' /\ ExecutedDead'
    BY <2>0 DEF OnceInv, Unsent, OneLive, ExecutedDead
  <2>2. Current' /\ ExecutedLow' /\ RefusedLow'
    BY DEF OnceInv, Current, ExecutedLow, RefusedLow, Sending, On, InFlight
  <2>3. FillFirst' /\ Refused' /\ UsedKnown' /\ AtMostOnce'
    BY DEF OnceInv, FillFirst, FillAhead, Refused, UsedKnown, AtMostOnce, At, On
  <2> QED BY <2>1, <2>2, <2>3 DEF OnceInv
<1> QED BY <1>1, <1>2, <1>3, <1>4 DEF Next

(* As long as the venue sends the fill of what it executes on the socket the *)
(* order came on, timeouts, resends, refused ids, dying sockets and other    *)
(* clients never make an order execute twice (perpl_ws.py:176-223,           *)
(* executor.py:72-91).                                                       *)
THEOREM ExecutedAtMostOnce == ASSUME ~May("mute") PROVE Spec => []AtMostOnce
<1>1. OnceInv => AtMostOnce
  BY DEF OnceInv
<1>2. Init => BandInv /\ OnceInv
  BY BandInit, OnceInit
<1>3. (BandInv /\ OnceInv) /\ [Next]_vars => (BandInv /\ OnceInv)'
  BY BandNext, OnceNext
<1> QED BY <1>1, <1>2, <1>3, PTL DEF Spec

(*****************************************************************************)
(* A fill that a call reports is its own, for any calls, sockets and faults, *)
(* and even when the venue does not answer what it executed: ids are only    *)
(* unique on their socket, and what keeps a call from reading an answer that *)
(* is another's is that a socket's ids only grow, past every id under way in *)
(* either direction.                                                         *)
(*****************************************************************************)

(* The ids of the fills on their way to us. *)
FillAt(s, i) == toUs[s][i].kind = "fill"
FillsTo(s) == {toUs[s][i].rq : i \in {j \in 1..Len(toUs[s]) : FillAt(s, j)}}

(* Every id under way on a socket, or in use by a call, was given out by it. *)
IdsGivenOut ==
  /\ \A s \in Sessions : \A f \in InFlight(s) : f.rq <= sess[s].rq
  /\ \A s \in Sessions : \A q \in FillsTo(s) : q <= sess[s].rq
  /\ \A c \in Calls : Sending(c) => call[c].rq <= sess[On(c)].rq

(* No two calls use an id of the same socket, and no frame carries the id of *)
(* another call than the one that uses it.                                   *)
IdsOwned ==
  /\ \A c, d \in Calls : Sending(c) /\ Sending(d) /\ On(c) = On(d) /\ call[c].rq = call[d].rq => c = d
  /\ \A d \in Calls : Sending(d) => \A f \in InFlight(On(d)) : f.rq = call[d].rq => f.call = d

(* A fill under the id of a call, and one that it has read, are of that call. *)
FillsOwned ==
  /\ \A c \in Calls : Sending(c) /\ call[c].rq \in FillsTo(On(c)) => executed[c] > 0
  /\ \A c \in Calls : At(c, "answered") /\ call[c].answer = "fill" => executed[c] > 0

FillInv == IdsGivenOut /\ IdsOwned /\ FillsOwned /\ FillIsOurs

(* Numbers, for the comparisons. *)
LEMMA FillNumbers ==
  ASSUME BandInv
  PROVE  /\ \A s \in Sessions : /\ sess[s].rq \in Nat /\ sess[s].lfr \in Nat
                                /\ \A f \in InFlight(s) : f.rq \in Nat /\ f.call \in Calls
                                /\ \A q \in FillsTo(s) : q \in Nat
         /\ \A c \in Calls : /\ call[c].rq \in Nat /\ executed[c] \in Nat
                             /\ Sending(c) => On(c) \in Sessions
<1>0. CallsOK /\ SessOK /\ ToVenueOK /\ ToUsOK /\ VenueOK
  BY DEF BandInv
<1>1. ASSUME NEW s \in Sessions PROVE sess[s].rq \in Nat /\ sess[s].lfr \in Nat
  <2>1. sess[s] \in SessRec
    BY <1>0 DEF SessOK
  <2> QED BY <2>1 DEF SessRec
<1>2. ASSUME NEW s \in Sessions, NEW q \in FillsTo(s) PROVE q \in Nat
  <2>1. PICK i \in 1..Len(toUs[s]) : q = toUs[s][i].rq
    BY DEF FillsTo
  <2>2. toUs[s] \in Seq(Msg)
    BY <1>0 DEF ToUsOK
  <2>3. toUs[s][i] \in Msg
    BY <2>2, ElementOfSeq
  <2> QED BY <2>1, <2>3 DEF Msg
<1>3. ASSUME NEW c \in Calls
      PROVE  call[c].rq \in Nat /\ executed[c] \in Nat /\ (Sending(c) => On(c) \in Sessions)
  <2>1. call[c] \in CallRec
    BY <1>0, CallNow
  <2>2. call[c].rq \in Nat
    BY <2>1 DEF CallRec
  <2>3. executed[c] \in Nat
    BY <1>0 DEF VenueOK
  <2>4. Sending(c) => On(c) \in Sessions
    BY <1>0, CallNow DEF Sending
  <2> QED BY <2>2, <2>3, <2>4
<1> QED BY <1>0, <1>1, <1>2, <1>3, FramesOK

(* A step that gives out no id: what is under way gets less, but for the     *)
(* fill of a frame that was executed; no call starts to wait.                *)
LEMMA FillsKept ==
  ASSUME BandInv, FillInv, BandInv',
         \A s \in Sessions : /\ InFlight(s)' \subseteq InFlight(s) /\ sess[s].rq <= sess'[s].rq
                             /\ \A q \in FillsTo(s)' :
                                  q \in FillsTo(s) \/ \E f \in InFlight(s) : f.rq = q /\ executed'[f.call] > 0,
         \A c \in Calls : /\ executed[c] > 0 => executed'[c] > 0
                          /\ Sending(c)' => Sending(c) /\ On(c)' = On(c) /\ call'[c].rq = call[c].rq
                          /\ At(c, "answered")' /\ call'[c].answer = "fill" => executed'[c] > 0
                          /\ call'[c].res = "filled" => executed'[c] > 0
  PROVE  FillInv'
<1>1. /\ IdsGivenOut /\ IdsOwned /\ FillsOwned
      /\ \A s \in Sessions : /\ sess[s].rq \in Nat /\ \A f \in InFlight(s) : f.rq \in Nat
                             /\ \A q \in FillsTo(s) : q \in Nat
      /\ \A c \in Calls : call[c].rq \in Nat /\ (Sending(c) => On(c) \in Sessions)
  BY FillNumbers DEF FillInv
<1>2. \A s \in Sessions : sess'[s].rq \in Nat
  BY DEF BandInv, SessOK, SessRec
<1>3. IdsGivenOut'
  <2>1. ASSUME NEW s \in Sessions, NEW f \in InFlight(s)' PROVE f.rq <= sess'[s].rq
    <3>1. f \in InFlight(s) /\ f.rq <= sess[s].rq /\ f.rq \in Nat
      BY <1>1 DEF IdsGivenOut
    <3> QED BY <1>1, <1>2, <3>1
  <2>2. ASSUME NEW s \in Sessions, NEW q \in FillsTo(s)' PROVE q <= sess'[s].rq
    <3>1. q \in Nat /\ q <= sess[s].rq
      BY <1>1 DEF IdsGivenOut
    <3> QED BY <1>1, <1>2, <3>1
  <2>3. ASSUME NEW c \in Calls, Sending(c)' PROVE call'[c].rq <= sess'[On(c)'].rq
    <3>1. Sending(c) /\ On(c)' = On(c) /\ call'[c].rq = call[c].rq
      BY <2>3
    <3>2. On(c) \in Sessions /\ call[c].rq <= sess[On(c)].rq
      BY <1>1, <3>1 DEF IdsGivenOut
    <3> QED BY <1>1, <1>2, <3>1, <3>2
  <2> QED BY <2>1, <2>2, <2>3 DEF IdsGivenOut
<1>4. IdsOwned'
  <2>1. ASSUME NEW c \in Calls, NEW d \in Calls, Sending(c)', Sending(d)', On(c)' = On(d)',
               call'[c].rq = call'[d].rq
        PROVE  c = d
    BY <1>1, <2>1 DEF IdsOwned
  <2>3. ASSUME NEW d \in Calls, Sending(d)', NEW f \in InFlight(On(d))', f.rq = call'[d].rq
        PROVE  f.call = d
    <3>1. Sending(d) /\ On(d)' = On(d) /\ call'[d].rq = call[d].rq /\ On(d) \in Sessions
      BY <1>1, <2>3
    <3>2. PICK z \in Sessions : z = On(d)
      BY <3>1
    <3>3. f \in InFlight(z)'
      BY <2>3, <3>1, <3>2 DEF InFlight
    <3>4. f \in InFlight(On(d))
      BY <3>2, <3>3
    <3> QED BY <1>1, <2>3, <3>1, <3>4 DEF IdsOwned
  <2> QED BY <2>1, <2>3 DEF IdsOwned
<1>5. FillsOwned'
  <2>1. ASSUME NEW c \in Calls, Sending(c)', (call[c].rq \in FillsTo(On(c)))' PROVE executed'[c] > 0
    <3>1. Sending(c) /\ On(c)' = On(c) /\ call'[c].rq = call[c].rq /\ On(c) \in Sessions
      BY <1>1, <2>1
    <3>2. PICK z \in Sessions : z = On(c)
      BY <3>1
    <3>3. call[c].rq \in FillsTo(z)'
      BY <2>1, <3>1, <3>2 DEF FillsTo, FillAt
    <3>4. CASE call[c].rq \in FillsTo(z)
      BY <1>1, <3>1, <3>2, <3>4 DEF FillsOwned
    <3>5. CASE \E f \in InFlight(z) : f.rq = call[c].rq /\ executed'[f.call] > 0
      BY <1>1, <3>1, <3>2, <3>5 DEF IdsOwned
    <3> QED BY <3>3, <3>4, <3>5
  <2> QED BY <2>1 DEF FillsOwned
<1> QED BY <1>3, <1>4, <1>5 DEF FillInv, FillIsOurs

(* What a step that does not touch the frames leaves. *)
LEMMA FramesSame ==
  /\ UNCHANGED toVenue => \A s \in Sessions : InFlight(s)' = InFlight(s)
  /\ \A s \in Sessions : toUs'[s] = toUs[s] => FillsTo(s)' = FillsTo(s)
  /\ \A s \in Sessions : toUs'[s] = <<>> => FillsTo(s)' = {}
BY DEF InFlight, FillsTo, FillAt

(* A call moves on without sending anything. *)
LEMMA QuietFill ==
  ASSUME BandInv, FillInv, BandInv', NEW c \in Calls, NEW r,
         call' = [call EXCEPT ![c] = r], r.pc \notin {"wait", "answered"},
         r.res = "filled" => executed[c] > 0,
         UNCHANGED <<toVenue, executed>>,
         \A s \in Sessions : sess[s].rq <= sess'[s].rq /\ (toUs'[s] = toUs[s] \/ toUs'[s] = <<>>)
  PROVE  FillInv'
<1>1. call \in [Calls -> OkCall]
  BY DEF BandInv, CallsOK
<1>2. call'[c] = r /\ \A d \in Calls \ {c} : call'[d] = call[d]
  BY <1>1
<1>3. FillsOwned /\ FillIsOurs
  BY DEF FillInv
<1>4. ASSUME NEW d \in Calls
      PROVE  /\ executed[d] > 0 => executed'[d] > 0
             /\ Sending(d)' => Sending(d) /\ On(d)' = On(d) /\ call'[d].rq = call[d].rq
             /\ At(d, "answered")' /\ call'[d].answer = "fill" => executed'[d] > 0
             /\ call'[d].res = "filled" => executed'[d] > 0
  <2>1. CASE d = c
    BY <1>2, <2>1 DEF Sending, At
  <2>2. CASE d # c
    <3>1. call'[d] = call[d]
      BY <1>2, <2>2
    <3> QED BY <1>3, <3>1 DEF Sending, At, On, FillsOwned, FillIsOurs
  <2> QED BY <2>1, <2>2
<1>5. ASSUME NEW s \in Sessions
      PROVE  InFlight(s)' \subseteq InFlight(s) /\ FillsTo(s)' \subseteq FillsTo(s)
  BY FramesSame
<1> QED BY <1>4, <1>5, FillsKept

(* A call gives out a new id, above all of its socket, or sends its own id   *)
(* again.                                                                    *)
LEMMA PutFill ==
  ASSUME BandInv, FillInv, BandInv', NEW c \in Calls, NEW rq \in Nat, NEW next \in OkCall,
         On(c) \in Sessions, next.on = On(c), next.res = call[c].res, Put(c, rq, next),
         UNCHANGED <<toUs, executed>>,
         \A s \in Sessions : sess[s].rq <= sess'[s].rq,
         \/ sess[On(c)].rq < rq /\ rq <= sess'[On(c)].rq
         \/ Sending(c) /\ rq = call[c].rq
  PROVE  FillInv'
<1>0. call \in [Calls -> OkCall] /\ toVenue \in [Sessions -> Seq(OkFrame)]
  BY DEF BandInv, CallsOK, ToVenueOK
<1>a. /\ IdsGivenOut /\ IdsOwned /\ FillsOwned /\ FillIsOurs
      /\ \A s \in Sessions : /\ sess[s].rq \in Nat /\ sess'[s].rq \in Nat
                             /\ \A f \in InFlight(s) : f.rq \in Nat
                             /\ \A q \in FillsTo(s) : q \in Nat
      /\ \A d \in Calls : call[d].rq \in Nat /\ (Sending(d) => On(d) \in Sessions)
  <2>1. \A s \in Sessions : sess'[s].rq \in Nat
    BY DEF BandInv, SessOK, SessRec
  <2> QED BY <2>1, FillNumbers DEF FillInv
<1>1. CASE ~sess[On(c)].up
  <2> DEFINE r == Fresh("done", 1, "failed")
  <2>1. r.pc = "done" /\ r.res = "failed"
    BY DEF Fresh
  <2>2. call' = [call EXCEPT ![c] = r] /\ UNCHANGED toVenue
    BY <1>1 DEF Put, End
  <2> HIDE DEF r
  <2> QED BY <2>1, <2>2, QuietFill
<1>2. CASE sess[On(c)].up
  <2> DEFINE x == [call |-> c, rq |-> rq]
             r == [next EXCEPT !.pc = "wait", !.answer = "none", !.rq = rq]
  <2>1. r.pc = "wait" /\ r.on = On(c) /\ r.rq = rq /\ r.res = call[c].res
    BY DEF OkCall, CallRec
  <2>2. call' = [call EXCEPT ![c] = r]
    BY <1>2 DEF Put
  <2>3. x \in OkFrame /\ x.call = c /\ x.rq = rq
    <3>1. ~InBand(rq)
      <4>1. call'[c] = r /\ call'[c] \in OkCall
        BY <1>0, <2>2 DEF BandInv, CallsOK
      <4> QED BY <2>1, <4>1 DEF OkCall
    <3> QED BY <3>1 DEF OkFrame
  <2>4. toVenue' = [toVenue EXCEPT ![On(c)] = Append(@, x)]
    BY <1>2 DEF Put
  <2> HIDE DEF x, r
  <2> PICK z \in Sessions : z = On(c)
    OBVIOUS
  <2>5. InFlight(z)' = InFlight(z) \cup {x} /\ \A s \in Sessions \ {z} : InFlight(s)' = InFlight(s)
    <3>1. /\ toVenue'[z] = Append(toVenue[z], x) /\ toVenue[z] \in Seq(OkFrame)
          /\ \A s \in Sessions \ {z} : toVenue'[s] = toVenue[s]
      BY <1>0, <2>4
    <3>2. InFlight(z)' = {toVenue'[z][i] : i \in 1..Len(toVenue'[z])}
      BY DEF InFlight
    <3>3. InFlight(z)' = InFlight(z) \cup {x}
      BY <2>3, <3>1, <3>2, Appended DEF InFlight
    <3> QED BY <3>1, <3>3 DEF InFlight
  <2>6. /\ call'[c] = r /\ \A d \in Calls \ {c} : call'[d] = call[d]
        /\ On(c)' = z /\ \A d \in Calls \ {c} : On(d)' = On(d) /\ (Sending(d)' <=> Sending(d))
    BY <1>0, <2>1, <2>2 DEF On, Sending
  <2>7. \A s \in Sessions : FillsTo(s)' = FillsTo(s)
    BY FramesSame
  <2>8. \/ sess[z].rq < rq /\ rq <= sess'[z].rq
        \/ Sending(c) /\ rq = call[c].rq /\ rq <= sess[z].rq
    BY <1>a DEF IdsGivenOut
  <2>9. rq <= sess'[z].rq
    BY <1>a, <2>8
  <2>10. IdsGivenOut'
    <3>1. ASSUME NEW s \in Sessions, NEW f \in InFlight(s)' PROVE f.rq <= sess'[s].rq
      <4>1. CASE f \in InFlight(s)
        <5>1. f.rq <= sess[s].rq /\ f.rq \in Nat
          BY <1>a, <4>1 DEF IdsGivenOut
        <5> QED BY <1>a, <5>1
      <4>2. CASE f = x /\ s = z
        BY <2>3, <2>9, <4>2
      <4> QED BY <2>5, <4>1, <4>2
    <3>2. ASSUME NEW s \in Sessions, NEW q \in FillsTo(s) PROVE q <= sess'[s].rq
      <4>1. q <= sess[s].rq /\ q \in Nat
        BY <1>a DEF IdsGivenOut
      <4> QED BY <1>a, <4>1
    <3>3. ASSUME NEW d \in Calls, Sending(d)' PROVE call'[d].rq <= sess'[On(d)'].rq
      <4>1. CASE d = c
        BY <2>1, <2>6, <2>9, <4>1
      <4>2. CASE d # c
        <5>1. call'[d] = call[d] /\ On(d)' = On(d) /\ On(d) \in Sessions /\ call[d].rq <= sess[On(d)].rq
          BY <1>a, <2>6, <3>3, <4>2 DEF IdsGivenOut
        <5> QED BY <1>a, <5>1
      <4> QED BY <4>1, <4>2
    <3> QED BY <2>7, <3>1, <3>2, <3>3 DEF IdsGivenOut
  <2>11. ASSUME NEW d \in Calls, d # c, Sending(d), On(d) = z PROVE call[d].rq # rq
    BY <1>a, <2>8, <2>11 DEF IdsGivenOut, IdsOwned
  <2>12. ASSUME NEW f \in InFlight(z), f.rq = rq PROVE f.call = c
    BY <1>a, <2>8, <2>12 DEF IdsGivenOut, IdsOwned
  <2>13. IdsOwned'
    <3>1. ASSUME NEW d \in Calls, NEW e \in Calls, Sending(d)', Sending(e)', On(d)' = On(e)',
                 call'[d].rq = call'[e].rq
          PROVE  d = e
      <4>1. CASE d # c /\ e # c
        BY <1>a, <2>6, <3>1, <4>1 DEF IdsOwned
      <4>2. CASE d = c /\ e # c
        BY <2>1, <2>6, <2>11, <3>1, <4>2
      <4>3. CASE e = c /\ d # c
        BY <2>1, <2>6, <2>11, <3>1, <4>3
      <4> QED BY <4>1, <4>2, <4>3
    <3>2. ASSUME NEW d \in Calls, Sending(d)', NEW f \in InFlight(On(d))', f.rq = call'[d].rq
          PROVE  f.call = d
      <4>1. CASE d = c
        <5>1. f \in InFlight(z)'
          BY <2>6, <3>2, <4>1 DEF InFlight
        <5>2. f.rq = rq
          BY <2>1, <2>6, <3>2, <4>1
        <5>3. CASE f = x
          BY <2>3, <4>1, <5>3
        <5>4. CASE f \in InFlight(z)
          BY <2>12, <4>1, <5>2, <5>4
        <5> QED BY <2>5, <5>1, <5>3, <5>4
      <4>2. CASE d # c
        <5>1. call'[d] = call[d] /\ On(d)' = On(d) /\ Sending(d) /\ On(d) \in Sessions
          BY <1>a, <2>6, <3>2, <4>2
        <5> PICK y \in Sessions : y = On(d)
          BY <5>1
        <5>2. f \in InFlight(y)'
          BY <3>2, <5>1 DEF InFlight
        <5>3. CASE f \in InFlight(y)
          BY <1>a, <3>2, <5>1, <5>3 DEF IdsOwned
        <5>4. CASE f = x /\ y = z
          BY <2>3, <2>11, <3>2, <4>2, <5>1, <5>4
        <5> QED BY <2>5, <5>2, <5>3, <5>4
      <4> QED BY <4>1, <4>2
    <3> QED BY <3>1, <3>2 DEF IdsOwned
  <2>14. FillsOwned'
    <3>1. ASSUME NEW d \in Calls, Sending(d)', (call[d].rq \in FillsTo(On(d)))' PROVE executed[d] > 0
      <4>1. CASE d = c
        <5>1. rq \in FillsTo(z)'
          BY <2>1, <2>6, <3>1, <4>1 DEF FillsTo, FillAt
        <5>2. rq \in FillsTo(z) /\ rq <= sess[z].rq
          BY <1>a, <2>7, <5>1 DEF IdsGivenOut
        <5>3. Sending(c) /\ rq = call[c].rq
          BY <1>a, <2>8, <5>2
        <5> QED BY <1>a, <4>1, <5>2, <5>3 DEF FillsOwned
      <4>2. CASE d # c
        <5>1. call'[d] = call[d] /\ On(d)' = On(d) /\ Sending(d) /\ On(d) \in Sessions
          BY <1>a, <2>6, <3>1, <4>2
        <5> PICK y \in Sessions : y = On(d)
          BY <5>1
        <5>2. call[d].rq \in FillsTo(y)'
          BY <3>1, <5>1 DEF FillsTo, FillAt
        <5> QED BY <1>a, <2>7, <5>1, <5>2 DEF FillsOwned
      <4> QED BY <4>1, <4>2
    <3>2. ASSUME NEW d \in Calls, At(d, "answered")', call'[d].answer = "fill" PROVE executed[d] > 0
      <4>1. d # c
        BY <2>1, <2>6, <3>2 DEF At
      <4> QED BY <1>a, <2>6, <3>2, <4>1 DEF FillsOwned, At
    <3> QED BY <3>1, <3>2 DEF FillsOwned
  <2>15. FillIsOurs'
    <3>1. \A d \in Calls : call'[d].res = call[d].res
      BY <2>1, <2>6
    <3> QED BY <1>a, <3>1 DEF FillIsOurs
  <2> QED BY <2>10, <2>13, <2>14, <2>15 DEF FillInv
<1> QED BY <1>1, <1>2

(* The steps of a call. *)
LEMMA CallStepFill ==
  ASSUME BandInv, FillInv, BandInv', NEW c \in Calls, CallStep(c)
  PROVE  FillInv'
<1>0. /\ CallsOK /\ SessOK /\ call[c] \in OkCall /\ call[c] \in CallRec
      /\ call[c].pc \in {"ready", "wait", "answered"} => On(c) \in Sessions
      /\ sess \in [Sessions -> SessRec] /\ toUs \in [Sessions -> Seq(Msg)]
      /\ FillIsOurs /\ FillsOwned
      /\ \A s \in Sessions : sess[s].rq \in Nat /\ sess[s].lfr \in Nat
  BY CallNow, FillNumbers DEF BandInv, SessOK, ToUsOK, FillInv
<1>s. UNCHANGED <<sess, toUs>> =>
        \A s \in Sessions : sess[s].rq <= sess'[s].rq /\ (toUs'[s] = toUs[s] \/ toUs'[s] = <<>>)
  BY <1>0
<1>c. ASSUME On(c) \in Sessions, Close(On(c))
      PROVE  \A s \in Sessions : sess[s].rq <= sess'[s].rq /\ (toUs'[s] = toUs[s] \/ toUs'[s] = <<>>)
  <2>1. \A s \in Sessions : sess'[s].rq = sess[s].rq
    BY <1>0, <1>c DEF Close, SessRec
  <2>2. \A s \in Sessions : toUs'[s] = toUs[s] \/ toUs'[s] = <<>>
    BY <1>0, <1>c DEF Close
  <2> QED BY <1>0, <2>1, <2>2
<1>1. CASE Trader(c)
  <2>1. \E p \in {"ready", "connect"}, s \in Sessions \cup {None} :
          call' = [call EXCEPT ![c] = [call[c] EXCEPT !.pc = p, !.on = s]]
    <3>1. CASE traders # None /\ sess[traders].up
      BY <1>0, <1>1, <3>1 DEF Trader, SessOK
    <3>2. CASE ~(traders # None /\ sess[traders].up)
      <4>1. call' = [call EXCEPT ![c].pc = "connect"]
        BY <1>1, <3>2 DEF Trader
      <4>2. call[c].on \in Sessions \cup {None}
        BY <1>0 DEF CallRec
      <4>3. [call[c] EXCEPT !.pc = "connect"] = [call[c] EXCEPT !.pc = "connect", !.on = call[c].on]
        BY <1>0 DEF CallRec
      <4> QED BY <4>1, <4>2, <4>3
    <3> QED BY <3>1, <3>2
  <2>2. PICK p \in {"ready", "connect"}, s \in Sessions \cup {None} :
          call' = [call EXCEPT ![c] = [call[c] EXCEPT !.pc = p, !.on = s]]
    BY <2>1
  <2> DEFINE r == [call[c] EXCEPT !.pc = p, !.on = s]
  <2>3. r.pc = p /\ r.res = call[c].res
    BY <1>0 DEF CallRec
  <2>4. UNCHANGED <<sess, toVenue, toUs, executed>> /\ call' = [call EXCEPT ![c] = r]
    BY <1>1, <2>2 DEF Trader, conns
  <2> HIDE DEF r
  <2> QED BY <1>0, <1>s, <2>3, <2>4, QuietFill DEF FillIsOurs
<1>2. CASE ConnectFails(c)
  <2> DEFINE r == Fresh("done", 1, "failed")
  <2>1. r.pc = "done" /\ r.res = "failed"
    BY DEF Fresh
  <2>2. call' = [call EXCEPT ![c] = r] /\ UNCHANGED <<sess, toUs, toVenue, executed>>
    BY <1>2 DEF ConnectFails, End, conns
  <2> HIDE DEF r
  <2> QED BY <1>s, <2>1, <2>2, QuietFill
<1>3. CASE Connect(c)
  <2> DEFINE s == CHOOSE s \in Unopened : TRUE
             r == [call[c] EXCEPT !.pc = "ready", !.on = s]
  <2>1. s \in Sessions
    BY <1>3 DEF Connect, Unopened
  <2>2. /\ sess' = [sess EXCEPT ![s] = [Bump(@, last) EXCEPT !.up = TRUE, !.used = TRUE]]
        /\ call' = [call EXCEPT ![c] = r] /\ UNCHANGED <<toVenue, toUs, executed>>
    BY <1>3 DEF Connect
  <2> HIDE DEF s
  <2>3. r.pc = "ready" /\ r.res = call[c].res
    BY <1>0 DEF CallRec
  <2> HIDE DEF r
  <2>4. \A z \in Sessions : sess[z].rq <= sess'[z].rq
    <3>1. last \in Nat
      BY DEF BandInv, VenueOK
    <3> DEFINE b == Bump(sess[s], last)
    <3>2. sess[s] \in SessRec
      BY <1>0, <2>1
    <3>6. b \in SessRec
      BY <3>1, <3>2, BumpOK
    <3>7. b.rq = Above(sess[s].rq, last)
      BY <3>2 DEF Bump, SessRec
    <3>8. sess[s].rq <= b.rq
      BY <1>0, <2>1, <3>1, <3>7 DEF Above
    <3>3. sess' = [sess EXCEPT ![s] = [b EXCEPT !.up = TRUE, !.used = TRUE]]
      BY <2>2
    <3> HIDE DEF b
    <3>4. [b EXCEPT !.up = TRUE, !.used = TRUE].rq = b.rq
      BY <3>6 DEF SessRec
    <3>5. sess'[s].rq = b.rq /\ \A z \in Sessions \ {s} : sess'[z] = sess[z]
      BY <1>0, <2>1, <3>3, <3>4
    <3> QED BY <1>0, <3>5, <3>8
  <2> QED BY <1>0, <2>2, <2>3, <2>4, QuietFill DEF FillIsOurs
<1>4. CASE NoBlock(c)
  <2> DEFINE r == Fresh("close", call[c].attempt, "none")
  <2>1. r.pc = "close" /\ r.res = "none"
    BY DEF Fresh
  <2>2. /\ call' = [call EXCEPT ![c] = r] /\ call[c].pc = "ready" /\ Close(On(c))
        /\ UNCHANGED <<toVenue, executed>>
    BY <1>4 DEF NoBlock, At
  <2> HIDE DEF r
  <2> QED BY <1>0, <1>c, <2>1, <2>2, QuietFill
<1>5. ASSUME Unconfirmed(c), call[c].pc \in {"wait", "answered"}, UNCHANGED <<toVenue, executed>>
      PROVE  FillInv'
  <2> DEFINE r == Fresh("close", 1, "unconfirmed")
  <2>1. r.pc = "close" /\ r.res = "unconfirmed"
    BY DEF Fresh
  <2>2. call' = [call EXCEPT ![c] = r] /\ Close(On(c))
    BY <1>5 DEF Unconfirmed
  <2> HIDE DEF r
  <2> QED BY <1>0, <1>c, <1>5, <2>1, <2>2, QuietFill
<1>6. CASE GiveUp(c)
  BY <1>5, <1>6 DEF GiveUp, At
<1>7. CASE Pop(c)
  <2> DEFINE res == IF call[c].res = "none" THEN "failed" ELSE call[c].res
  <2>1. UNCHANGED <<sess, toUs, toVenue, executed>>
    BY <1>7 DEF Pop
  <2>2. CASE call[c].res = "none" /\ call[c].attempt = 1
    <3> DEFINE r == Fresh("idle", 2, "none")
    <3>1. r.pc = "idle" /\ r.res = "none"
      BY DEF Fresh
    <3>2. call' = [call EXCEPT ![c] = r]
      BY <1>7, <2>2 DEF Pop
    <3> HIDE DEF r
    <3> QED BY <1>s, <2>1, <3>1, <3>2, QuietFill
  <2>3. CASE ~(call[c].res = "none" /\ call[c].attempt = 1)
    <3> DEFINE r == Fresh("done", 1, res)
    <3>1. r.pc = "done" /\ r.res = res
      BY DEF Fresh
    <3>2. call' = [call EXCEPT ![c] = r]
      BY <1>7, <2>3 DEF Pop, End
    <3> HIDE DEF r
    <3>3. r.res = "filled" => executed[c] > 0
      BY <1>0, <3>1 DEF FillIsOurs
    <3> QED BY <1>s, <2>1, <3>1, <3>2, <3>3, QuietFill
  <2> QED BY <2>2, <2>3
<1>f. ASSUME On(c) \in Sessions
      PROVE  /\ FreshRq(c) \in Nat /\ sess[On(c)].rq < FreshRq(c)
             /\ sess' = [sess EXCEPT ![On(c)].rq = FreshRq(c)] =>
                  /\ \A s \in Sessions : sess[s].rq <= sess'[s].rq
                  /\ FreshRq(c) <= sess'[On(c)].rq
  <2>1. FreshRq(c) \in Nat /\ sess[On(c)].rq < FreshRq(c)
    BY <1>0, <1>f, NextRqOutside DEF FreshRq, Above
  <2>2. ASSUME sess' = [sess EXCEPT ![On(c)].rq = FreshRq(c)]
        PROVE  sess'[On(c)].rq = FreshRq(c) /\ \A s \in Sessions \ {On(c)} : sess'[s] = sess[s]
    BY <1>0, <1>f, <2>2 DEF SessRec
  <2>3. ASSUME sess' = [sess EXCEPT ![On(c)].rq = FreshRq(c)], NEW s \in Sessions
        PROVE  sess[s].rq <= sess'[s].rq
    <3>1. CASE s = On(c)
      BY <1>0, <1>f, <2>1, <2>2, <2>3, <3>1
    <3>2. CASE s # On(c)
      BY <1>0, <2>2, <2>3, <3>2
    <3> QED BY <3>1, <3>2
  <2> QED BY <2>1, <2>2, <2>3
<1>8. CASE Send(c)
  <2>1. /\ On(c) \in Sessions /\ Put(c, FreshRq(c), call[c]) /\ UNCHANGED <<toUs, executed>>
        /\ sess' = [sess EXCEPT ![On(c)].rq = FreshRq(c)] /\ call[c].on = On(c)
    BY <1>0, <1>8 DEF Send, At, On
  <2> QED BY <1>0, <1>f, <2>1, PutFill
<1>9. CASE Resend(c)
  <2> DEFINE r == [call[c] EXCEPT !.retried = TRUE]
  <2>1. r \in CallRec /\ r.rq = call[c].rq /\ r.on = call[c].on /\ r.pc = call[c].pc /\ r.res = call[c].res
    BY <1>0 DEF CallRec
  <2>2. r \in OkCall /\ call[c].rq \in Nat
    BY <1>0, <2>1 DEF OkCall, CallRec
  <2>3. /\ Put(c, call[c].rq, r) /\ UNCHANGED <<sess, toUs, executed>> /\ Sending(c)
        /\ On(c) \in Sessions /\ call[c].on = On(c)
    BY <1>0, <1>9 DEF Resend, conns, Sending, At, On
  <2> HIDE DEF r
  <2> QED BY <1>0, <2>1, <2>2, <2>3, PutFill
<1>10. CASE Resume(c)
  <2>0. UNCHANGED executed /\ call[c].pc = "answered" /\ On(c) \in Sessions /\ call[c].on = On(c)
    BY <1>0, <1>10 DEF Resume, At, On
  <2>1. CASE Unconfirmed(c) /\ UNCHANGED toVenue
    BY <1>5, <2>0, <2>1
  <2>2. CASE /\ sess' = [sess EXCEPT ![On(c)].rq = FreshRq(c)]
             /\ Put(c, FreshRq(c), [call[c] EXCEPT !.sr32 = TRUE]) /\ UNCHANGED toUs
    <3> DEFINE r == [call[c] EXCEPT !.sr32 = TRUE]
    <3>1. r \in CallRec /\ r.rq = call[c].rq /\ r.on = call[c].on /\ r.pc = call[c].pc /\ r.res = call[c].res
      BY <1>0 DEF CallRec
    <3>2. r \in OkCall
      BY <1>0, <3>1 DEF OkCall
    <3>3. Put(c, FreshRq(c), r)
      BY <2>2
    <3> HIDE DEF r
    <3> QED BY <1>f, <2>0, <2>2, <3>1, <3>2, <3>3, PutFill
  <2>3. CASE /\ call' = End(c, IF call[c].answer = "fill" THEN "filled" ELSE "failed")
             /\ UNCHANGED <<sess, toVenue, toUs>>
    <3> DEFINE res == IF call[c].answer = "fill" THEN "filled" ELSE "failed"
               r == Fresh("done", 1, res)
    <3>1. r.pc = "done" /\ r.res = res
      BY DEF Fresh
    <3>2. call' = [call EXCEPT ![c] = r]
      BY <2>3 DEF End
    <3>3. r.res = "filled" => executed[c] > 0
      BY <1>0, <2>0, <3>1 DEF FillsOwned, At
    <3> HIDE DEF r
    <3> QED BY <1>s, <2>0, <2>3, <3>1, <3>2, <3>3, QuietFill
  <2> QED BY <1>10, <2>1, <2>2, <2>3 DEF Resume
<1> QED BY <1>1, <1>2, <1>3, <1>4, <1>6, <1>7, <1>8, <1>9, <1>10 DEF CallStep

(* A frame is read: a fill by the call whose id it carries. *)
LEMMA ReadFill ==
  ASSUME BandInv, FillInv, BandInv', NEW s \in Sessions, Read(s)
  PROVE  FillInv'
<1> DEFINE m == Head(toUs[s])
<1>0. /\ CallsOK /\ toUs \in [Sessions -> Seq(Msg)] /\ toUs[s] \in Seq(Msg) /\ toUs[s] # <<>>
      /\ sess \in [Sessions -> SessRec] /\ FillsOwned /\ FillIsOurs
      /\ \A z \in Sessions : sess[z].rq \in Nat
  BY FillNumbers DEF BandInv, ToUsOK, SessOK, Read, FillInv
<1>1. /\ m = toUs[s][1] /\ m \in Msg /\ Len(toUs[s]) \in Nat \ {0}
      /\ Len(Tail(toUs[s])) = Len(toUs[s]) - 1
      /\ \A i \in 1..Len(Tail(toUs[s])) : Tail(toUs[s])[i] = toUs[s][i+1]
  BY <1>0, HeadTailProperties, EmptySeq
<1>2. /\ sess' = [sess EXCEPT ![s] = Bump(@, m.lfr)]
      /\ call' = [c \in Calls |->
            IF c \in Matched(s, m)
            THEN Answer(c, IF m.kind = "error" THEN "reject" ELSE m.kind) ELSE call[c]]
      /\ toUs' = [toUs EXCEPT ![s] = Tail(@)]
      /\ UNCHANGED <<toVenue, executed>>
  BY DEF Read
<1>3. m.kind = "fill" => m.rq \in FillsTo(s)
  <2>1. 1 \in 1..Len(toUs[s])
    BY <1>1
  <2> QED BY <1>1, <2>1 DEF FillsTo, FillAt
<1> HIDE DEF m
<1>4. \A z \in Sessions : sess[z].rq <= sess'[z].rq
  <2>1. m.lfr \in Nat /\ sess[s] \in SessRec
    BY <1>0, <1>1 DEF Msg
  <2>2. sess[s].rq <= Bump(sess[s], m.lfr).rq
    BY <2>1 DEF Bump, Above, SessRec
  <2>3. sess'[s] = Bump(sess[s], m.lfr) /\ \A z \in Sessions \ {s} : sess'[z] = sess[z]
    BY <1>0, <1>2
  <2> QED BY <1>0, <2>2, <2>3
<1>5. \A z \in Sessions : FillsTo(z)' \subseteq FillsTo(z)
  <2>1. ASSUME NEW q \in FillsTo(s)' PROVE q \in FillsTo(s)
    <3>1. toUs'[s] = Tail(toUs[s])
      BY <1>0, <1>2
    <3>2. PICK i \in 1..Len(toUs'[s]) : toUs'[s][i].kind = "fill" /\ toUs'[s][i].rq = q
      BY DEF FillsTo, FillAt
    <3>3. i + 1 \in 1..Len(toUs[s]) /\ toUs[s][i+1] = toUs'[s][i]
      BY <1>1, <3>1, <3>2
    <3> QED BY <3>2, <3>3 DEF FillsTo, FillAt
  <2>2. \A z \in Sessions \ {s} : toUs'[z] = toUs[z]
    BY <1>0, <1>2
  <2> QED BY <2>1, <2>2, FramesSame
<1>6. ASSUME NEW c \in Calls
      PROVE  /\ Sending(c)' => Sending(c) /\ On(c)' = On(c) /\ call'[c].rq = call[c].rq
             /\ At(c, "answered")' /\ call'[c].answer = "fill" => executed'[c] > 0
             /\ call'[c].res = "filled" => executed'[c] > 0
  <2>0. call[c] \in CallRec
    BY <1>0, CallNow
  <2>1. CASE c \in Matched(s, m)
    <3> DEFINE kind == IF m.kind = "error" THEN "reject" ELSE m.kind
    <3>1. call'[c] = [call[c] EXCEPT !.pc = "answered", !.answer = kind]
      BY <1>2, <2>1 DEF Answer
    <3>2. /\ call'[c].answer = kind /\ call'[c].on = call[c].on /\ call'[c].rq = call[c].rq
          /\ call'[c].res = call[c].res
      BY <2>0, <3>1 DEF CallRec
    <3>3. At(c, "wait") /\ On(c) = s /\ (m.kind = "error" \/ m.rq = call[c].rq)
      BY <2>1 DEF Matched
    <3>4. kind = "fill" => executed[c] > 0
      BY <1>0, <1>3, <3>3 DEF FillsOwned, Sending, At
    <3> HIDE DEF kind
    <3> QED BY <1>0, <1>2, <3>2, <3>3, <3>4 DEF Sending, At, On, FillIsOurs
  <2>2. CASE c \notin Matched(s, m)
    <3>1. call'[c] = call[c]
      BY <1>2, <2>2
    <3> QED BY <1>0, <1>2, <3>1 DEF Sending, At, On, FillsOwned, FillIsOurs
  <2> QED BY <2>1, <2>2
<1>7. \A z \in Sessions : InFlight(z)' \subseteq InFlight(z)
  BY <1>2, FramesSame
<1> QED BY <1>2, <1>4, <1>5, <1>6, <1>7, FillsKept

(* A socket dies: those told read no fill. *)
LEMMA DropFill ==
  ASSUME BandInv, FillInv, BandInv', NEW s \in Sessions, NEW told \in BOOLEAN, Drop(s, told)
  PROVE  FillInv'
<1>0. /\ CallsOK /\ toUs \in [Sessions -> Seq(Msg)] /\ toVenue \in [Sessions -> Seq(OkFrame)]
      /\ sess \in [Sessions -> SessRec] /\ FillsOwned /\ FillIsOurs
      /\ \A z \in Sessions : sess[z].rq \in Nat
  BY FillNumbers DEF BandInv, ToUsOK, ToVenueOK, SessOK, FillInv
<1>1. /\ sess' = [sess EXCEPT ![s].up = FALSE] /\ toUs' = [toUs EXCEPT ![s] = <<>>]
      /\ call' = [c \in Calls |-> IF told /\ At(c, "wait") /\ On(c) = s
                                  THEN Answer(c, "conn") ELSE call[c]]
      /\ UNCHANGED executed
  BY DEF Drop
<1>2. \A z \in Sessions : sess[z].rq <= sess'[z].rq
  <2>1. \A z \in Sessions : sess'[z].rq = sess[z].rq
    BY <1>0, <1>1 DEF SessRec
  <2> QED BY <1>0, <2>1
<1>3. \A z \in Sessions : FillsTo(z)' \subseteq FillsTo(z)
  <2>1. \A z \in Sessions : toUs'[z] = <<>> \/ toUs'[z] = toUs[z]
    BY <1>0, <1>1
  <2> QED BY <2>1, FramesSame
<1>4. \A z \in Sessions : InFlight(z)' \subseteq InFlight(z)
  <2>1. PICK n \in 0..Len(toVenue[s]) : toVenue' = [toVenue EXCEPT ![s] = SubSeq(@, 1, n)]
    BY DEF Drop
  <2>2. /\ toVenue[s] \in Seq(OkFrame) /\ toVenue'[s] = SubSeq(toVenue[s], 1, n)
        /\ \A z \in Sessions \ {s} : toVenue'[z] = toVenue[z]
    BY <1>0, <2>1
  <2>3. InFlight(s)' \subseteq InFlight(s)
    BY <2>1, <2>2, PrefixInside DEF InFlight
  <2> QED BY <2>2, <2>3 DEF InFlight
<1>5. ASSUME NEW c \in Calls
      PROVE  /\ Sending(c)' => Sending(c) /\ On(c)' = On(c) /\ call'[c].rq = call[c].rq
             /\ At(c, "answered")' /\ call'[c].answer = "fill" => executed'[c] > 0
             /\ call'[c].res = "filled" => executed'[c] > 0
  <2>0. call[c] \in CallRec
    BY <1>0, CallNow
  <2>1. CASE told /\ At(c, "wait") /\ On(c) = s
    <3>1. call'[c] = [call[c] EXCEPT !.pc = "answered", !.answer = "conn"]
      BY <1>1, <2>1 DEF Answer
    <3>2. /\ call'[c].answer = "conn" /\ call'[c].on = call[c].on /\ call'[c].rq = call[c].rq
          /\ call'[c].res = call[c].res
      BY <2>0, <3>1 DEF CallRec
    <3> QED BY <1>0, <1>1, <2>1, <3>2 DEF Sending, At, On, FillIsOurs
  <2>2. CASE ~(told /\ At(c, "wait") /\ On(c) = s)
    <3>1. call'[c] = call[c]
      BY <1>1, <2>2
    <3> QED BY <1>0, <1>1, <3>1 DEF Sending, At, On, FillsOwned, FillIsOurs
  <2> QED BY <2>1, <2>2
<1> QED BY <1>1, <1>2, <1>3, <1>4, <1>5, FillsKept

(* One more frame to us: its id is that of a fill, or of none. *)
LEMMA FillsGrow ==
  ASSUME toUs \in [Sessions -> Seq(Msg)], NEW s \in Sessions, NEW m \in Msg,
         toUs' = toUs \/ toUs' = [toUs EXCEPT ![s] = Append(@, m)]
  PROVE  \A z \in Sessions : \A q \in FillsTo(z)' :
           q \in FillsTo(z) \/ (z = s /\ m.kind = "fill" /\ m.rq = q)
<1>1. ASSUME NEW z \in Sessions, NEW q \in FillsTo(z)'
      PROVE  q \in FillsTo(z) \/ (z = s /\ m.kind = "fill" /\ m.rq = q)
  <2>1. CASE toUs'[z] = toUs[z]
    BY <1>1, <2>1, FramesSame
  <2>2. CASE z = s /\ toUs'[s] = Append(toUs[s], m)
    <3>1. /\ toUs[s] \in Seq(Msg) /\ Len(toUs[s]) \in Nat /\ Len(toUs'[s]) = Len(toUs[s]) + 1
          /\ \A i \in 1..Len(toUs[s]) : toUs'[s][i] = toUs[s][i]
          /\ toUs'[s][Len(toUs[s]) + 1] = m
      BY <2>2, AppendProperties, LenProperties
    <3>2. PICK i \in 1..Len(toUs'[s]) : toUs'[s][i].kind = "fill" /\ toUs'[s][i].rq = q
      BY <1>1, <2>2 DEF FillsTo, FillAt
    <3>3. CASE i \in 1..Len(toUs[s])
      BY <2>2, <3>1, <3>2, <3>3 DEF FillsTo, FillAt
    <3>4. CASE i = Len(toUs[s]) + 1
      BY <2>2, <3>1, <3>2, <3>4
    <3> QED BY <3>1, <3>2, <3>3, <3>4
  <2> QED BY <2>1, <2>2
<1> QED BY <1>1

(* The venue takes a frame; what it executes is the call of the frame. *)
LEMMA VenueFill ==
  ASSUME BandInv, FillInv, BandInv', NEW s \in Sessions, Venue(s)
  PROVE  FillInv'
<1> DEFINE f == Head(toVenue[s])
<1>0. /\ CallsOK /\ toUs \in [Sessions -> Seq(Msg)] /\ toVenue \in [Sessions -> Seq(OkFrame)]
      /\ toVenue[s] \in Seq(OkFrame) /\ toVenue[s] # <<>> /\ last \in Nat
      /\ executed \in [Calls -> Nat] /\ FillsOwned /\ FillIsOurs
      /\ \A z \in Sessions : sess[z].rq \in Nat
  BY FillNumbers DEF BandInv, ToUsOK, ToVenueOK, VenueOK, Venue, FillInv
<1>1. /\ f = toVenue[s][1] /\ Len(toVenue[s]) \in Nat \ {0}
      /\ Len(Tail(toVenue[s])) = Len(toVenue[s]) - 1
      /\ \A i \in 1..Len(Tail(toVenue[s])) : Tail(toVenue[s])[i] = toVenue[s][i+1]
  BY <1>0, HeadTailProperties, EmptySeq
<1>2. f \in InFlight(s)
  BY <1>1 DEF InFlight
<1>3. f.rq \in Nat /\ f.call \in Calls
  BY <1>2, FillNumbers
<1>4. toVenue' = [toVenue EXCEPT ![s] = Tail(@)] /\ UNCHANGED <<call, sess>>
  BY DEF Venue, conns
<1>5. \A z \in Sessions : InFlight(z)' \subseteq InFlight(z)
  <2>1. InFlight(s)' \subseteq InFlight(s)
    <3>1. toVenue'[s] = Tail(toVenue[s])
      BY <1>0, <1>4
    <3>2. \A i \in 1..Len(toVenue'[s]) :
            toVenue'[s][i] = toVenue[s][i+1] /\ i + 1 \in 1..Len(toVenue[s])
      BY <1>1, <3>1
    <3> QED BY <3>2 DEF InFlight
  <2>2. \A z \in Sessions \ {s} : toVenue'[z] = toVenue[z]
    BY <1>0, <1>4
  <2> QED BY <2>1, <2>2 DEF InFlight
<1>6. \/ executed' = [executed EXCEPT ![f.call] = @ + 1] /\ (Reply(s, "fill", f.rq, 0) \/ UNCHANGED toUs)
      \/ UNCHANGED executed /\ \/ UNCHANGED toUs
                               \/ \E kind \in {"reject", "sr32"}, lfr \in {0, last} : Reply(s, kind, f.rq, lfr)
  BY DEF Venue
<1> HIDE DEF f
<1>7. \A c \in Calls : executed[c] > 0 => executed'[c] > 0
  BY <1>0, <1>3, <1>6
<1>8. \A z \in Sessions : \A q \in FillsTo(z)' :
        q \in FillsTo(z) \/ \E g \in InFlight(z) : g.rq = q /\ executed'[g.call] > 0
  <2>1. CASE UNCHANGED toUs
    BY <2>1, FramesSame
  <2>2. CASE executed' = [executed EXCEPT ![f.call] = @ + 1] /\ Reply(s, "fill", f.rq, 0)
    <3> DEFINE m == [kind |-> "fill", rq |-> f.rq, lfr |-> 0]
    <3>1. m \in Msg /\ m.rq = f.rq
      BY <1>3 DEF Msg
    <3>2. toUs' = toUs \/ toUs' = [toUs EXCEPT ![s] = Append(@, m)]
      BY <2>2 DEF Reply
    <3>3. executed'[f.call] > 0
      BY <1>0, <1>3, <2>2
    <3> HIDE DEF m
    <3>4. \A z \in Sessions : \A q \in FillsTo(z)' : q \in FillsTo(z) \/ (z = s /\ m.rq = q)
      BY <1>0, <3>1, <3>2, FillsGrow
    <3> QED BY <1>2, <3>1, <3>3, <3>4
  <2>3. CASE \E kind \in {"reject", "sr32"}, lfr \in {0, last} : Reply(s, kind, f.rq, lfr)
    <3>1. PICK kind \in {"reject", "sr32"}, lfr \in {0, last} : Reply(s, kind, f.rq, lfr)
      BY <2>3
    <3> DEFINE m == [kind |-> kind, rq |-> f.rq, lfr |-> lfr]
    <3>2. m \in Msg /\ m.kind # "fill"
      BY <1>0, <1>3, <3>1 DEF Msg
    <3>3. toUs' = toUs \/ toUs' = [toUs EXCEPT ![s] = Append(@, m)]
      BY <3>1 DEF Reply
    <3> HIDE DEF m
    <3> QED BY <1>0, <3>2, <3>3, FillsGrow
  <2> QED BY <1>6, <2>1, <2>2, <2>3
<1>9. \A z \in Sessions : sess[z].rq <= sess'[z].rq
  BY <1>0, <1>4
<1>10. \A c \in Calls :
         /\ Sending(c)' => Sending(c) /\ On(c)' = On(c) /\ call'[c].rq = call[c].rq
         /\ At(c, "answered")' /\ call'[c].answer = "fill" => executed'[c] > 0
         /\ call'[c].res = "filled" => executed'[c] > 0
  BY <1>0, <1>4, <1>7 DEF Sending, At, On, FillsOwned, FillIsOurs
<1> QED BY <1>5, <1>7, <1>8, <1>9, <1>10, FillsKept

(* The other clients, and error frames, fill nothing of ours. *)
LEMMA OthersFill ==
  ASSUME BandInv, FillInv, BandInv',
         OtherClient \/ UNCHANGED vars \/ \E s \in Sessions : VenueError(s)
  PROVE  FillInv'
<1>0. /\ toUs \in [Sessions -> Seq(Msg)] /\ FillsOwned /\ FillIsOurs
      /\ \A z \in Sessions : sess[z].rq \in Nat
  BY FillNumbers DEF BandInv, ToUsOK, FillInv
<1>1. UNCHANGED <<call, sess, toVenue, executed>>
  BY DEF OtherClient, VenueError, conns, vars
<1>2. \A z \in Sessions : FillsTo(z)' \subseteq FillsTo(z)
  <2>1. CASE UNCHANGED toUs
    BY <2>1, FramesSame
  <2>2. CASE \E s \in Sessions : VenueError(s)
    <3>1. PICK s \in Sessions : VenueError(s)
      BY <2>2
    <3> DEFINE m == [kind |-> "error", rq |-> 0, lfr |-> 0]
    <3>2. m \in Msg /\ m.kind # "fill" /\ toUs' = [toUs EXCEPT ![s] = Append(@, m)]
      BY <3>1 DEF VenueError, Msg
    <3> HIDE DEF m
    <3> QED BY <1>0, <3>2, FillsGrow
  <2> QED BY <2>1, <2>2 DEF OtherClient, vars
<1>3. \A z \in Sessions : InFlight(z)' \subseteq InFlight(z) /\ sess[z].rq <= sess'[z].rq
  BY <1>0, <1>1, FramesSame
<1>4. \A c \in Calls :
        /\ Sending(c)' => Sending(c) /\ On(c)' = On(c) /\ call'[c].rq = call[c].rq
        /\ At(c, "answered")' /\ call'[c].answer = "fill" => executed'[c] > 0
        /\ call'[c].res = "filled" => executed'[c] > 0
  BY <1>0, <1>1 DEF Sending, At, On, FillsOwned, FillIsOurs
<1> QED BY <1>1, <1>2, <1>3, <1>4, FillsKept

(* The first state satisfies the invariant.                                 *)
LEMMA FillInit == Init => FillInv
<1> SUFFICES ASSUME Init PROVE FillInv
  OBVIOUS
<1>1. /\ \A c \in Calls : call[c].pc = "idle" /\ call[c].res = "none"
      /\ \A s \in Sessions : toVenue[s] = <<>> /\ toUs[s] = <<>>
  BY DEF Init, Fresh
<1>2. \A s \in Sessions : InFlight(s) = {} /\ FillsTo(s) = {}
  BY <1>1 DEF InFlight, FillsTo
<1> QED BY <1>1, <1>2 DEF FillInv, IdsGivenOut, IdsOwned, FillsOwned, FillIsOurs, Sending, At

(* Every step keeps it.                                                     *)
LEMMA FillNext == BandInv /\ FillInv /\ [Next]_vars => FillInv'
<1> SUFFICES ASSUME BandInv, FillInv, [Next]_vars PROVE FillInv'
  OBVIOUS
<1>0. BandInv'
  BY BandNext
<1>1. ASSUME NEW c \in Calls, CallStep(c) PROVE FillInv'
  BY <1>0, <1>1, CallStepFill
<1>2. ASSUME NEW s \in Sessions,
             Read(s) \/ Venue(s) \/ VenueError(s) \/ \E told \in BOOLEAN : Drop(s, told)
      PROVE FillInv'
  BY <1>0, <1>2, ReadFill, VenueFill, OthersFill, DropFill
<1>3. CASE OtherClient \/ UNCHANGED vars
  BY <1>0, <1>3, OthersFill
<1> QED BY <1>1, <1>2, <1>3 DEF Next

(* A fill reported is this call's own: however calls share a socket, whatever *)
(* ids other sockets and clients use, and whichever answers are late, lost or *)
(* never sent (perpl_ws.py:302-311, executor.py:72-91).                       *)
THEOREM FillsAreOurs == Spec => []FillIsOurs
<1>1. FillInv => FillIsOurs
  BY DEF FillInv
<1>2. Init => BandInv /\ FillInv
  BY BandInit, FillInit
<1>3. (BandInv /\ FillInv) /\ [Next]_vars => (BandInv /\ FillInv)'
  BY BandNext, FillNext
<1> QED BY <1>1, <1>2, <1>3, PTL DEF Spec
=============================================================================
