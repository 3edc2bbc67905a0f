---------------------------- MODULE PerplSession ----------------------------
(***************************************************************************)
(* The trading sessions of ONE user (copy_auto/executor.py and perpl_ws.py):*)
(* concurrent order calls share a websocket, opened on demand, to a venue  *)
(* that executes a request id (rq) at most once and only above the last one*)
(* it took.  Frames stay in order on a socket, in both directions; an      *)
(* answer may be late, and is lost when its socket dies.                   *)
(***************************************************************************)
EXTENDS Integers, Sequences, FiniteSets

CONSTANTS
  Calls,        \* order calls of the engine for this user
  Sessions,     \* sockets that can be opened: bound
  None,
  Half,         \* the venue refuses ids whose residue modulo 2 * Half is in
                \* Half .. 2 * Half - 1: 2^31 in the code, small in an instance
  FirstLast,    \* the venue's last request when the system starts
  MaxOps,       \* bound: faults and requests of other clients
  Allowed       \* what this instance lets happen (see May)

ASSUME SessionConstants ==
  /\ None \notin Calls /\ None \notin Sessions
  /\ Half \in Nat \ {0} /\ FirstLast \in Nat /\ MaxOps \in Nat

May(what) == what \in Allowed

VARIABLES
  call,      \* _call and _send, per call
  sess,      \* PerplTrader, per socket
  traders,   \* _traders: the session the next call uses
  toVenue,   \* frames on their way to the venue, per socket
  toUs,      \* frames on their way back, per socket
  last,      \* the venue's last request id
  executed,  \* history: how often the venue executed each call
  ops        \* bound counter

conns == <<sess, traders>>
vars  == <<call, conns, toVenue, toUs, last, executed, ops>>

CallRec == [pc : {"idle", "connect", "ready", "wait", "answered", "close", "done"},
            attempt : {1, 2}, on : Sessions \cup {None}, rq : Nat,
            retried : BOOLEAN, sr32 : BOOLEAN,
            answer : {"none", "fill", "reject", "sr32", "conn"},
            res : {"none", "filled", "failed", "unconfirmed"}]
SessRec == [up : BOOLEAN, used : BOOLEAN, rq : Nat, lfr : Nat]

(* A call between two uses of a session. *)
Fresh(pc, attempt, res) ==
  [pc |-> pc, attempt |-> attempt, on |-> None, rq |-> 0, retried |-> FALSE,
   sr32 |-> FALSE, answer |-> "none", res |-> res]

TypeOK ==
  /\ call \in [Calls -> CallRec]
  /\ sess \in [Sessions -> SessRec]
  /\ traders \in Sessions \cup {None}
  /\ toVenue \in [Sessions -> Seq([call : Calls, rq : Nat])]
  /\ toUs \in [Sessions -> Seq([kind : {"fill", "reject", "sr32", "error"}, rq : Nat, lfr : Nat])]
  /\ last \in Nat
  /\ executed \in [Calls -> Nat]
  /\ ops \in Nat

Init ==
  /\ call = [c \in Calls |-> Fresh("idle", 1, "none")]
  /\ sess = [s \in Sessions |-> [up |-> FALSE, used |-> FALSE, rq |-> 0, lfr |-> 0]]
  /\ traders = None
  /\ toVenue = [s \in Sessions |-> <<>>]
  /\ toUs = [s \in Sessions |-> <<>>]
  /\ last = FirstLast
  /\ executed = [c \in Calls |-> 0]
  /\ ops = 0

-----------------------------------------------------------------------------
(* Request ids. *)
InBand(v) == v % (2 * Half) >= Half
Above(x, y) == IF x < y THEN y ELSE x

(* Mutant: the band is not jumped. *)
NextRqPlain(rq, lfr) == Above(rq, lfr) + 1

NextRq(rq, lfr) ==
  LET v == Above(rq, lfr) + 1
  IN  IF InBand(v) THEN (v \div (2 * Half) + 1) * (2 * Half) ELSE v

(* _bump: the venue's number moves ours up, never down. *)
Bump(s, lfr) == [s EXCEPT !.lfr = Above(@, lfr), !.rq = Above(@, lfr)]

-----------------------------------------------------------------------------
At(c, p)  == call[c].pc = p
On(c)     == call[c].on
Outside   == ops < MaxOps /\ ops' = ops + 1
Answer(c, kind) == [call[c] EXCEPT !.pc = "answered", !.answer = kind]
End(c, res)     == [call EXCEPT ![c] = Fresh("done", 1, res)]

(* A session of ours closed: its reader is gone, and what it would have read. *)
Close(s) == /\ sess' = [sess EXCEPT ![s].up = FALSE]
            /\ toUs' = [toUs EXCEPT ![s] = <<>>]

(* _trader: the user's session when its reader runs, else a new one; the    *)
(* awaits before the new one is installed let other calls in.               *)
Trader(c) ==
  /\ At(c, "idle")
  /\ call' = IF traders # None /\ sess[traders].up
             THEN [call EXCEPT ![c].pc = "ready", ![c].on = traders]
             ELSE [call EXCEPT ![c].pc = "connect"]
  /\ UNCHANGED <<conns, toVenue, toUs, last, executed, ops>>

(* Signed in and seeded from the account snapshot, or not connected at all: *)
(* that ends the call, whose try does not cover _trader.                    *)
Unopened == {s \in Sessions : ~sess[s].used}

Connect(c) ==
  /\ At(c, "connect") /\ Unopened # {}
  /\ LET s == CHOOSE s \in Unopened : TRUE
     IN  /\ sess' = [sess EXCEPT ![s] = [Bump(@, last) EXCEPT !.up = TRUE, !.used = TRUE]]
         /\ traders' = s
         /\ call' = [call EXCEPT ![c].pc = "ready", ![c].on = s]
  /\ UNCHANGED <<toVenue, toUs, last, executed, ops>>

ConnectFails(c) ==
  /\ At(c, "connect")
  /\ May("refuse") \/ Unopened = {}
  /\ call' = End(c, "failed")
  /\ UNCHANGED <<conns, toVenue, toUs, last, executed, ops>>

(* No heartbeat within 5 s: an OSError before anything was sent. *)
NoBlock(c) ==
  /\ At(c, "ready") /\ Outside /\ May("block")
  /\ call' = [call EXCEPT ![c] = Fresh("close", call[c].attempt, "none")]
  /\ Close(On(c))
  /\ UNCHANGED <<traders, toVenue, last, executed>>

(* Put a frame on the socket; a dead one raises ConnectionClosed, which is  *)
(* no ConnectionError: the call fails as if nothing had happened before.    *)
Put(c, rq, next) ==
  IF sess[On(c)].up
  THEN /\ toVenue' = [toVenue EXCEPT ![On(c)] = Append(@, [call |-> c, rq |-> rq])]
       /\ call' = [call EXCEPT ![c] = [next EXCEPT !.pc = "wait", !.answer = "none", !.rq = rq]]
  ELSE call' = End(c, "failed") /\ UNCHANGED toVenue

FreshRq(c) == NextRq(sess[On(c)].rq, sess[On(c)].lfr)

Send(c) ==
  /\ At(c, "ready")
  /\ sess' = [sess EXCEPT ![On(c)].rq = FreshRq(c)]
  /\ Put(c, FreshRq(c), call[c])
  /\ UNCHANGED <<traders, toUs, last, executed, ops>>

(* 15 s without an answer: the same id once more, then Unconfirmed. *)
Resend(c) ==
  /\ At(c, "wait") /\ ~call[c].retried
  /\ Put(c, call[c].rq, [call[c] EXCEPT !.retried = TRUE])
  /\ UNCHANGED <<conns, toUs, last, executed, ops>>

Unconfirmed(c) ==
  /\ Close(On(c))
  /\ call' = [call EXCEPT ![c] = Fresh("close", 1, "unconfirmed")]

(* Mutant: the second wait has no timeout, only the socket's end ends it. *)
GiveUpOnClose(c) ==
  /\ At(c, "wait") /\ call[c].retried /\ ~sess[On(c)].up
  /\ Unconfirmed(c)
  /\ UNCHANGED <<traders, toVenue, last, executed, ops>>

GiveUp(c) ==
  /\ At(c, "wait") /\ call[c].retried
  /\ Unconfirmed(c)
  /\ UNCHANGED <<traders, toVenue, last, executed, ops>>

(* The call wakes up with its answer; a refused id is replaced, once. *)
Resume(c) ==
  /\ At(c, "answered")
  /\ LET got == call[c].answer
     IN  \/ /\ got = "conn" /\ Unconfirmed(c) /\ UNCHANGED toVenue
         \/ /\ got = "sr32" /\ ~call[c].sr32
            /\ sess' = [sess EXCEPT ![On(c)].rq = FreshRq(c)]
            /\ Put(c, FreshRq(c), [call[c] EXCEPT !.sr32 = TRUE])
            /\ UNCHANGED toUs
         \/ /\ got \in {"fill", "reject"} \/ (got = "sr32" /\ call[c].sr32)
            /\ call' = End(c, IF got = "fill" THEN "filled" ELSE "failed")
            /\ UNCHANGED <<sess, toVenue, toUs>>
  /\ UNCHANGED <<traders, last, executed, ops>>

(* Mutant: an unconfirmed order is tried again on a fresh socket. *)
PopRetries(c) ==
  /\ At(c, "close")
  /\ traders' = None
  /\ call' = IF call[c].attempt = 1
             THEN [call EXCEPT ![c] = Fresh("idle", 2, "none")]
             ELSE End(c, IF call[c].res = "none" THEN "failed" ELSE call[c].res)
  /\ UNCHANGED <<sess, toVenue, toUs, last, executed, ops>>

(* After the session is closed its user forgets the installed one, whichever*)
(* it is by now.  Only a call that sent nothing is tried again, once.       *)
Pop(c) ==
  /\ At(c, "close")
  /\ traders' = None
  /\ call' = IF call[c].res = "none" /\ call[c].attempt = 1
             THEN [call EXCEPT ![c] = Fresh("idle", 2, "none")]
             ELSE End(c, IF call[c].res = "none" THEN "failed" ELSE call[c].res)
  /\ UNCHANGED <<sess, toVenue, toUs, last, executed, ops>>

-----------------------------------------------------------------------------
(* Mutant: an answer settles every call that waits on its socket. *)
MatchedAll(s, m) == {c \in Calls : At(c, "wait") /\ On(c) = s}

(* _read: the frame moves the counter, and settles the calls waiting for it. *)
Matched(s, m) ==
  {c \in Calls : /\ At(c, "wait") /\ On(c) = s
                 /\ m.kind = "error" \/ m.rq = call[c].rq}

Read(s) ==
  /\ sess[s].up /\ toUs[s] # <<>>
  /\ LET m == Head(toUs[s])
     IN  /\ sess' = [sess EXCEPT ![s] = Bump(@, m.lfr)]
         /\ call' = [c \in Calls |->
              IF c \in Matched(s, m)
              THEN Answer(c, IF m.kind = "error" THEN "reject" ELSE m.kind) ELSE call[c]]
  /\ toUs' = [toUs EXCEPT ![s] = Tail(@)]
  /\ UNCHANGED <<traders, toVenue, last, executed, ops>>

(* The socket dies: the frames under way to the venue get there up to some  *)
(* point, those to us are lost.  When the reader fails with it the waiting  *)
(* calls are told; when the venue closes in order, nobody is.               *)
Drop(s, told) ==
  /\ Outside /\ sess[s].up
  /\ May(IF told THEN "drop" ELSE "close")
  /\ sess' = [sess EXCEPT ![s].up = FALSE]
  /\ \E n \in 0..Len(toVenue[s]) : toVenue' = [toVenue EXCEPT ![s] = SubSeq(@, 1, n)]
  /\ toUs' = [toUs EXCEPT ![s] = <<>>]
  /\ call' = [c \in Calls |-> IF told /\ At(c, "wait") /\ On(c) = s
                              THEN Answer(c, "conn") ELSE call[c]]
  /\ UNCHANGED <<traders, last, executed>>

-----------------------------------------------------------------------------
(* The venue: ids strictly above its last one and outside the band.  An id  *)
(* it has taken already is refused like one too low, or not answered.       *)
Reply(s, kind, rq, lfr) ==
  toUs' = IF sess[s].up
          THEN [toUs EXCEPT ![s] = Append(@, [kind |-> kind, rq |-> rq, lfr |-> lfr])]
          ELSE toUs

Venue(s) ==
  /\ toVenue[s] # <<>>
  /\ toVenue' = [toVenue EXCEPT ![s] = Tail(@)]
  /\ LET f == Head(toVenue[s])
     IN  IF f.rq > last /\ ~InBand(f.rq)
         THEN /\ last' = f.rq
              /\ \/ /\ executed' = [executed EXCEPT ![f.call] = @ + 1]
                    /\ Reply(s, "fill", f.rq, 0) \/ (May("mute") /\ UNCHANGED toUs)
                 \/ UNCHANGED executed /\ Reply(s, "reject", f.rq, 0)
         ELSE /\ UNCHANGED <<last, executed>>
              /\ \/ \E lfr \in {0, last} : Reply(s, "sr32", f.rq, lfr)
                 \/ f.rq = last /\ UNCHANGED toUs
  /\ UNCHANGED <<call, conns, ops>>

(* Another client of the account, a browser say, sends a request. *)
OtherClient ==
  /\ Outside /\ May("other")
  /\ last' = NextRq(last, last)
  /\ UNCHANGED <<call, conns, toVenue, toUs, executed>>

(* An error frame (mt:3) carries no id. *)
VenueError(s) ==
  /\ Outside /\ May("error") /\ sess[s].up
  /\ toUs' = [toUs EXCEPT ![s] = Append(@, [kind |-> "error", rq |-> 0, lfr |-> 0])]
  /\ UNCHANGED <<call, conns, toVenue, last, executed>>

-----------------------------------------------------------------------------
CallStep(c) ==
  \/ Trader(c) \/ ConnectFails(c) \/ NoBlock(c) \/ Send(c) \/ Resend(c) \/ GiveUp(c)
  \/ Resume(c) \/ Pop(c) \/ Connect(c)

Next ==
  \/ \E c \in Calls : CallStep(c)
  \/ \E s \in Sessions : Read(s) \/ Venue(s) \/ VenueError(s)
                         \/ \E told \in BOOLEAN : Drop(s, told)
  \/ OtherClient

Spec == Init /\ [][Next]_vars

(* asyncio runs what is ready, and every wait of a call has a timeout; the  *)
(* venue owes nothing.                                                      *)
FairSpec == Spec /\ \A c \in Calls : WF_vars(CallStep(c))

-----------------------------------------------------------------------------
(* An order call is executed at most once (perpl_ws.py:177).                *)
AtMostOnce == \A c \in Calls : executed[c] <= 1

(* A fill reported is this call's own fill, not that of a call which shares *)
(* the socket or an id of another socket (perpl_ws.py:302-311).             *)
FillIsOurs == \A c \in Calls : call[c].res = "filled" => executed[c] > 0

(* No id ever sent lies in the band the venue refuses (perpl_ws.py:104-108). *)
SentOutsideBand ==
  \A s \in Sessions : \A i \in 1..Len(toVenue[s]) : ~InBand(toVenue[s][i].rq)

(* Every order call comes back, however silent the venue                    *)
(* (perpl_ws.py:196-202, executor.py:73-91).                                *)
CallsEnd == \A c \in Calls : ~At(c, "idle") ~> At(c, "done")
=============================================================================
