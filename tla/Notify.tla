------------------------------- MODULE Notify -------------------------------
(***************************************************************************)
(* Telegram alerts: calls of send_alert (alerts/gateway.py), the drain of  *)
(* the strategies' outbox (strat_outbox.py) and the in-process queue both  *)
(* fill (telegram_queue.py), for one user with one chat.  The alert log    *)
(* and the outbox are tables, the rest is lost when the process restarts.  *)
(***************************************************************************)
EXTENDS Integers, FiniteSets, Sequences, SequencesExt

CONSTANTS
  Alerts,        \* alerts with a dedupe key and window
  Digest,        \* the digest of the alerts held back, which has neither
  Callers,       \* send_alert calls that run at a time, the digest loop's own not counted: bound
  OutRows,       \* rows of strat_telegram_outbox
  LogRows,       \* rows of telegram_alert_log in the dedupe window: bound
  Nil,
  KeyWindow,     \* _DEDUPE_WINDOW, in ticks
  LogWindow,     \* dedupe_hours, in ticks
  HourlyLimit,
  MaxQueue,
  MaxRetries,
  MaxMishaps     \* restarts and failed database calls: bound

ASSUME NotifyConstants ==
  /\ {KeyWindow, LogWindow, HourlyLimit, MaxQueue, MaxRetries, MaxMishaps} \subseteq Nat
  /\ KeyWindow < LogWindow
  /\ Nil \notin Alerts \cup OutRows \cup LogRows \cup (0 .. KeyWindow)
  /\ Nil \notin [key : Alerts \cup OutRows \cup {Digest}, row : LogRows \cup {Nil}]
  /\ Alerts \cap (OutRows \cup {Digest}) = {}

VARIABLES
  tgQueue,   \* telegram_queue._queue
  tgKeys,    \* _recent_keys, and how long ago each was recorded
  tgWorker,  \* _worker() and the message it delivers
  alog,      \* telegram_alert_log
  hourly,    \* _sent_times of the user; of the digests, no more than the limit: bound
  held,      \* whether _digest holds anything of the user
  sender,    \* send_alert()
  outbox,    \* strat_telegram_outbox: sent
  drained,   \* rows marked by the drain's open transaction
  tgSent,    \* log rows whose message Telegram has, an acknowledgement lost or not
  offered,   \* outbox rows put to the queue
  mishaps

notifyVars == <<tgQueue, tgKeys, tgWorker, alog, hourly, held, sender, outbox, drained,
                tgSent, offered, mishaps>>
tg == <<tgQueue, tgKeys, tgWorker, tgSent>>
ob == <<outbox, drained, offered>>

Asleep == [pc |-> "idle", alert |-> Nil, row |-> Nil]
NoLine == [alert |-> Nil, status |-> "none", age |-> 0]
NoSends == [alerts |-> 0, digests |-> 0]
Resting == [msg |-> Nil, tries |-> 0, res |-> "none"]
Msgs == [key : Alerts \cup OutRows \cup {Digest}, row : LogRows \cup {Nil}]

(* The types of the alert path; the queue never holds more than its cap. *)
NotifyTypeOK ==
  /\ tgQueue \in Seq(Msgs) /\ Len(tgQueue) <= MaxQueue
  /\ tgKeys \in [Alerts \cup OutRows -> {Nil} \cup 0 .. KeyWindow]
  /\ tgWorker \in [msg : Msgs \cup {Nil}, tries : 0 .. MaxRetries, res : {"none", "sent", "failed"}]
  /\ alog \in [LogRows -> [alert : Alerts \cup {Nil}, age : 0 .. LogWindow,
       status : {"none", "queued", "sent", "failed", "digested", "dropped"}]]
  /\ hourly \in [alerts : Nat, digests : 0 .. HourlyLimit]
  /\ held \in BOOLEAN
  /\ sender \in [Callers -> [pc : {"idle", "log", "send", "drop"},
       alert : Alerts \cup {Nil}, row : LogRows \cup {Nil}]]
  /\ outbox \in [OutRows -> {"none", "unsent", "sent"}]
  /\ drained \subseteq OutRows /\ offered \subseteq OutRows /\ tgSent \subseteq LogRows
  /\ mishaps \in 0 .. MaxMishaps

NotifyInit ==
  /\ tgQueue = <<>> /\ tgWorker = Resting
  /\ tgKeys = [k \in Alerts \cup OutRows |-> Nil]
  /\ alog = [r \in LogRows |-> NoLine]
  /\ hourly = NoSends /\ held = FALSE
  /\ sender = [c \in Callers |-> Asleep]
  /\ outbox = [r \in OutRows |-> "none"]
  /\ drained = {} /\ tgSent = {} /\ offered = {}
  /\ mishaps = 0

-----------------------------------------------------------------------------
(* telegram_queue *)

(* Mutant: keys are not looked at. *)
KnownNever(key) == FALSE

Known(key) == key \in DOMAIN tgKeys /\ tgKeys[key] # Nil

(* Mutant: the queue takes whatever comes. *)
EnqueueUncapped(key, row) ==
  /\ tgKeys' = IF key \notin DOMAIN tgKeys \/ Known(key) THEN tgKeys ELSE [tgKeys EXCEPT ![key] = 0]
  /\ tgQueue' = IF Known(key) THEN tgQueue ELSE Append(tgQueue, [key |-> key, row |-> row])

(* The key is recorded before the queue is found full. *)
Enqueue(key, row) ==
  /\ tgKeys' = IF key \notin DOMAIN tgKeys \/ Known(key) THEN tgKeys ELSE [tgKeys EXCEPT ![key] = 0]
  /\ tgQueue' = IF Known(key) \/ Len(tgQueue) >= MaxQueue THEN tgQueue
                ELSE Append(tgQueue, [key |-> key, row |-> row])

Accepted(key) == ~Known(key) /\ Len(tgQueue) < MaxQueue

TakeMsg ==
  /\ tgWorker.msg = Nil /\ tgQueue # <<>>
  /\ tgWorker' = [Resting EXCEPT !.msg = Head(tgQueue)]
  /\ tgQueue' = Tail(tgQueue)
  /\ UNCHANGED <<tgKeys, tgSent, alog, hourly, held, sender, ob, mishaps>>

(* Mutant: it is tried for ever. *)
LastTryNever == FALSE

LastTry == tgWorker.tries = MaxRetries

(* One try of _deliver: Telegram takes it or not, and the worker learns of it
   or not. *)
TrySend ==
  /\ tgWorker.msg # Nil /\ tgWorker.res = "none"
  /\ \E took \in BOOLEAN, told \in BOOLEAN :
       /\ told => took
       /\ tgSent' = IF took THEN (tgSent \cup {tgWorker.msg.row}) \ {Nil} ELSE tgSent
       /\ tgWorker' =
            IF told THEN [tgWorker EXCEPT !.res = "sent"]
            ELSE IF LastTry THEN [tgWorker EXCEPT !.res = "failed"]
            ELSE [tgWorker EXCEPT !.tries = (@ + 1) % (MaxRetries + 1)]
  /\ UNCHANGED <<tgQueue, tgKeys, alog, hourly, held, sender, ob, mishaps>>

(* Mutant: a callback that fails is the end of the worker's loop. *)
ReportedOnlyWell == alog' = [alog EXCEPT ![tgWorker.msg.row].status = "sent"] /\ UNCHANGED mishaps

(* on_result writes the outcome; a failure to is swallowed. *)
Reported ==
  \/ alog' = [alog EXCEPT ![tgWorker.msg.row].status = tgWorker.res] /\ UNCHANGED mishaps
  \/ mishaps < MaxMishaps /\ mishaps' = mishaps + 1 /\ UNCHANGED alog

ReportBack ==
  /\ tgWorker.res # "none"
  /\ IF tgWorker.msg.row = Nil THEN UNCHANGED <<alog, mishaps>> ELSE Reported
  /\ tgWorker' = Resting
  /\ UNCHANGED <<tgQueue, tgKeys, tgSent, hourly, held, sender, ob>>

-----------------------------------------------------------------------------
(* alerts.gateway *)

SeenRecently(a) ==
  \E r \in LogRows : alog[r].alert = a /\ alog[r].status \in {"queued", "sent", "digested"}

(* The user is linked, the alert enabled, and these are no quiet hours; a
   duplicate ends here. *)
AskAlert(c, a) ==
  /\ sender[c].pc = "idle" /\ ~SeenRecently(a)
  /\ sender' = [sender EXCEPT ![c] = [Asleep EXCEPT !.pc = "log", !.alert = a]]
  /\ UNCHANGED <<tg, alog, hourly, held, ob, mishaps>>

Underway(row) ==
  \/ tgWorker.msg # Nil /\ tgWorker.msg.row = row
  \/ \E i \in 1 .. Len(tgQueue) : tgQueue[i].row = row

(* A row of the log that nothing reads or writes any more, or none yet. *)
Free(r) ==
  /\ ~Underway(r) /\ \A c \in Callers : sender[c].row # r
  /\ alog[r].status \in {"none", "failed", "dropped"}

(* The row a decision gets in the log; what is queued goes on to the queue. *)
Logged(c, a, status) ==
  \E r \in LogRows :
    /\ Free(r) /\ r = CHOOSE q \in LogRows : Free(q)
    /\ tgSent' = tgSent \ {r}
    /\ alog' = [alog EXCEPT ![r] = [NoLine EXCEPT !.alert = a, !.status = status]]
    /\ sender' = [sender EXCEPT ![c] =
         IF status = "queued" THEN [pc |-> "send", alert |-> a, row |-> r] ELSE Asleep]

OverLimit == hourly.alerts + hourly.digests >= HourlyLimit

LogAlert(c) ==
  /\ sender[c].pc = "log"
  /\ Logged(c, sender[c].alert, IF OverLimit THEN "digested" ELSE "queued")
  /\ held' = (held \/ OverLimit)
  /\ UNCHANGED <<tgQueue, tgKeys, tgWorker, hourly, ob, mishaps>>

(* _flush_digests(): one message, forced past the toggle, the quiet hours and
   the limit, which counts it.  Nothing reads its row of the log. *)
FlushDigest ==
  /\ held /\ held' = FALSE
  /\ Enqueue(Digest, Nil)
  /\ hourly' = IF Accepted(Digest) /\ hourly.digests < HourlyLimit
               THEN [hourly EXCEPT !.digests = @ + 1] ELSE hourly
  /\ UNCHANGED <<tgWorker, tgSent, alog, sender, ob, mishaps>>

(* Mutant: a message the queue refuses is left as it is. *)
QueueRefusedLeft(c) == Asleep

QueueRefused(c) == [sender[c] EXCEPT !.pc = "drop"]

SendAlert(c) ==
  LET me == sender[c] IN
  /\ me.pc = "send"
  /\ Enqueue(me.alert, me.row)
  /\ IF Accepted(me.alert)
     THEN /\ hourly' = [hourly EXCEPT !.alerts = @ + 1]
          /\ sender' = [sender EXCEPT ![c] = Asleep]
     ELSE sender' = [sender EXCEPT ![c] = QueueRefused(c)] /\ UNCHANGED hourly
  /\ UNCHANGED <<tgWorker, tgSent, alog, held, ob, mishaps>>

DropAlert(c) ==
  /\ sender[c].pc = "drop"
  /\ alog' = [alog EXCEPT ![sender[c].row].status = "dropped"]
  /\ sender' = [sender EXCEPT ![c] = Asleep]
  /\ UNCHANGED <<tg, hourly, held, ob, mishaps>>

(* The update fails: send_alert answers "error" and is over. *)
DropFails(c) ==
  /\ sender[c].pc = "drop" /\ mishaps < MaxMishaps
  /\ sender' = [sender EXCEPT ![c] = Asleep]
  /\ mishaps' = mishaps + 1
  /\ UNCHANGED <<tg, alog, hourly, held, ob>>

-----------------------------------------------------------------------------
(* strat_outbox *)

(* The strategies, in a process of their own, write a row. *)
Write(r) ==
  /\ outbox[r] = "none"
  /\ outbox' = [outbox EXCEPT ![r] = "unsent"]
  /\ UNCHANGED <<tg, alog, hourly, held, sender, drained, offered, mishaps>>

(* Mutant: a row is marked, committed, and offered later. *)
DrainMarked(r) == UNCHANGED <<tgKeys, tgQueue, offered>>

DrainRow(r) == Enqueue(r, Nil) /\ offered' = offered \cup {r}

(* drain_once(): each row not sent is put to the queue and marked, whatever
   the queue answers. *)
Drain(r) ==
  /\ outbox[r] = "unsent" /\ r \notin drained
  /\ DrainRow(r)
  /\ drained' = drained \cup {r}
  /\ UNCHANGED <<tgWorker, tgSent, alog, hourly, held, sender, outbox, mishaps>>

(* Mutant: the transaction is closed without a commit. *)
CommittedNot == outbox

Committed == [r \in OutRows |-> IF r \in drained THEN "sent" ELSE outbox[r]]

DrainCommit ==
  /\ drained # {}
  /\ outbox' = Committed
  /\ drained' = {}
  /\ UNCHANGED <<tg, alog, hourly, held, sender, offered, mishaps>>

DrainFails ==
  /\ drained # {} /\ mishaps < MaxMishaps
  /\ drained' = {}
  /\ mishaps' = mishaps + 1
  /\ UNCHANGED <<tg, alog, hourly, held, sender, outbox, offered>>

-----------------------------------------------------------------------------
Restart ==
  /\ mishaps < MaxMishaps /\ mishaps' = mishaps + 1
  /\ tgQueue' = <<>> /\ tgWorker' = Resting
  /\ tgKeys' = [k \in Alerts \cup OutRows |-> Nil]
  /\ hourly' = NoSends /\ held' = FALSE
  /\ sender' = [c \in Callers |-> Asleep]
  /\ drained' = {}
  /\ UNCHANGED <<alog, outbox, tgSent, offered>>

(* Time passes between database calls, and slower for the log than for the
   queue: a message waits for less than the log's window. *)
Tick ==
  LET gone(r) == alog[r].age + 1 >= LogWindow IN
  /\ \A c \in Callers : sender[c] = Asleep
  /\ drained = {}
  /\ \A r \in LogRows : Underway(r) => ~gone(r)
  /\ tgKeys' = [k \in DOMAIN tgKeys |->
       IF tgKeys[k] = Nil \/ tgKeys[k] = KeyWindow THEN Nil ELSE tgKeys[k] + 1]
  /\ alog' = [r \in LogRows |-> IF alog[r] = NoLine \/ gone(r) THEN NoLine
                                ELSE [alog[r] EXCEPT !.age = @ + 1]]
  /\ tgSent' = {r \in tgSent : ~gone(r)}
  /\ hourly' \in [alerts : 0 .. hourly.alerts, digests : 0 .. hourly.digests]
  /\ UNCHANGED <<tgQueue, tgWorker, held, sender, ob, mishaps>>

NotifyNext ==
  \/ \E c \in Callers, a \in Alerts : AskAlert(c, a)
  \/ \E c \in Callers : LogAlert(c) \/ SendAlert(c) \/ DropAlert(c) \/ DropFails(c)
  \/ \E r \in OutRows : Write(r) \/ Drain(r)
  \/ FlushDigest \/ TakeMsg \/ TrySend \/ ReportBack \/ DrainCommit \/ DrainFails \/ Restart \/ Tick

NotifySpec == NotifyInit /\ [][NotifyNext]_notifyVars

-----------------------------------------------------------------------------
(* Two calls with the same alert, however they interleave, never put two
   messages of it on the way to Telegram: a repeat after a failed delivery
   included, and a restart, and the end of the queue's own window. *)
OneCopyUnderway ==
  \A a \in Alerts :
    Cardinality({i \in 1 .. Len(tgQueue) : tgQueue[i].key = a})
      + (IF tgWorker.msg # Nil /\ tgWorker.msg.key = a THEN 1 ELSE 0) <= 1

(* The log is right about what it settles: "sent" only what Telegram has,
   nothing of what was refused or held, and nothing settled is still to go. *)
LogTellsTruth ==
  \A r \in LogRows :
    /\ alog[r].status = "sent" => r \in tgSent
    /\ alog[r].status \in {"dropped", "digested"} => r \notin tgSent
    /\ alog[r].status \notin {"queued", "none"} => ~Underway(r)

(* As long as nothing fails, an alert the log calls queued, which keeps the
   same alert from being sent again, is still on its way. *)
QueuedIsUnderway ==
  mishaps = 0 => \A r \in LogRows : alog[r].status = "queued" =>
    Underway(r) \/ \E c \in Callers : sender[c].row = r

(* No outbox row is settled before the queue was offered its message, whatever
   crashes between the two. *)
SettledWasOffered == \A r \in OutRows : outbox[r] = "sent" => r \in offered

(* What the log and the outbox say of a message is so. *)
SettledIsTrue == LogTellsTruth /\ QueuedIsUnderway /\ SettledWasOffered

(* One message of an alert at a time, and what is said of it is so. *)
MessagesAccounted == OneCopyUnderway /\ SettledIsTrue

(* Every message the queue takes leaves it and its worker, sent or given up:
   neither Telegram nor a failing callback stops the worker. *)
WorkerDrains == \A r \in LogRows : Underway(r) ~> ~Underway(r)

(* Every row of the outbox is settled in the end, whatever drain fails. *)
OutboxDrains == \A r \in OutRows : outbox[r] = "unsent" ~> outbox[r] = "sent"

(* Queue and outbox both drain. *)
NotifyDrains == WorkerDrains /\ OutboxDrains
=============================================================================
