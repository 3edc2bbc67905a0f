----------------------------- MODULE RespCache -----------------------------
(***************************************************************************)
(* One key of the response cache of the read-only endpoints               *)
(* (utils/resp_cache.py).  Requests and the background warmer share the    *)
(* key's entry, with a lock around its build; the entry may be invalidated *)
(* or, by requests for other keys, evicted while it is built.  Times are   *)
(* ages that stop growing where no test tells them apart any more.         *)
(***************************************************************************)
EXTENDS Integers, FiniteSets

CONSTANTS
  CacheEntries,              \* _Entry objects of the key alive at a time: bound
  Readers, Warmer, NoEntry,
  TTL, StaleMax, Backoff, WarmWindow

ASSUME CacheConstants ==
  /\ Warmer \notin Readers /\ NoEntry \notin CacheEntries \cup Readers \cup {Warmer}
  /\ TTL \in Nat \ {0} /\ {StaleMax, Backoff, WarmWindow} \subseteq Nat

VARIABLES
  slot,     \* RespCache._e at the key
  entry,    \* the _Entry objects; those nobody refers to are NewEntry
  reader,   \* get(), per request
  warm      \* refresh_hot(), at this key

cacheVars == <<slot, entry, reader, warm>>

Larger(a, b) == IF a < b THEN b ELSE a
Longest == Larger(Larger(TTL, StaleMax), WarmWindow)
Older(age, cap) == IF age < cap THEN age + 1 ELSE age

(* val: whether the value's build began before the last invalidation of its
   key.  at, read, fail: how long ago it was built, read, failed to build. *)
NewEntry == [val |-> "none", at |-> Longest, read |-> 0, fail |-> Backoff, lock |-> NoEntry]
EntryRec == [val : {"none", "new", "old"}, at : 0 .. Longest, read : 0 .. WarmWindow,
             fail : 0 .. Backoff, lock : Readers \cup {Warmer, NoEntry}]

(* before: it came before the last invalidation; build: as val, of its build;
   got, age: what it was served. *)
Idle == [pc |-> "idle", ent |-> NoEntry, before |-> FALSE, build |-> "none",
         got |-> "none", age |-> 0]
ReaderRec == [pc : {"idle", "wait", "build", "served", "failed"}, ent : CacheEntries \cup {NoEntry},
              before : BOOLEAN, build : {"none", "new", "old"}, got : {"none", "new", "old"},
              age : 0 .. Longest]
NotWarming == [pc |-> "idle", ent |-> NoEntry, build |-> "none"]

(* The types of the cache: entries, requests and the warmer. *)
CacheTypeOK ==
  /\ slot \in CacheEntries \cup {NoEntry}
  /\ entry \in [CacheEntries -> EntryRec]
  /\ reader \in [Readers -> ReaderRec]
  /\ warm \in [pc : {"idle", "picked", "build"}, ent : CacheEntries \cup {NoEntry},
               build : {"none", "new", "old"}]

CacheInit ==
  /\ slot = NoEntry
  /\ entry = [e \in CacheEntries |-> NewEntry]
  /\ reader = [r \in Readers |-> Idle]
  /\ warm = NotWarming

-----------------------------------------------------------------------------
Referred == {slot, warm.ent} \cup {reader[r].ent : r \in Readers}
Alive(ents) == [e \in CacheEntries |-> IF e \in Referred' THEN ents[e] ELSE NewEntry]

FreshAt(e) == e.val # "none" /\ e.at < TTL

Serve(r, e) == [Idle EXCEPT !.pc = "served", !.before = reader[r].before,
                            !.got = e.val, !.age = e.at]

(* get(): the key's entry, a new one if there is none, and its value when fresh. *)
Ask(r) ==
  /\ reader[r].pc = "idle"
  /\ slot' \in CacheEntries
  /\ IF slot = NoEntry THEN slot' \notin Referred ELSE slot' = slot
  /\ reader' = [reader EXCEPT ![r] =
       IF FreshAt(entry[slot']) THEN Serve(r, entry[slot'])
       ELSE [Idle EXCEPT !.pc = "wait", !.ent = slot']]
  /\ UNCHANGED warm
  /\ entry' = [entry EXCEPT ![slot'].read = 0]

Done(r) ==
  /\ reader[r].pc \in {"served", "failed"}
  /\ reader' = [reader EXCEPT ![r] = Idle]
  /\ UNCHANGED <<slot, entry, warm>>

(* Mutant: the value is not looked at again under the lock. *)
GoodEnoughOnce(e) == e.val # "none" /\ e.fail < Backoff /\ e.at < StaleMax

GoodEnough(e) == FreshAt(e) \/ (e.val # "none" /\ e.fail < Backoff /\ e.at < StaleMax)

(* Under the lock: what another request just built, the last good value
   shortly after a failure, or a build of its own. *)
TakeLock(r) ==
  LET me == reader[r]  e == entry[me.ent] IN
  /\ me.pc = "wait" /\ e.lock = NoEntry
  /\ UNCHANGED <<slot, warm>>
  /\ IF GoodEnough(e)
     THEN /\ reader' = [reader EXCEPT ![r] = Serve(r, e)]
          /\ entry' = Alive(entry)
     ELSE /\ reader' = [reader EXCEPT ![r].pc = "build", ![r].build = "new"]
          /\ entry' = [entry EXCEPT ![me.ent].lock = r]

Built(e, build) == [e EXCEPT !.val = build, !.at = 0, !.fail = Backoff, !.lock = NoEntry]

BuildOk(r) ==
  LET me == reader[r]  e == Built(entry[me.ent], me.build) IN
  /\ me.pc = "build"
  /\ UNCHANGED <<slot, warm>>
  /\ reader' = [reader EXCEPT ![r] = Serve(r, e)]
  /\ entry' = Alive([entry EXCEPT ![me.ent] = e])

(* Mutant: a failed build keeps the lock. *)
BrokenKeeps(e) == [e EXCEPT !.fail = 0]

Broken(e) == [e EXCEPT !.fail = 0, !.lock = NoEntry]

(* Mutant: after a failure the last good value is served however old. *)
StillGoodAlways(e) == e.val # "none"

StillGood(e) == e.val # "none" /\ e.at < StaleMax

BuildFails(r) ==
  LET me == reader[r]  e == Broken(entry[me.ent]) IN
  /\ me.pc = "build"
  /\ UNCHANGED <<slot, warm>>
  /\ reader' = [reader EXCEPT ![r] =
       IF StillGood(e) THEN Serve(r, e)
       ELSE [Idle EXCEPT !.pc = "failed"]]
  /\ entry' = Alive([entry EXCEPT ![me.ent] = e])

-----------------------------------------------------------------------------
Aged(tag) == IF tag = "new" THEN "old" ELSE tag

(* An invalidation makes every value built so far, or being built, an old one. *)
Outdated ==
  /\ reader' = [r \in Readers |-> IF reader[r].pc \in {"wait", "build"}
       THEN [reader[r] EXCEPT !.before = TRUE, !.build = Aged(@)] ELSE reader[r]]
  /\ warm' = [warm EXCEPT !.build = Aged(@)]

(* Mutant: the value is dropped and the entry stays. *)
InvalidateInPlace ==
  /\ slot # NoEntry
  /\ Outdated
  /\ UNCHANGED slot
  /\ entry' = [e \in CacheEntries |->
       [entry[e] EXCEPT !.val = IF e = slot THEN "none" ELSE Aged(@)]]

Invalidate ==
  /\ slot # NoEntry
  /\ Outdated
  /\ slot' = NoEntry
  /\ entry' = Alive([e \in CacheEntries |-> [entry[e] EXCEPT !.val = Aged(@)]])

(* Requests for other keys fill the cache, and this key was not read lately
   enough: the half read longest ago is dropped (_entry). *)
Evict ==
  /\ slot # NoEntry
  /\ slot' = NoEntry
  /\ UNCHANGED <<reader, warm>>
  /\ entry' = Alive(entry)

(* refresh_hot(): an entry read since it was built and half expired is picked,
   and refreshed when its turn comes. *)
WarmPass ==
  /\ warm.pc = "idle" /\ slot # NoEntry
  /\ entry[slot].read < WarmWindow /\ entry[slot].read < entry[slot].at /\ 2 * entry[slot].at > TTL
  /\ warm' = [warm EXCEPT !.pc = "picked", !.ent = slot]
  /\ UNCHANGED <<slot, entry, reader>>

WarmEntry ==
  /\ warm.pc = "picked"
  /\ UNCHANGED <<slot, reader>>
  /\ IF entry[warm.ent].lock # NoEntry
     THEN warm' = NotWarming /\ entry' = Alive(entry)
     ELSE /\ warm' = [warm EXCEPT !.pc = "build", !.build = "new"]
          /\ entry' = [entry EXCEPT ![warm.ent].lock = Warmer]

WarmBuilt ==
  /\ warm.pc = "build"
  /\ UNCHANGED <<slot, reader>>
  /\ warm' = NotWarming
  /\ \E e \in {Built(entry[warm.ent], warm.build), Broken(entry[warm.ent])} :
       entry' = Alive([entry EXCEPT ![warm.ent] = e])

Age ==
  /\ UNCHANGED <<slot, reader, warm>>
  /\ entry' = Alive([e \in CacheEntries |-> [entry[e] EXCEPT
       !.at = Older(@, Longest), !.read = Older(@, WarmWindow), !.fail = Older(@, Backoff)]])

CacheNext ==
  \/ \E r \in Readers : Ask(r) \/ TakeLock(r) \/ BuildOk(r) \/ BuildFails(r) \/ Done(r)
  \/ Invalidate \/ Evict \/ WarmPass \/ WarmEntry \/ WarmBuilt \/ Age

CacheSpec == CacheInit /\ [][CacheNext]_cacheVars

-----------------------------------------------------------------------------
(* No request is served a value older than the time to live, or than
   stale_max after a failed build, however long that build took. *)
ServedFresh ==
  \A r \in Readers : reader[r].pc = "served" =>
    reader[r].age < TTL \/ reader[r].age < StaleMax

(* A request that comes after an invalidation of its key is never served a
   value whose build began before it, though that build may end later. *)
InvalidatedNotServed ==
  \A r \in Readers : reader[r].pc = "served" /\ reader[r].got = "old" => reader[r].before

(* What is served is fresh, of an age and of a build. *)
ServedValid == ServedFresh /\ InvalidatedNotServed

(* Requests that wait share one build: a request starts a build only of an
   entry that nobody is building and whose value is missing or expired. *)
SharedBuild ==
  [][\A r \in Readers : reader[r].pc = "wait" /\ reader'[r].pc = "build" =>
       LET e == entry[reader[r].ent] IN
         /\ ~FreshAt(e)
         /\ \A o \in Readers : reader[o].pc = "build" => reader[o].ent # reader[r].ent
         /\ warm.pc = "build" => warm.ent # reader[r].ent]_cacheVars

(* Every request that waits for a build comes back, failed builds included. *)
AnswersCome ==
  \A r \in Readers : reader[r].pc = "wait" ~> reader[r].pc \in {"served", "failed"}
=============================================================================
