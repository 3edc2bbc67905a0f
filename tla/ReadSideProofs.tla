--------------------------- MODULE ReadSideProofs ---------------------------
(* Theorems about what is read from the venue and kept: one key of the       *)
(* response cache, the feed of a leader's fills, the stored fills of an      *)
(* account, the budget all requests share, and the trades feed.              *)
EXTENDS RespCache, LeaderFeed, FillHistory, HlBudget, TradesFeed, SetLemmas

(*****************************************************************************)
(* One key of the response cache, for any requests, entries and times.       *)
(*****************************************************************************)

Tag == {"none", "new", "old"}
WarmRec == [pc : {"idle", "picked", "build"}, ent : CacheEntries \cup {NoEntry}, build : Tag]

(* Who waits or builds has an entry, others have none. *)
RefsOK ==
  /\ \A r \in Readers : IF reader[r].pc \in {"wait", "build"} THEN reader[r].ent \in CacheEntries
                        ELSE reader[r].ent = NoEntry
  /\ IF warm.pc = "idle" THEN warm.ent = NoEntry ELSE warm.ent \in CacheEntries

(* Who builds has the entry's lock. *)
LocksOK ==
  /\ \A r \in Readers : reader[r].pc = "build" => entry[reader[r].ent].lock = r
  /\ warm.pc = "build" => entry[warm.ent].lock = Warmer

(* What nobody refers to is new. *)
FreeAreNew == \A e \in CacheEntries : e \notin Referred => entry[e] = NewEntry

(* An entry without a value from before the last invalidation, or a build   *)
(* of one.                                                                  *)
Young(e) ==
  /\ entry[e].val # "old"
  /\ \A r \in Readers : reader[r].pc = "build" /\ reader[r].ent = e => reader[r].build # "old"
  /\ warm.pc = "build" /\ warm.ent = e => warm.build # "old"

(* The key's entry is young, and so is that of a request that came after    *)
(* the last invalidation.                                                   *)
YoungOK ==
  /\ slot # NoEntry => Young(slot)
  /\ \A r \in Readers : reader[r].pc \in {"wait", "build"} /\ ~reader[r].before => Young(reader[r].ent)

CacheInv == CacheTypeOK /\ RefsOK /\ LocksOK /\ FreeAreNew /\ YoungOK /\ InvalidatedNotServed /\ ServedFresh

(* The constants, fact by fact. *)
LEMMA TimesAreNat ==
  /\ TTL \in Nat /\ TTL > 0 /\ StaleMax \in Nat /\ Backoff \in Nat /\ WarmWindow \in Nat /\ Longest \in Nat
  /\ NoEntry \notin CacheEntries /\ NoEntry \notin Readers /\ NoEntry # Warmer /\ Warmer \notin Readers
BY CacheConstants DEF Longest, Larger

(* A new entry, an idle request. *)
LEMMA NewTypes == NewEntry \in EntryRec /\ Idle \in ReaderRec /\ NotWarming \in WarmRec
<1>1. Longest \in 0 .. Longest /\ 0 \in 0 .. WarmWindow /\ Backoff \in 0 .. Backoff /\ 0 \in 0 .. Longest
  BY TimesAreNat
<1> QED BY <1>1 DEF NewEntry, EntryRec, Idle, ReaderRec, NotWarming, WarmRec, Tag

(* The fields of an entry and of a request. *)
LEMMA EntryFields ==
  ASSUME NEW e \in EntryRec
  PROVE  /\ e.val \in Tag /\ e.at \in 0 .. Longest /\ e.at \in Nat /\ e.read \in 0 .. WarmWindow
         /\ e.fail \in 0 .. Backoff /\ e.lock \in Readers \cup {Warmer, NoEntry}
BY TimesAreNat DEF EntryRec, Tag

(* What a request is served of an entry. *)
LEMMA ServeType ==
  ASSUME CacheInv, NEW r \in Readers, NEW e \in EntryRec
  PROVE  /\ Serve(r, e) \in ReaderRec
         /\ Serve(r, e).pc = "served" /\ Serve(r, e).ent = NoEntry
         /\ Serve(r, e).before = reader[r].before /\ Serve(r, e).got = e.val /\ Serve(r, e).age = e.at
<1>1. e.val \in Tag /\ e.at \in 0 .. Longest /\ reader[r].before \in BOOLEAN
  BY EntryFields DEF CacheInv, CacheTypeOK, ReaderRec
<1> QED BY <1>1 DEF Serve, Idle, ReaderRec, Tag

(* The entries after a step are those it leaves, new where nobody refers to *)
(* them any more.                                                           *)
LEMMA AliveIs ==
  ASSUME NEW ents \in [CacheEntries -> EntryRec], entry' = Alive(ents)
  PROVE  /\ entry' \in [CacheEntries -> EntryRec] /\ FreeAreNew'
         /\ \A e \in CacheEntries : entry'[e] = NewEntry \/ entry'[e] = ents[e]
         /\ slot' \in CacheEntries => entry'[slot'] = ents[slot']
         /\ \A r \in Readers : reader'[r].ent \in CacheEntries => entry'[reader'[r].ent] = ents[reader'[r].ent]
         /\ warm'.ent \in CacheEntries => entry'[warm'.ent] = ents[warm'.ent]
<1>1. \A e \in CacheEntries : entry'[e] = IF e \in Referred' THEN ents[e] ELSE NewEntry
  BY DEF Alive
<1>2. entry' \in [CacheEntries -> EntryRec]
  BY NewTypes DEF Alive
<1>3. FreeAreNew'
  BY <1>1 DEF FreeAreNew
<1>4. slot' \in Referred' /\ warm'.ent \in Referred' /\ \A r \in Readers : reader'[r].ent \in Referred'
  BY DEF Referred
<1> QED BY <1>1, <1>2, <1>3, <1>4

(* A built value. *)
LEMMA BuiltType ==
  ASSUME NEW e \in EntryRec, NEW build \in Tag
  PROVE  /\ Built(e, build) \in EntryRec /\ Built(e, build).val = build /\ Built(e, build).at = 0
         /\ Broken(e) \in EntryRec /\ Broken(e).val = e.val /\ Broken(e).at = e.at
<1>1. 0 \in 0 .. Longest /\ 0 \in 0 .. Backoff /\ Backoff \in 0 .. Backoff
  BY TimesAreNat
<1> QED BY <1>1 DEF Built, Broken, EntryRec, Tag

(* The first state satisfies the invariant. *)
LEMMA CacheInitOK ==
  ASSUME CacheInit
  PROVE  CacheInv
<1>1. CacheTypeOK
  BY NewTypes DEF CacheInit, CacheTypeOK, WarmRec, Tag
<1>2. \A r \in Readers : reader[r].pc = "idle" /\ reader[r].ent = NoEntry
  BY DEF CacheInit, Idle
<1>3. warm.pc = "idle" /\ warm.ent = NoEntry /\ slot = NoEntry /\ \A e \in CacheEntries : entry[e] = NewEntry
  BY DEF CacheInit, NotWarming
<1> QED BY <1>1, <1>2, <1>3
        DEF CacheInv, RefsOK, LocksOK, FreeAreNew, YoungOK, InvalidatedNotServed, ServedFresh

(* What the invariant says of one request and its entry. *)
LEMMA BusyReader ==
  ASSUME CacheInv, NEW r \in Readers, reader[r].pc \in {"wait", "build"}
  PROVE  /\ reader[r] \in ReaderRec /\ reader[r].ent \in CacheEntries
         /\ entry \in [CacheEntries -> EntryRec] /\ entry[reader[r].ent] \in EntryRec
         /\ (~reader[r].before => Young(reader[r].ent))
BY DEF CacheInv, CacheTypeOK, RefsOK, YoungOK

(* A request that is served: what it needs of the entry it is served from. *)
LEMMA ServedOK ==
  ASSUME CacheInv, NEW r \in Readers, NEW e \in EntryRec,
         reader' = [reader EXCEPT ![r] = Serve(r, e)],
         e.at < TTL \/ e.at < StaleMax, ~reader[r].before => e.val # "old"
  PROVE  /\ reader' \in [Readers -> ReaderRec] /\ ServedFresh' /\ InvalidatedNotServed'
         /\ reader'[r].pc = "served" /\ reader'[r].ent = NoEntry
         /\ \A o \in Readers : o # r => reader'[o] = reader[o]
<1>1. reader \in [Readers -> ReaderRec]
  BY DEF CacheInv, CacheTypeOK
<1>2. /\ reader' \in [Readers -> ReaderRec] /\ reader'[r] = Serve(r, e)
      /\ \A o \in Readers : o # r => reader'[o] = reader[o]
  BY <1>1, ServeType
<1>3. reader[r].before \in BOOLEAN
  BY <1>1 DEF ReaderRec
<1> QED BY <1>2, <1>3, ServeType DEF CacheInv, ServedFresh, InvalidatedNotServed

(* A request asks: its entry is the key's, or a new one. *)
LEMMA AskOK ==
  ASSUME CacheInv, NEW r \in Readers, Ask(r)
  PROVE  CacheInv'
<1>1. /\ reader[r].pc = "idle" /\ slot' \in CacheEntries /\ UNCHANGED warm
      /\ (IF slot = NoEntry THEN slot' \notin Referred ELSE slot' = slot)
      /\ entry' = [entry EXCEPT ![slot'].read = 0]
  BY DEF Ask
<1>2. entry \in [CacheEntries -> EntryRec] /\ reader \in [Readers -> ReaderRec] /\ warm \in WarmRec
      /\ reader[r].ent = NoEntry /\ reader[r].before \in BOOLEAN
  BY <1>1 DEF CacheInv, CacheTypeOK, WarmRec, Tag, RefsOK, ReaderRec
<1> DEFINE e == entry[slot']
<1>3. e \in EntryRec
  BY <1>1, <1>2
<1>4. /\ entry' \in [CacheEntries -> EntryRec]
      /\ \A x \in CacheEntries : entry'[x].val = entry[x].val /\ entry'[x].lock = entry[x].lock
      /\ \A x \in CacheEntries : x # slot' => entry'[x] = entry[x]
  <2>1. [e EXCEPT !.read = 0] \in EntryRec /\ [e EXCEPT !.read = 0].val = e.val
        /\ [e EXCEPT !.read = 0].lock = e.lock
    BY <1>3, TimesAreNat DEF EntryRec
  <2>2. entry' = [entry EXCEPT ![slot'] = [e EXCEPT !.read = 0]]
    BY <1>1, <1>2
  <2> HIDE DEF e
  <2>3. entry'[slot'] = [e EXCEPT !.read = 0] /\ \A x \in CacheEntries : x # slot' => entry'[x] = entry[x]
    BY <1>1, <1>2, <2>2
  <2>4. entry' \in [CacheEntries -> EntryRec]
    BY <1>2, <2>1, <2>2
  <2> QED BY <2>1, <2>3, <2>4 DEF e
<1>5. Young(slot')
  <2>1. CASE slot # NoEntry
    BY <1>1, <2>1 DEF CacheInv, YoungOK
  <2>2. CASE slot = NoEntry
    <3>1. slot' \notin Referred /\ entry[slot'] = NewEntry
      BY <1>1, <2>2 DEF CacheInv, FreeAreNew
    <3>2. warm.ent # slot' /\ \A o \in Readers : reader[o].ent # slot'
      BY <3>1 DEF Referred
    <3> QED BY <3>1, <3>2 DEF Young, NewEntry
  <2> QED BY <2>1, <2>2
<1>6. CASE FreshAt(e)
  <2>1. reader' = [reader EXCEPT ![r] = Serve(r, e)]
    BY <1>6 DEF Ask
  <2>2. e.at < TTL \/ e.at < StaleMax
    BY <1>6 DEF FreshAt
  <2>3. e.val # "old"
    BY <1>5 DEF Young
  <2> HIDE DEF e
  <2>4. /\ reader' \in [Readers -> ReaderRec] /\ ServedFresh' /\ InvalidatedNotServed'
        /\ reader'[r].pc = "served" /\ reader'[r].ent = NoEntry
        /\ \A o \in Readers : o # r => reader'[o] = reader[o]
    BY <1>3, <2>1, <2>2, <2>3, ServedOK
  <2>5. CacheTypeOK'
    BY <1>1, <1>2, <1>4, <2>4 DEF CacheTypeOK, WarmRec, Tag
  <2>6. RefsOK' /\ LocksOK'
    BY <1>1, <1>4, <2>4 DEF CacheInv, RefsOK, LocksOK
  <2>7. FreeAreNew'
    <3>1. \A x \in CacheEntries : x \notin Referred' => x # slot' /\ x \notin Referred
      BY <1>1, <1>2, <2>4 DEF Referred
    <3> QED BY <1>4, <3>1 DEF CacheInv, FreeAreNew
  <2>8. YoungOK'
    <3>1. \A x \in CacheEntries : Young(x) => Young(x)'
      BY <1>1, <1>4, <2>4 DEF Young
    <3>2. \A o \in Readers : reader[o].pc \in {"wait", "build"} => reader[o].ent \in CacheEntries
      BY DEF CacheInv, RefsOK
    <3> QED BY <1>1, <1>5, <2>4, <3>1, <3>2 DEF CacheInv, YoungOK
  <2> QED BY <2>4, <2>5, <2>6, <2>7, <2>8 DEF CacheInv
<1>7. CASE ~FreshAt(e)
  <2> DEFINE rec == [Idle EXCEPT !.pc = "wait", !.ent = slot']
  <2>1. reader' = [reader EXCEPT ![r] = rec]
    BY <1>7 DEF Ask
  <2>2. rec \in ReaderRec /\ rec.pc = "wait" /\ rec.ent = slot' /\ rec.before = FALSE
    <3>1. 0 \in 0 .. Longest
      BY TimesAreNat
    <3> QED BY <1>1, <3>1 DEF Idle, ReaderRec
  <2> HIDE DEF rec
  <2>3. /\ reader' \in [Readers -> ReaderRec] /\ reader'[r] = rec
        /\ \A o \in Readers : o # r => reader'[o] = reader[o]
    BY <1>2, <2>1, <2>2
  <2>4. CacheTypeOK'
    BY <1>1, <1>2, <1>4, <2>3 DEF CacheTypeOK, WarmRec, Tag
  <2>5. RefsOK' /\ LocksOK'
    BY <1>1, <1>4, <2>2, <2>3 DEF CacheInv, RefsOK, LocksOK
  <2>6. FreeAreNew'
    <3>1. \A x \in CacheEntries : x \notin Referred' => x # slot' /\ x \notin Referred
      BY <1>1, <1>2, <2>2, <2>3, TimesAreNat DEF Referred
    <3> QED BY <1>4, <3>1 DEF CacheInv, FreeAreNew
  <2>7. YoungOK'
    <3>1. \A x \in CacheEntries : Young(x) => Young(x)'
      BY <1>1, <1>4, <2>2, <2>3 DEF Young
    <3>2. \A o \in Readers : reader[o].pc \in {"wait", "build"} => reader[o].ent \in CacheEntries
      BY DEF CacheInv, RefsOK
    <3> QED BY <1>1, <1>5, <2>2, <2>3, <3>1, <3>2 DEF CacheInv, YoungOK
  <2>8. ServedFresh' /\ InvalidatedNotServed'
    BY <2>2, <2>3 DEF CacheInv, ServedFresh, InvalidatedNotServed
  <2> QED BY <2>4, <2>5, <2>6, <2>7, <2>8 DEF CacheInv
<1> QED BY <1>6, <1>7

(* A request that is done leaves. *)
LEMMA DoneOK ==
  ASSUME CacheInv, NEW r \in Readers, Done(r)
  PROVE  CacheInv'
<1>1. reader \in [Readers -> ReaderRec] /\ UNCHANGED <<slot, entry, warm>> /\ reader[r].ent = NoEntry
      /\ reader' = [reader EXCEPT ![r] = Idle] /\ reader[r].pc \notin {"wait", "build"}
  BY DEF Done, CacheInv, CacheTypeOK, RefsOK
<1>2. Idle.pc = "idle" /\ Idle.ent = NoEntry
  BY DEF Idle
<1>3. reader' \in [Readers -> ReaderRec] /\ reader'[r] = Idle
      /\ \A o \in Readers : o # r => reader'[o] = reader[o]
  BY <1>1, NewTypes
<1>4. CacheTypeOK' /\ RefsOK' /\ LocksOK'
  BY <1>1, <1>2, <1>3 DEF CacheInv, CacheTypeOK, RefsOK, LocksOK
<1>5. Referred' = Referred
  BY <1>1, <1>2, <1>3 DEF Referred
<1>6. FreeAreNew'
  BY <1>1, <1>5 DEF CacheInv, FreeAreNew
<1>7. YoungOK'
  <2>1. \A x : Young(x) => Young(x)'
    BY <1>1, <1>2, <1>3 DEF Young
  <2> QED BY <1>1, <1>2, <1>3, <2>1 DEF CacheInv, YoungOK
<1>8. ServedFresh' /\ InvalidatedNotServed'
  BY <1>2, <1>3 DEF CacheInv, ServedFresh, InvalidatedNotServed
<1> QED BY <1>4, <1>6, <1>7, <1>8 DEF CacheInv

(* A request that leaves its entry, served or failed, after a step that set *)
(* the entry's value to one the request may be given.                       *)
LEMMA LeaveOK ==
  ASSUME CacheInv, NEW r \in Readers, reader[r].pc \in {"wait", "build"},
         UNCHANGED <<slot, warm>>,
         NEW e \in EntryRec, entry' = Alive([entry EXCEPT ![reader[r].ent] = e]),
         e.lock = entry[reader[r].ent].lock \/ reader[r].pc = "build",
         Young(reader[r].ent) => e.val # "old",
         reader' \in [Readers -> ReaderRec], reader'[r].pc \in {"served", "failed"}, reader'[r].ent = NoEntry,
         \A o \in Readers : o # r => reader'[o] = reader[o],
         ServedFresh', InvalidatedNotServed'
  PROVE  CacheInv'
<1> DEFINE x == reader[r].ent
           ents == [entry EXCEPT ![x] = e]
<1>1. x \in CacheEntries /\ entry \in [CacheEntries -> EntryRec]
  BY BusyReader
<1>2. ents \in [CacheEntries -> EntryRec] /\ ents[x] = e
      /\ \A y \in CacheEntries : y # x => ents[y] = entry[y]
  BY <1>1
<1>3. entry' = Alive(ents)
  OBVIOUS
<1> HIDE DEF ents
<1>4. /\ entry' \in [CacheEntries -> EntryRec] /\ FreeAreNew'
      /\ \A y \in CacheEntries : entry'[y] = NewEntry \/ entry'[y] = ents[y]
      /\ slot' \in CacheEntries => entry'[slot'] = ents[slot']
      /\ \A o \in Readers : reader'[o].ent \in CacheEntries => entry'[reader'[o].ent] = ents[reader'[o].ent]
      /\ warm'.ent \in CacheEntries => entry'[warm'.ent] = ents[warm'.ent]
  BY <1>2, <1>3, AliveIs
<1>5. CacheTypeOK'
  BY <1>4 DEF CacheInv, CacheTypeOK
<1>6. RefsOK'
  BY DEF CacheInv, RefsOK
<1>7. LocksOK'
  <2>1. ASSUME NEW o \in Readers, reader'[o].pc = "build" PROVE entry'[reader'[o].ent].lock = o
    <3>1. o # r /\ reader[o].pc = "build" /\ reader'[o].ent = reader[o].ent /\ entry[reader[o].ent].lock = o
          /\ reader[o].ent \in CacheEntries
      BY <2>1 DEF CacheInv, LocksOK, RefsOK
    <3>2. CASE reader[o].ent # x
      BY <1>2, <1>4, <3>1, <3>2
    <3>3. CASE reader[o].ent = x
      <4>1. reader[r].pc # "build"
        BY <3>1, <3>3 DEF CacheInv, LocksOK
      <4>2. e.lock = o
        BY <3>1, <3>3, <4>1
      <4> QED BY <1>2, <1>4, <3>1, <3>3, <4>2
    <3> QED BY <3>2, <3>3
  <2>2. ASSUME warm'.pc = "build" PROVE entry'[warm'.ent].lock = Warmer
    <3>1. warm.pc = "build" /\ warm.ent \in CacheEntries /\ entry[warm.ent].lock = Warmer /\ warm' = warm
      BY <2>2 DEF CacheInv, LocksOK, RefsOK
    <3>2. CASE warm.ent # x
      BY <1>2, <1>4, <3>1, <3>2
    <3>3. CASE warm.ent = x
      <4>1. reader[r].pc # "build"
        BY <3>1, <3>3, TimesAreNat DEF CacheInv, LocksOK
      <4> QED BY <1>2, <1>4, <3>1, <3>3, <4>1
    <3> QED BY <3>2, <3>3
  <2> QED BY <2>1, <2>2 DEF LocksOK
<1>8. \A y \in CacheEntries : Young(y) => Young(y)'
  <2>1. ASSUME NEW y \in CacheEntries, Young(y) PROVE entry'[y].val # "old"
    <3>1. ents[y].val # "old"
      BY <1>1, <1>2, <2>1 DEF Young
    <3>2. NewEntry.val # "old"
      BY DEF NewEntry
    <3> QED BY <1>4, <3>1, <3>2
  <2>2. \A o \in Readers : reader'[o].pc = "build" => reader'[o] = reader[o]
    OBVIOUS
  <2> QED BY <2>1, <2>2 DEF Young
<1>9. YoungOK'
  <2>1. slot # NoEntry => slot \in CacheEntries
    BY DEF CacheInv, CacheTypeOK
  <2>2. \A o \in Readers : reader'[o].pc \in {"wait", "build"} => reader'[o] = reader[o] /\ reader[o].ent \in CacheEntries
    BY DEF CacheInv, RefsOK
  <2> QED BY <1>8, <2>1, <2>2 DEF CacheInv, YoungOK
<1> QED BY <1>4, <1>5, <1>6, <1>7, <1>9 DEF CacheInv

(* Under the lock: a good enough value, or a build. *)
LEMMA TakeLockOK ==
  ASSUME CacheInv, NEW r \in Readers, TakeLock(r)
  PROVE  CacheInv'
<1> DEFINE x == reader[r].ent
           e == entry[x]
<1>1. reader[r].pc = "wait" /\ e.lock = NoEntry /\ UNCHANGED <<slot, warm>>
  BY DEF TakeLock
<1>2. /\ reader \in [Readers -> ReaderRec] /\ entry \in [CacheEntries -> EntryRec]
      /\ x \in CacheEntries /\ e \in EntryRec /\ (~reader[r].before => Young(x))
  BY <1>1, BusyReader DEF CacheInv, CacheTypeOK
<1>3. CASE GoodEnough(e)
  <2>1. reader' = [reader EXCEPT ![r] = Serve(r, e)] /\ entry' = Alive(entry)
    BY <1>3 DEF TakeLock
  <2>2. e.at < TTL \/ e.at < StaleMax
    BY <1>3 DEF GoodEnough, FreshAt
  <2>3. ~reader[r].before => e.val # "old"
    BY <1>2 DEF Young
  <2>4. /\ reader' \in [Readers -> ReaderRec] /\ ServedFresh' /\ InvalidatedNotServed'
        /\ reader'[r].pc = "served" /\ reader'[r].ent = NoEntry
        /\ \A o \in Readers : o # r => reader'[o] = reader[o]
    BY <1>2, <2>1, <2>2, <2>3, ServedOK
  <2>5. entry' = Alive([entry EXCEPT ![x] = e])
    <3>1. [entry EXCEPT ![x] = e] = entry
      BY <1>2
    <3> QED BY <2>1, <3>1
  <2>6. Young(x) => e.val # "old"
    BY DEF Young
  <2> QED BY <1>1, <1>2, <2>4, <2>5, <2>6, LeaveOK
<1>4. CASE ~GoodEnough(e)
  <2> DEFINE rec == [reader[r] EXCEPT !.pc = "build", !.build = "new"]
             new == [e EXCEPT !.lock = r]
  <2>1. reader' = [reader EXCEPT ![r] = rec] /\ entry' = [entry EXCEPT ![x] = new]
    <3>1. reader' = [reader EXCEPT ![r].pc = "build", ![r].build = "new"] /\ entry' = [entry EXCEPT ![x].lock = r]
      BY <1>4 DEF TakeLock
    <3> QED BY <3>1, <1>2
  <2>2. /\ rec \in ReaderRec /\ rec.pc = "build" /\ rec.build = "new" /\ rec.ent = x
        /\ rec.before = reader[r].before
    BY <1>2 DEF ReaderRec
  <2>3. new \in EntryRec /\ new.lock = r /\ new.val = e.val
    BY <1>2 DEF EntryRec
  <2> HIDE DEF rec, new
  <2>4. /\ reader' \in [Readers -> ReaderRec] /\ reader'[r] = rec
        /\ \A o \in Readers : o # r => reader'[o] = reader[o]
    BY <1>2, <2>1, <2>2
  <2>5. /\ entry' \in [CacheEntries -> EntryRec] /\ entry'[x] = new
        /\ \A y \in CacheEntries : y # x => entry'[y] = entry[y]
    BY <1>2, <2>1, <2>3
  <2>6. CacheTypeOK' /\ RefsOK'
    BY <1>1, <1>2, <2>2, <2>4, <2>5 DEF CacheInv, CacheTypeOK, RefsOK
  <2>7. LocksOK'
    <3>1. \A o \in Readers : reader[o].pc = "build" => reader[o].ent # x
      BY <1>1, TimesAreNat DEF CacheInv, LocksOK
    <3>2. warm.pc = "build" => warm.ent # x
      BY <1>1, TimesAreNat DEF CacheInv, LocksOK
    <3>3. \A o \in Readers : reader[o].pc = "build" => reader[o].ent \in CacheEntries
      BY DEF CacheInv, RefsOK
    <3>4. warm.pc = "build" => warm.ent \in CacheEntries
      BY DEF CacheInv, RefsOK
    <3> QED BY <1>1, <2>2, <2>3, <2>4, <2>5, <3>1, <3>2, <3>3, <3>4 DEF CacheInv, LocksOK
  <2>8. FreeAreNew'
    <3>1. \A o \in Readers : reader'[o].ent = reader[o].ent
      BY <2>2, <2>4
    <3>2. Referred' = Referred /\ x \in Referred
      BY <1>1, <3>1 DEF Referred
    <3> QED BY <2>5, <3>2 DEF CacheInv, FreeAreNew
  <2>9. YoungOK'
    <3>1. \A y \in CacheEntries : Young(y) => Young(y)'
      BY <1>1, <2>2, <2>3, <2>4, <2>5 DEF Young
    <3>2. slot # NoEntry => slot \in CacheEntries
      BY DEF CacheInv, CacheTypeOK
    <3>3. \A o \in Readers : reader[o].pc \in {"wait", "build"} => reader[o].ent \in CacheEntries
      BY DEF CacheInv, RefsOK
    <3> QED BY <1>1, <1>2, <2>2, <2>4, <3>1, <3>2, <3>3 DEF CacheInv, YoungOK
  <2>10. ServedFresh' /\ InvalidatedNotServed'
    BY <2>2, <2>4 DEF CacheInv, ServedFresh, InvalidatedNotServed
  <2> QED BY <2>6, <2>7, <2>8, <2>9, <2>10 DEF CacheInv
<1> QED BY <1>3, <1>4

(* The build of a request succeeds. *)
LEMMA BuildOkOK ==
  ASSUME CacheInv, NEW r \in Readers, BuildOk(r)
  PROVE  CacheInv'
<1> DEFINE x == reader[r].ent
           e == Built(entry[x], reader[r].build)
<1>1. /\ reader[r].pc = "build" /\ UNCHANGED <<slot, warm>>
      /\ reader' = [reader EXCEPT ![r] = Serve(r, e)] /\ entry' = Alive([entry EXCEPT ![x] = e])
  BY DEF BuildOk
<1>2. x \in CacheEntries /\ entry[x] \in EntryRec /\ reader[r].build \in Tag /\ (~reader[r].before => Young(x))
  BY <1>1, BusyReader DEF ReaderRec, Tag
<1>3. e \in EntryRec /\ e.val = reader[r].build /\ e.at = 0
  BY <1>2, BuiltType
<1> HIDE DEF e
<1>4. Young(x) => e.val # "old"
  BY <1>1, <1>3 DEF Young
<1>5. e.at < TTL \/ e.at < StaleMax
  BY <1>3, TimesAreNat
<1>6. /\ reader' \in [Readers -> ReaderRec] /\ ServedFresh' /\ InvalidatedNotServed'
      /\ reader'[r].pc = "served" /\ reader'[r].ent = NoEntry
      /\ \A o \in Readers : o # r => reader'[o] = reader[o]
  BY <1>1, <1>2, <1>3, <1>4, <1>5, ServedOK
<1> QED BY <1>1, <1>3, <1>4, <1>6, LeaveOK

(* The build of a request fails. *)
LEMMA BuildFailsOK ==
  ASSUME CacheInv, NEW r \in Readers, BuildFails(r)
  PROVE  CacheInv'
<1> DEFINE x == reader[r].ent
           e == Broken(entry[x])
<1>1. /\ reader[r].pc = "build" /\ UNCHANGED <<slot, warm>> /\ entry' = Alive([entry EXCEPT ![x] = e])
      /\ reader' = [reader EXCEPT ![r] = IF StillGood(e) THEN Serve(r, e) ELSE [Idle EXCEPT !.pc = "failed"]]
  BY DEF BuildFails
<1>2. x \in CacheEntries /\ entry[x] \in EntryRec /\ (~reader[r].before => Young(x))
      /\ reader \in [Readers -> ReaderRec]
  BY <1>1, BusyReader DEF CacheInv, CacheTypeOK
<1>3. e \in EntryRec /\ e.val = entry[x].val
  <2>1. "new" \in Tag
    BY DEF Tag
  <2> QED BY <1>2, <2>1, BuiltType
<1> HIDE DEF e
<1>4. Young(x) => e.val # "old"
  BY <1>3 DEF Young
<1>5. CASE StillGood(e)
  <2>1. e.at < TTL \/ e.at < StaleMax
    BY <1>5 DEF StillGood
  <2>2. reader' = [reader EXCEPT ![r] = Serve(r, e)]
    BY <1>1, <1>5
  <2>3. /\ reader' \in [Readers -> ReaderRec] /\ ServedFresh' /\ InvalidatedNotServed'
        /\ reader'[r].pc = "served" /\ reader'[r].ent = NoEntry
        /\ \A o \in Readers : o # r => reader'[o] = reader[o]
    BY <1>2, <1>3, <1>4, <2>1, <2>2, ServedOK
  <2> QED BY <1>1, <1>3, <1>4, <2>3, LeaveOK
<1>6. CASE ~StillGood(e)
  <2> DEFINE rec == [Idle EXCEPT !.pc = "failed"]
  <2>1. rec \in ReaderRec /\ rec.pc = "failed" /\ rec.ent = NoEntry
    <3>1. 0 \in 0 .. Longest
      BY TimesAreNat
    <3> QED BY <3>1 DEF Idle, ReaderRec
  <2>2. reader' = [reader EXCEPT ![r] = rec]
    BY <1>1, <1>6
  <2> HIDE DEF rec
  <2>3. /\ reader' \in [Readers -> ReaderRec] /\ reader'[r] = rec
        /\ \A o \in Readers : o # r => reader'[o] = reader[o]
    BY <1>2, <2>1, <2>2
  <2>4. ServedFresh' /\ InvalidatedNotServed'
    BY <2>1, <2>3 DEF CacheInv, ServedFresh, InvalidatedNotServed
  <2> QED BY <1>1, <1>3, <1>4, <2>1, <2>3, <2>4, LeaveOK
<1> QED BY <1>5, <1>6

(* The key's entry is dropped, invalidated or evicted: requests that come   *)
(* from now on get another one.                                             *)
LEMMA InvalidateOK ==
  ASSUME CacheInv, Invalidate
  PROVE  CacheInv'
<1> DEFINE ents == [e \in CacheEntries |-> [entry[e] EXCEPT !.val = Aged(@)]]
<1>1. /\ slot' = NoEntry /\ entry' = Alive(ents)
      /\ reader' = [r \in Readers |-> IF reader[r].pc \in {"wait", "build"}
           THEN [reader[r] EXCEPT !.before = TRUE, !.build = Aged(@)] ELSE reader[r]]
      /\ warm' = [warm EXCEPT !.build = Aged(@)]
  BY DEF Invalidate, Outdated
<1>2. entry \in [CacheEntries -> EntryRec] /\ reader \in [Readers -> ReaderRec] /\ warm \in WarmRec
  BY DEF CacheInv, CacheTypeOK, WarmRec, Tag
<1>3. \A tag \in Tag : Aged(tag) \in Tag
  BY DEF Aged, Tag
<1>4. \A e \in CacheEntries : ents[e] \in EntryRec /\ ents[e].lock = entry[e].lock
  <2>1. ASSUME NEW e \in CacheEntries PROVE ents[e] \in EntryRec /\ ents[e].lock = entry[e].lock
    <3>1. entry[e] \in EntryRec /\ Aged(entry[e].val) \in Tag
      BY <1>2, <1>3 DEF EntryRec, Tag
    <3> QED BY <3>1 DEF EntryRec, Tag
  <2> QED BY <2>1
<1>5. ents \in [CacheEntries -> EntryRec]
  BY <1>4
<1>6. ASSUME NEW r \in Readers
      PROVE  /\ reader'[r] \in ReaderRec /\ reader'[r].pc = reader[r].pc /\ reader'[r].ent = reader[r].ent
             /\ (reader[r].pc \in {"wait", "build"} => reader'[r].before)
             /\ (reader[r].pc \notin {"wait", "build"} => reader'[r] = reader[r])
  <2>1. reader[r] \in ReaderRec /\ Aged(reader[r].build) \in Tag
    BY <1>2, <1>3 DEF ReaderRec, Tag
  <2> QED BY <1>1, <2>1 DEF ReaderRec, Tag
<1>7. reader' \in [Readers -> ReaderRec]
  BY <1>1, <1>6
<1>8. warm' \in WarmRec /\ warm'.pc = warm.pc /\ warm'.ent = warm.ent
  <2>1. Aged(warm.build) \in Tag
    BY <1>2, <1>3 DEF WarmRec
  <2> QED BY <1>1, <1>2, <2>1 DEF WarmRec
<1> HIDE DEF ents
<1>9. /\ entry' \in [CacheEntries -> EntryRec] /\ FreeAreNew'
      /\ \A r \in Readers : reader'[r].ent \in CacheEntries => entry'[reader'[r].ent] = ents[reader'[r].ent]
      /\ warm'.ent \in CacheEntries => entry'[warm'.ent] = ents[warm'.ent]
  BY <1>1, <1>5, AliveIs
<1>10. CacheTypeOK'
  BY <1>1, <1>7, <1>8, <1>9 DEF CacheTypeOK, WarmRec, Tag
<1>11. RefsOK'
  BY <1>6, <1>8 DEF CacheInv, RefsOK
<1>12. LocksOK'
  BY <1>4, <1>6, <1>8, <1>9 DEF CacheInv, RefsOK, LocksOK
<1>13. YoungOK'
  BY <1>1, <1>6 DEF YoungOK
<1>14. ServedFresh' /\ InvalidatedNotServed'
  BY <1>6 DEF CacheInv, ServedFresh, InvalidatedNotServed
<1> QED BY <1>9, <1>10, <1>11, <1>12, <1>13, <1>14 DEF CacheInv

(* A step that leaves the requests alone and the values and locks of the    *)
(* entries somebody refers to.                                              *)
LEMMA QuietOK ==
  ASSUME CacheInv, UNCHANGED reader, slot' \in {slot, NoEntry}, warm' \in WarmRec,
         IF warm'.pc = "idle" THEN warm'.ent = NoEntry ELSE warm'.ent \in CacheEntries,
         warm'.pc = "build" => warm' = warm,
         NEW ents \in [CacheEntries -> EntryRec], entry' = Alive(ents),
         \A e \in CacheEntries : ents[e].val = entry[e].val /\ ents[e].lock = entry[e].lock
  PROVE  CacheInv'
<1>1. /\ entry' \in [CacheEntries -> EntryRec] /\ FreeAreNew'
      /\ \A e \in CacheEntries : entry'[e] = NewEntry \/ entry'[e] = ents[e]
      /\ \A r \in Readers : reader'[r].ent \in CacheEntries => entry'[reader'[r].ent] = ents[reader'[r].ent]
      /\ warm'.ent \in CacheEntries => entry'[warm'.ent] = ents[warm'.ent]
  BY AliveIs
<1>2. CacheTypeOK'
  BY <1>1 DEF CacheInv, CacheTypeOK, WarmRec, Tag
<1>3. RefsOK' /\ LocksOK'
  BY <1>1 DEF CacheInv, RefsOK, LocksOK
<1>4. \A e \in CacheEntries : Young(e) => Young(e)'
  <2>1. NewEntry.val # "old"
    BY DEF NewEntry
  <2> QED BY <1>1, <2>1 DEF Young
<1>5. YoungOK'
  <2>1. slot # NoEntry => slot \in CacheEntries
    BY DEF CacheInv, CacheTypeOK
  <2>2. \A o \in Readers : reader[o].pc \in {"wait", "build"} => reader[o].ent \in CacheEntries
    BY DEF CacheInv, RefsOK
  <2> QED BY <1>4, <2>1, <2>2 DEF CacheInv, YoungOK
<1>6. ServedFresh' /\ InvalidatedNotServed'
  BY DEF CacheInv, ServedFresh, InvalidatedNotServed
<1> QED BY <1>1, <1>2, <1>3, <1>5, <1>6 DEF CacheInv

(* The entry is evicted, or time passes. *)
LEMMA EvictAgeOK ==
  ASSUME CacheInv, Evict \/ Age
  PROVE  CacheInv'
<1>1. entry \in [CacheEntries -> EntryRec] /\ warm \in WarmRec
      /\ IF warm.pc = "idle" THEN warm.ent = NoEntry ELSE warm.ent \in CacheEntries
  BY DEF CacheInv, CacheTypeOK, WarmRec, Tag, RefsOK
<1>2. CASE Evict
  BY <1>1, <1>2, QuietOK DEF Evict
<1>3. CASE Age
  <2> DEFINE ents == [e \in CacheEntries |-> [entry[e] EXCEPT
                        !.at = Older(@, Longest), !.read = Older(@, WarmWindow), !.fail = Older(@, Backoff)]]
  <2>1. ASSUME NEW e \in CacheEntries
        PROVE  ents[e] \in EntryRec /\ ents[e].val = entry[e].val /\ ents[e].lock = entry[e].lock
    <3>1. entry[e] \in EntryRec
      BY <1>1
    <3>2. /\ Older(entry[e].at, Longest) \in 0 .. Longest /\ Older(entry[e].read, WarmWindow) \in 0 .. WarmWindow
          /\ Older(entry[e].fail, Backoff) \in 0 .. Backoff
      BY <3>1, EntryFields, TimesAreNat DEF Older
    <3> QED BY <3>1, <3>2 DEF EntryRec
  <2>2. ents \in [CacheEntries -> EntryRec]
    BY <2>1
  <2>3. entry' = Alive(ents) /\ UNCHANGED <<slot, reader, warm>>
    BY <1>3 DEF Age
  <2> HIDE DEF ents
  <2> QED BY <1>1, <2>1, <2>2, <2>3, QuietOK
<1> QED BY <1>2, <1>3

(* The warmer picks the key's entry. *)
LEMMA WarmPassOK ==
  ASSUME CacheInv, WarmPass
  PROVE  CacheInv'
<1>1. warm.pc = "idle" /\ slot \in CacheEntries /\ UNCHANGED <<slot, entry, reader>>
      /\ warm' = [warm EXCEPT !.pc = "picked", !.ent = slot]
  BY DEF WarmPass, CacheInv, CacheTypeOK
<1>2. warm \in WarmRec
  BY DEF CacheInv, CacheTypeOK, WarmRec, Tag
<1>3. warm' \in WarmRec /\ warm'.pc = "picked" /\ warm'.ent = slot
  BY <1>1, <1>2 DEF WarmRec
<1>4. CacheTypeOK' /\ RefsOK' /\ LocksOK'
  BY <1>1, <1>3 DEF CacheInv, CacheTypeOK, RefsOK, LocksOK, WarmRec, Tag
<1>5. FreeAreNew'
  <2>1. ASSUME NEW e \in CacheEntries, e \notin Referred' PROVE entry[e] = NewEntry
    <3>1. CASE e \in Referred
      <4>1. e = warm.ent
        BY <1>1, <2>1, <3>1 DEF Referred
      <4> QED BY <4>1, <1>1, TimesAreNat DEF CacheInv, RefsOK
    <3> QED BY <2>1, <3>1 DEF CacheInv, FreeAreNew
  <2> QED BY <1>1, <2>1 DEF FreeAreNew
<1>6. YoungOK'
  <2>1. \A x : Young(x) => Young(x)'
    BY <1>1, <1>3 DEF Young
  <2> QED BY <1>1, <2>1 DEF CacheInv, YoungOK
<1>7. ServedFresh' /\ InvalidatedNotServed'
  BY <1>1 DEF CacheInv, ServedFresh, InvalidatedNotServed
<1> QED BY <1>4, <1>5, <1>6, <1>7 DEF CacheInv

(* The warmer takes the entry's lock, or leaves the entry to who holds it. *)
LEMMA WarmEntryOK ==
  ASSUME CacheInv, WarmEntry
  PROVE  CacheInv'
<1> DEFINE x == warm.ent
<1>1. warm.pc = "picked" /\ x \in CacheEntries /\ UNCHANGED <<slot, reader>>
      /\ entry \in [CacheEntries -> EntryRec] /\ warm \in WarmRec
  BY DEF WarmEntry, CacheInv, CacheTypeOK, RefsOK, WarmRec, Tag
<1>2. CASE entry[x].lock # NoEntry
  <2>1. warm' = NotWarming /\ entry' = Alive(entry)
    BY <1>2 DEF WarmEntry
  <2>2. NotWarming.pc = "idle" /\ NotWarming.ent = NoEntry
    BY DEF NotWarming
  <2> QED BY <1>1, <2>1, <2>2, NewTypes, QuietOK
<1>3. CASE entry[x].lock = NoEntry
  <2> DEFINE new == [entry[x] EXCEPT !.lock = Warmer]
  <2>1. warm' = [warm EXCEPT !.pc = "build", !.build = "new"] /\ entry' = [entry EXCEPT ![x] = new]
    BY <1>1, <1>3 DEF WarmEntry
  <2>2. warm' \in WarmRec /\ warm'.pc = "build" /\ warm'.build = "new" /\ warm'.ent = x
    BY <1>1, <2>1 DEF WarmRec, Tag
  <2>3. new \in EntryRec /\ new.lock = Warmer /\ new.val = entry[x].val
    BY <1>1 DEF EntryRec
  <2> HIDE DEF new
  <2>4. /\ entry' \in [CacheEntries -> EntryRec] /\ entry'[x] = new
        /\ \A y \in CacheEntries : y # x => entry'[y] = entry[y]
    BY <1>1, <2>1, <2>3
  <2>5. CacheTypeOK' /\ RefsOK'
    BY <1>1, <2>2, <2>4 DEF CacheInv, CacheTypeOK, RefsOK, WarmRec, Tag
  <2>6. LocksOK'
    <3>1. \A o \in Readers : reader[o].pc = "build" => reader[o].ent # x /\ reader[o].ent \in CacheEntries
      BY <1>3, TimesAreNat DEF CacheInv, LocksOK, RefsOK
    <3> QED BY <1>1, <2>2, <2>3, <2>4, <3>1 DEF CacheInv, LocksOK
  <2>7. FreeAreNew'
    <3>1. Referred' = Referred /\ x \in Referred
      BY <1>1, <2>2 DEF Referred
    <3> QED BY <2>4, <3>1 DEF CacheInv, FreeAreNew
  <2>8. YoungOK'
    <3>1. \A y \in CacheEntries : Young(y) => Young(y)'
      BY <1>1, <2>2, <2>3, <2>4 DEF Young
    <3>2. slot # NoEntry => slot \in CacheEntries
      BY DEF CacheInv, CacheTypeOK
    <3>3. \A o \in Readers : reader[o].pc \in {"wait", "build"} => reader[o].ent \in CacheEntries
      BY DEF CacheInv, RefsOK
    <3> QED BY <1>1, <3>1, <3>2, <3>3 DEF CacheInv, YoungOK
  <2>9. ServedFresh' /\ InvalidatedNotServed'
    BY <1>1 DEF CacheInv, ServedFresh, InvalidatedNotServed
  <2> QED BY <2>5, <2>6, <2>7, <2>8, <2>9 DEF CacheInv
<1> QED BY <1>2, <1>3

(* The warmer's build ends, well or not. *)
LEMMA WarmBuiltOK ==
  ASSUME CacheInv, WarmBuilt
  PROVE  CacheInv'
<1> DEFINE x == warm.ent
<1>1. warm.pc = "build" /\ x \in CacheEntries /\ UNCHANGED <<slot, reader>> /\ warm' = NotWarming
      /\ entry \in [CacheEntries -> EntryRec] /\ warm.build \in Tag /\ entry[x].lock = Warmer
  BY DEF WarmBuilt, CacheInv, CacheTypeOK, RefsOK, LocksOK, Tag
<1>2. NotWarming.pc = "idle" /\ NotWarming.ent = NoEntry
  BY DEF NotWarming
<1>3. PICK e \in {Built(entry[x], warm.build), Broken(entry[x])} : entry' = Alive([entry EXCEPT ![x] = e])
  BY DEF WarmBuilt
<1>4. e \in EntryRec /\ e.val \in {entry[x].val, warm.build}
  BY <1>1, <1>3, BuiltType
<1> DEFINE ents == [entry EXCEPT ![x] = e]
<1>5. ents \in [CacheEntries -> EntryRec] /\ ents[x] = e
      /\ \A y \in CacheEntries : y # x => ents[y] = entry[y]
  BY <1>1, <1>4
<1>6. entry' = Alive(ents)
  BY <1>3
<1> HIDE DEF ents
<1>7. /\ entry' \in [CacheEntries -> EntryRec] /\ FreeAreNew'
      /\ \A y \in CacheEntries : entry'[y] = NewEntry \/ entry'[y] = ents[y]
      /\ \A o \in Readers : reader'[o].ent \in CacheEntries => entry'[reader'[o].ent] = ents[reader'[o].ent]
  BY <1>5, <1>6, AliveIs
<1>8. CacheTypeOK'
  BY <1>1, <1>7, NewTypes DEF CacheInv, CacheTypeOK, WarmRec, Tag
<1>9. RefsOK'
  BY <1>1, <1>2 DEF CacheInv, RefsOK
<1>10. LocksOK'
  <2>1. ASSUME NEW o \in Readers, reader[o].pc = "build" PROVE entry'[reader[o].ent].lock = o
    <3>1. reader[o].ent \in CacheEntries /\ entry[reader[o].ent].lock = o /\ o # Warmer
      BY <2>1, TimesAreNat DEF CacheInv, LocksOK, RefsOK
    <3>2. reader[o].ent # x
      BY <1>1, <3>1
    <3> QED BY <1>1, <1>5, <1>7, <3>1, <3>2
  <2> QED BY <1>1, <1>2, <2>1 DEF LocksOK
<1>11. \A y \in CacheEntries : Young(y) => Young(y)'
  <2>1. ASSUME NEW y \in CacheEntries, Young(y) PROVE entry'[y].val # "old"
    <3>1. ents[y].val # "old"
      BY <1>1, <1>4, <1>5, <2>1 DEF Young
    <3>2. NewEntry.val # "old"
      BY DEF NewEntry
    <3> QED BY <1>7, <3>1, <3>2
  <2> QED BY <1>1, <1>2, <2>1 DEF Young
<1>12. YoungOK'
  <2>1. slot # NoEntry => slot \in CacheEntries
    BY DEF CacheInv, CacheTypeOK
  <2>2. \A o \in Readers : reader[o].pc \in {"wait", "build"} => reader[o].ent \in CacheEntries
    BY DEF CacheInv, RefsOK
  <2> QED BY <1>1, <1>11, <2>1, <2>2 DEF CacheInv, YoungOK
<1>13. ServedFresh' /\ InvalidatedNotServed'
  BY <1>1 DEF CacheInv, ServedFresh, InvalidatedNotServed
<1> QED BY <1>7, <1>8, <1>9, <1>10, <1>12, <1>13 DEF CacheInv

(* Every step preserves the invariant. *)
LEMMA CacheStep ==
  ASSUME CacheInv, [CacheNext]_cacheVars
  PROVE  CacheInv'
<1>1. CASE UNCHANGED cacheVars
  BY <1>1 DEF cacheVars, CacheInv, CacheTypeOK, RefsOK, LocksOK, FreeAreNew, Referred, YoungOK, Young,
              InvalidatedNotServed, ServedFresh
<1>2. ASSUME NEW r \in Readers, Ask(r) \/ TakeLock(r) \/ BuildOk(r) \/ BuildFails(r) \/ Done(r)
      PROVE  CacheInv'
  BY <1>2, AskOK, TakeLockOK, BuildOkOK, BuildFailsOK, DoneOK
<1>3. CASE Invalidate \/ Evict \/ WarmPass \/ WarmEntry \/ WarmBuilt \/ Age
  BY <1>3, InvalidateOK, EvictAgeOK, WarmPassOK, WarmEntryOK, WarmBuiltOK
<1> QED BY <1>1, <1>2, <1>3 DEF CacheNext

(* The invariant holds in every reachable state. *)
LEMMA CacheInvariant == CacheSpec => []CacheInv
<1>1. CacheInit => CacheInv
  BY CacheInitOK
<1>2. CacheInv /\ [CacheNext]_cacheVars => CacheInv'
  BY CacheStep
<1> QED BY <1>1, <1>2, PTL DEF CacheSpec

(* Entries, requests and the warmer keep their types (utils/resp_cache.py). *)
THEOREM CacheTypesHold == CacheSpec => []CacheTypeOK
<1>1. CacheInv => CacheTypeOK
  BY DEF CacheInv
<1> QED BY <1>1, CacheInvariant, PTL

(* Nobody is served an expired value, but for stale_max after a failed      *)
(* build (get()), and nobody who comes after invalidate() what was built,   *)
(* or began to be built, before it.                                         *)
THEOREM ServedIsValid == CacheSpec => []ServedValid
<1>1. CacheInv => ServedValid
  BY DEF CacheInv, ServedValid
<1> QED BY <1>1, CacheInvariant, PTL

(* Requests that wait for one entry share its build, whatever is dropped    *)
(* from the cache meanwhile.                                                *)
THEOREM BuildsAreShared == CacheSpec => SharedBuild
<1> DEFINE Shares == \A r \in Readers : reader[r].pc = "wait" /\ reader'[r].pc = "build" =>
             LET e == entry[reader[r].ent] IN
               /\ ~FreshAt(e)
               /\ \A o \in Readers : reader[o].pc = "build" => reader[o].ent # reader[r].ent
               /\ warm.pc = "build" => warm.ent # reader[r].ent
<1>1. ASSUME CacheInv, [CacheNext]_cacheVars, NEW r \in Readers,
             reader[r].pc = "wait", reader'[r].pc = "build"
      PROVE  entry[reader[r].ent].lock = NoEntry /\ ~FreshAt(entry[reader[r].ent])
  <2>1. reader \in [Readers -> ReaderRec]
    BY <1>1 DEF CacheInv, CacheTypeOK
  <2>2. CASE UNCHANGED reader
    BY <1>1, <2>2
  <2>3. ASSUME NEW o \in Readers, Ask(o) \/ BuildOk(o) \/ BuildFails(o) \/ Done(o)
        PROVE  FALSE
    <3>1. reader[o].pc # "wait"
      BY <2>3 DEF Ask, BuildOk, BuildFails, Done
    <3>2. PICK rec : reader' = [reader EXCEPT ![o] = rec]
      BY <2>3 DEF Ask, BuildOk, BuildFails, Done
    <3>3. reader'[r] = reader[r]
      BY <1>1, <2>1, <3>1, <3>2
    <3> QED BY <1>1, <3>3
  <2>4. ASSUME NEW o \in Readers, TakeLock(o)
        PROVE  entry[reader[r].ent].lock = NoEntry /\ ~FreshAt(entry[reader[r].ent])
    <3>1. PICK rec : reader' = [reader EXCEPT ![o] = rec]
      <4>1. CASE GoodEnough(entry[reader[o].ent])
        BY <2>4, <4>1 DEF TakeLock
      <4>2. CASE ~GoodEnough(entry[reader[o].ent])
        <5>1. reader' = [reader EXCEPT ![o].pc = "build", ![o].build = "new"]
          BY <2>4, <4>2 DEF TakeLock
        <5>2. reader' = [reader EXCEPT ![o] = [reader[o] EXCEPT !.pc = "build", !.build = "new"]]
          BY <5>1, <2>1
        <5> QED BY <5>2
      <4> QED BY <4>1, <4>2
    <3>2. o = r
      BY <1>1, <2>1, <3>1
    <3>3. entry[reader[r].ent].lock = NoEntry
      BY <2>4, <3>2 DEF TakeLock
    <3>4. CASE GoodEnough(entry[reader[r].ent])
      <4>1. reader' = [reader EXCEPT ![r] = Serve(r, entry[reader[r].ent])]
        BY <2>4, <3>2, <3>4 DEF TakeLock
      <4>2. Serve(r, entry[reader[r].ent]).pc = "served"
        BY DEF Serve, Idle
      <4> QED BY <1>1, <2>1, <4>1, <4>2
    <3>5. CASE ~GoodEnough(entry[reader[r].ent])
      BY <3>3, <3>5 DEF GoodEnough
    <3> QED BY <3>4, <3>5
  <2>5. CASE Invalidate
    <3>1. reader'[r].pc = "wait"
      BY <1>1, <2>1, <2>5 DEF Invalidate, Outdated, ReaderRec
    <3> QED BY <1>1, <3>1
  <2>6. CASE Evict \/ WarmPass \/ WarmEntry \/ WarmBuilt \/ Age
    BY <2>2, <2>6 DEF Evict, WarmPass, WarmEntry, WarmBuilt, Age
  <2> QED BY <1>1, <2>2, <2>3, <2>4, <2>5, <2>6 DEF CacheNext, cacheVars
<1>2. ASSUME CacheInv, [CacheNext]_cacheVars PROVE Shares
  <2> SUFFICES ASSUME NEW r \in Readers, reader[r].pc = "wait", reader'[r].pc = "build"
               PROVE  /\ ~FreshAt(entry[reader[r].ent])
                      /\ \A o \in Readers : reader[o].pc = "build" => reader[o].ent # reader[r].ent
                      /\ warm.pc = "build" => warm.ent # reader[r].ent
    OBVIOUS
  <2>1. entry[reader[r].ent].lock = NoEntry /\ ~FreshAt(entry[reader[r].ent])
    BY <1>1, <1>2
  <2>2. \A o \in Readers : reader[o].pc = "build" => reader[o].ent # reader[r].ent
    BY <1>2, <2>1, TimesAreNat DEF CacheInv, LocksOK
  <2>3. warm.pc = "build" => warm.ent # reader[r].ent
    BY <1>2, <2>1, TimesAreNat DEF CacheInv, LocksOK
  <2> QED BY <2>1, <2>2, <2>3
<1>3. CacheInv /\ [CacheNext]_cacheVars => [Shares]_cacheVars
  BY <1>2
<1> QED BY <1>3, CacheInvariant, PTL DEF CacheSpec, SharedBuild

(*****************************************************************************)
(* The feed of a leader's fills, for any fills, keys, drops, failures and    *)
(* number of gap recoveries.                                                 *)
(*****************************************************************************)

Task == [st : {"read", "emit"}, since : SUBSET Fills, got : SUBSET Fills]

(* Everything the feed holds or remembers is a fill the leader made. *)
FromMade ==
  /\ seen \subseteq made /\ history \subseteq made /\ missed \subseteq made
  /\ link.snap \subseteq made /\ link.queue \subseteq made
  /\ \A r \in Recoveries : recovery[r] # NoTask => recovery[r].got \subseteq made

(* What is not emitted again of a gap was seen, or is excused; what the     *)
(* first snapshot held was seen.                                            *)
SeenOK ==
  /\ drop.old \cup drop.since \subseteq seen \cup excused
  /\ history \subseteq seen /\ (link.st = "up" => history \subseteq link.snap)

(* Only what came in a live frame is handed over, with its row. *)
HandedOK ==
  /\ \A f \in link.queue \cup missed : handed[f] = 0
  /\ link.queue \cap missed = {}
  /\ \A f \in Fills : handed[f] # 0 => f \in made /\ KeyOf(f) \in recorded

Carried(f) == \E r \in Recoveries : recovery[r] # NoTask /\ f \in recovery[r].got

(* A fill the feed is still to come to. *)
Pending(f) ==
  /\ f \notin seen
  /\ \/ f \in link.queue \/ Carried(f)
     \/ link.st = "down" \/ link.silent
     \/ link.st = "up" /\ f \in link.snap

(* A fill is history, excused, a row or still to come. *)
Accounted == \A f \in made \ (history \cup excused) : KeyOf(f) \in recorded \/ Pending(f)

FeedInv == FeedTypeOK /\ FromMade /\ SeenOK /\ HandedOK /\ HandedOnce /\ Accounted

(* The fields of the connection, the drop and a recovery. *)
LEMMA FeedFields ==
  ASSUME FeedTypeOK
  PROVE  /\ link.st \in {"down", "up", "live"} /\ link.silent \in BOOLEAN
         /\ link.snap \subseteq Fills /\ link.queue \subseteq Fills
         /\ drop.old \subseteq Fills /\ drop.since \subseteq Fills /\ drop.gap \in BOOLEAN
         /\ \A r \in Recoveries : recovery[r] # NoTask => recovery[r] \in Task
         /\ \A f \in Fills : handed[f] \in Nat
BY DEF FeedTypeOK, Task

(* A recovery that reads or emits is no empty slot. *)
LEMMA TaskIsTask ==
  ASSUME FeedTypeOK, NEW r \in Recoveries, recovery[r].st \in {"read", "emit"}
  PROVE  recovery[r] # NoTask /\ recovery[r] \in Task
<1>1. NoTask.st = "none"
  BY DEF NoTask
<1> QED BY <1>1, FeedFields

(* The first state satisfies the invariant. *)
LEMMA FeedInitOK ==
  ASSUME FeedInit
  PROVE  FeedInv
<1>1. FeedTypeOK
  BY DEF FeedInit, FeedTypeOK, Down
<1>2. FromMade /\ SeenOK /\ HandedOK /\ Accounted
  BY DEF FeedInit, FromMade, SeenOK, HandedOK, Accounted, Down
<1>3. HandedOnce
  BY DEF FeedInit, HandedOnce
<1> QED BY <1>1, <1>2, <1>3 DEF FeedInv

(* The leader trades. *)
LEMMA TradeOK ==
  ASSUME FeedInv, NEW f \in Fills, Trade(f)
  PROVE  FeedInv'
<1> DEFINE heard == link.st # "down" /\ ~link.silent
<1>1. /\ f \notin made /\ made' = made \cup {f}
      /\ UNCHANGED <<seen, drop, recovery, recorded, handed, bad, history, excused>>
  BY DEF Trade
<1>2. /\ heard => link' = [link EXCEPT !.queue = @ \cup {f}] /\ missed' = missed
      /\ ~heard => link' = link /\ missed' = missed \cup {f}
  BY DEF Trade
<1>3. link \in [st : {"down", "up", "live"}, silent : BOOLEAN, snap : SUBSET Fills, queue : SUBSET Fills]
  BY DEF FeedInv, FeedTypeOK
<1>4. /\ link'.st = link.st /\ link'.silent = link.silent /\ link'.snap = link.snap
      /\ link'.queue = IF heard THEN link.queue \cup {f} ELSE link.queue
  BY <1>2, <1>3
<1>5. FeedTypeOK'
  BY <1>1, <1>2, <1>3 DEF FeedInv, FeedTypeOK
<1>6. FromMade'
  BY <1>1, <1>2, <1>4 DEF FeedInv, FromMade
<1>7. SeenOK'
  BY <1>1, <1>4 DEF FeedInv, SeenOK
<1>8. HandedOK' /\ HandedOnce'
  <2>1. handed[f] = 0 /\ f \notin link.queue /\ f \notin missed
    BY <1>1 DEF FeedInv, HandedOK, FromMade
  <2> QED BY <1>1, <1>2, <1>4, <2>1 DEF FeedInv, HandedOK, HandedOnce
<1>9. Accounted'
  <2>1. f \notin seen
    BY <1>1 DEF FeedInv, FromMade
  <2>2. Pending(f)'
    BY <1>1, <1>4, <2>1 DEF Pending
  <2>3. \A g \in Fills : Pending(g) => Pending(g)'
    BY <1>1, <1>4 DEF Pending, Carried
  <2>4. made \subseteq Fills
    BY DEF FeedInv, FeedTypeOK
  <2> QED BY <1>1, <2>2, <2>3, <2>4 DEF FeedInv, Accounted
<1> QED BY <1>5, <1>6, <1>7, <1>8, <1>9 DEF FeedInv

(* The connection dies unnoticed. *)
LEMMA FallSilentOK ==
  ASSUME FeedInv, FallSilent
  PROVE  FeedInv'
<1>1. /\ link' = [link EXCEPT !.silent = TRUE, !.queue = {}] /\ missed' = missed \cup link.queue
      /\ UNCHANGED <<made, seen, drop, recovery, recorded, handed, bad, history, excused>>
  BY DEF FallSilent
<1>2. link \in [st : {"down", "up", "live"}, silent : BOOLEAN, snap : SUBSET Fills, queue : SUBSET Fills]
  BY DEF FeedInv, FeedTypeOK
<1>3. link'.st = link.st /\ link'.silent = TRUE /\ link'.snap = link.snap /\ link'.queue = {}
  BY <1>1, <1>2
<1>4. FeedTypeOK' /\ FromMade' /\ SeenOK'
  BY <1>1, <1>2, <1>3 DEF FeedInv, FeedTypeOK, FromMade, SeenOK
<1>5. HandedOK' /\ HandedOnce'
  BY <1>1, <1>3 DEF FeedInv, HandedOK, HandedOnce
<1>6. Accounted'
  <2>1. \A g \in Fills : Pending(g) => Pending(g)'
    BY <1>1, <1>3 DEF Pending
  <2>2. made \subseteq Fills
    BY DEF FeedInv, FeedTypeOK
  <2> QED BY <1>1, <2>1, <2>2 DEF FeedInv, Accounted
<1> QED BY <1>4, <1>5, <1>6 DEF FeedInv

(* The drop is seen. *)
LEMMA LinkDropsOK ==
  ASSUME FeedInv, LinkDrops
  PROVE  FeedInv'
<1>1. PICK old \in {made \ link.queue, drop.old} :
        drop' = [drop EXCEPT !.old = old] /\ excused' = excused \cup (old \ seen)
  BY DEF LinkDrops
<1>2. /\ link' = Down /\ missed' = missed \cup link.queue
      /\ UNCHANGED <<made, seen, recovery, recorded, handed, history>>
  BY DEF LinkDrops
<1>3. link'.st = "down" /\ link'.snap = {} /\ link'.queue = {}
  BY <1>2 DEF Down
<1>4. drop \in [known : BOOLEAN, old : SUBSET Fills, gap : BOOLEAN, since : SUBSET Fills]
      /\ made \subseteq Fills
  BY DEF FeedInv, FeedTypeOK
<1>5. drop' \in [known : BOOLEAN, old : SUBSET Fills, gap : BOOLEAN, since : SUBSET Fills]
      /\ drop'.old = old /\ drop'.since = drop.since
  BY <1>1, <1>4
<1>6. link' \in [st : {"down", "up", "live"}, silent : BOOLEAN, snap : SUBSET Fills, queue : SUBSET Fills]
  BY <1>2 DEF Down
<1>7. FeedTypeOK'
  BY <1>2, <1>5, <1>6 DEF FeedInv, FeedTypeOK
<1>8. FromMade' /\ SeenOK'
  BY <1>1, <1>2, <1>3, <1>5 DEF FeedInv, FromMade, SeenOK
<1>9. HandedOK' /\ HandedOnce'
  BY <1>2, <1>3 DEF FeedInv, HandedOK, HandedOnce
<1>10. Accounted'
  <2>1. \A g \in Fills : Pending(g) => Pending(g)'
    BY <1>2, <1>3 DEF Pending
  <2> QED BY <1>1, <1>2, <1>4, <2>1 DEF FeedInv, Accounted
<1> QED BY <1>7, <1>8, <1>9, <1>10 DEF FeedInv

(* The process restarts. *)
LEMMA RestartsOK ==
  ASSUME FeedInv, Restarts
  PROVE  FeedInv'
<1>1. /\ link' = Down /\ seen' = {} /\ history' = {} /\ excused' = made
      /\ drop' = [known |-> FALSE, old |-> {}, gap |-> FALSE, since |-> {}]
      /\ recovery' = [r \in Recoveries |-> NoTask] /\ missed' = {f \in made : handed[f] = 0}
      /\ UNCHANGED <<made, recorded, handed>>
  BY DEF Restarts
<1>2. FeedTypeOK'
  BY <1>1 DEF FeedInv, FeedTypeOK, Down
<1>3. FromMade' /\ SeenOK' /\ Accounted'
  BY <1>1 DEF FromMade, SeenOK, Accounted, Down
<1>4. HandedOK' /\ HandedOnce'
  BY <1>1 DEF FeedInv, HandedOK, HandedOnce, Down
<1> QED BY <1>2, <1>3, <1>4 DEF FeedInv

(* The connection comes up, with all the leader made in its snapshot. *)
LEMMA LinkUpOK ==
  ASSUME FeedInv, LinkUp
  PROVE  FeedInv'
<1>1. /\ link.st = "down"
      /\ link' = [st |-> "up", silent |-> FALSE, snap |-> made, queue |-> {}]
      /\ drop' = [drop EXCEPT !.known = TRUE, !.gap = drop.known, !.since = drop.old]
      /\ UNCHANGED <<made, seen, recovery, recorded, handed, bad, history, missed, excused>>
  BY DEF LinkUp
<1>2. drop \in [known : BOOLEAN, old : SUBSET Fills, gap : BOOLEAN, since : SUBSET Fills]
      /\ made \subseteq Fills
  BY DEF FeedInv, FeedTypeOK
<1>3. drop' \in [known : BOOLEAN, old : SUBSET Fills, gap : BOOLEAN, since : SUBSET Fills]
      /\ drop'.old = drop.old /\ drop'.since = drop.old
  BY <1>1, <1>2
<1>4. FeedTypeOK'
  BY <1>1, <1>2, <1>3 DEF FeedInv, FeedTypeOK
<1>5. FromMade' /\ SeenOK'
  BY <1>1, <1>3 DEF FeedInv, FromMade, SeenOK
<1>6. HandedOK' /\ HandedOnce'
  BY <1>1 DEF FeedInv, HandedOK, HandedOnce
<1>7. Accounted'
  <2>1. \A g \in made : Pending(g) => Pending(g)'
    BY <1>1 DEF Pending
  <2> QED BY <1>1, <2>1 DEF FeedInv, Accounted
<1> QED BY <1>4, <1>5, <1>6, <1>7 DEF FeedInv

(* The snapshot: a fill that is not held back was seen, is excused, or is   *)
(* the history of the first snapshot.                                       *)
LEMMA SnapshotOK ==
  ASSUME FeedInv, Snapshot
  PROVE  FeedInv'
<1>1. /\ link.st = "up" /\ link' = [link EXCEPT !.st = "live", !.snap = {}]
      /\ seen' = seen \cup (link.snap \ Held)
      /\ history' = IF drop.gap THEN history ELSE link.snap
      /\ UNCHANGED <<made, drop, recorded, handed, bad, missed, excused>>
  BY DEF Snapshot
<1>2. link \in [st : {"down", "up", "live"}, silent : BOOLEAN, snap : SUBSET Fills, queue : SUBSET Fills]
  BY DEF FeedInv, FeedTypeOK
<1>3. link'.st = "live" /\ link'.silent = link.silent /\ link'.snap = {} /\ link'.queue = link.queue
  BY <1>1, <1>2
<1>4. link' \in [st : {"down", "up", "live"}, silent : BOOLEAN, snap : SUBSET Fills, queue : SUBSET Fills]
  BY <1>1, <1>2
<1>5. Held \subseteq link.snap /\ Held \cap seen = {} /\ (~drop.gap => Held = {})
      /\ (drop.gap => \A g \in link.snap : g \in seen \/ g \in Held \/ g \in drop.since)
  BY DEF Held
<1>6. CASE UNCHANGED recovery /\ Held = {}
  <2>1. FeedTypeOK'
    BY <1>1, <1>4, <1>2, <1>6 DEF FeedInv, FeedTypeOK
  <2>2. FromMade' /\ SeenOK'
    BY <1>1, <1>3, <1>5, <1>6 DEF FeedInv, FromMade, SeenOK
  <2>3. HandedOK' /\ HandedOnce'
    BY <1>1, <1>3 DEF FeedInv, HandedOK, HandedOnce
  <2>4. Accounted'
    <3>1. ASSUME NEW g \in made, g \notin history', g \notin excused, KeyOf(g) \notin recorded
          PROVE  Pending(g)'
      <4>1. g \notin history
        BY <1>1, <3>1 DEF FeedInv, SeenOK
      <4>2. Pending(g)
        BY <4>1, <3>1 DEF FeedInv, Accounted
      <4>3. g \notin link.snap
        BY <1>1, <1>5, <1>6, <3>1, <4>2 DEF FeedInv, SeenOK, Pending
      <4> QED BY <1>1, <1>3, <1>6, <4>2, <4>3 DEF Pending, Carried
    <3> QED BY <1>1, <3>1 DEF Accounted
  <2> QED BY <2>1, <2>2, <2>3, <2>4 DEF FeedInv
<1>7. ASSUME NEW r \in Recoveries, recovery[r] = NoTask,
             recovery' = [recovery EXCEPT ![r] = [st |-> "read", since |-> drop.since, got |-> Held]]
      PROVE  FeedInv'
  <2> DEFINE task == [st |-> "read", since |-> drop.since, got |-> Held]
  <2>1. task \in Task /\ task.got = Held /\ task # NoTask
    <3>1. Held \subseteq Fills /\ drop.since \subseteq Fills
      BY <1>2, <1>5, FeedFields DEF FeedInv
    <3>2. task.st = "read" /\ NoTask.st = "none"
      BY DEF NoTask
    <3> QED BY <3>1, <3>2 DEF Task
  <2> HIDE DEF task
  <2>2. recovery' = [recovery EXCEPT ![r] = task]
    BY <1>7 DEF task
  <2>3. recovery \in [Recoveries -> Task \cup {NoTask}]
    BY DEF FeedInv, FeedTypeOK, Task
  <2>4. recovery' \in [Recoveries -> Task \cup {NoTask}] /\ recovery'[r] = task
        /\ \A q \in Recoveries : q # r => recovery'[q] = recovery[q]
    BY <2>1, <2>2, <2>3
  <2>5. FeedTypeOK'
    BY <1>1, <1>4, <1>2, <2>4 DEF FeedInv, FeedTypeOK, Task
  <2>6. FromMade'
    <3>1. \A q \in Recoveries : recovery'[q] # NoTask => recovery'[q].got \subseteq made
      BY <1>5, <2>1, <2>4 DEF FeedInv, FromMade
    <3> QED BY <1>1, <1>3, <1>5, <3>1 DEF FeedInv, FromMade
  <2>7. SeenOK'
    BY <1>1, <1>3, <1>5 DEF FeedInv, SeenOK
  <2>8. HandedOK' /\ HandedOnce'
    BY <1>1, <1>3 DEF FeedInv, HandedOK, HandedOnce
  <2>9. Accounted'
    <3>1. ASSUME NEW g \in made, g \notin history', g \notin excused, KeyOf(g) \notin recorded
          PROVE  Pending(g)'
      <4>1. g \notin history
        BY <1>1, <3>1 DEF FeedInv, SeenOK
      <4>2. Pending(g)
        BY <4>1, <3>1 DEF FeedInv, Accounted
      <4>3. CASE g \in Held
        <5>1. Carried(g)'
          BY <2>1, <2>4, <4>3 DEF Carried
        <5> QED BY <1>1, <4>2, <4>3, <5>1 DEF Pending
      <4>4. CASE g \notin Held
        <5>1. g \notin link.snap
          BY <1>1, <1>5, <3>1, <4>2, <4>4 DEF FeedInv, SeenOK, Pending
        <5>2. Carried(g) => Carried(g)'
          BY <1>7, <2>4 DEF Carried
        <5> QED BY <1>1, <1>3, <4>2, <5>1, <5>2 DEF Pending
      <4> QED BY <4>3, <4>4
    <3> QED BY <1>1, <3>1 DEF Accounted
  <2> QED BY <2>5, <2>6, <2>7, <2>8, <2>9 DEF FeedInv
<1> QED BY <1>6, <1>7 DEF Snapshot

(* Marking a fill as seen while it is emitted, or not, as the step says: it *)
(* is a row then, or was seen before, or is excused.                        *)
LEMMA SeenKeeps ==
  ASSUME FeedInv, NEW f \in Fills, f \in made, seen' = seen \cup {f},
         f \in seen \/ KeyOf(f) \in recorded' \/ f \in excused',
         recorded \subseteq recorded', excused \subseteq excused',
         UNCHANGED <<made, history>>,
         \A g \in made : g # f /\ Pending(g) => Pending(g)'
  PROVE  Accounted'
<1>1. ASSUME NEW g \in made, g \notin history, g \notin excused', KeyOf(g) \notin recorded'
      PROVE  Pending(g)'
  <2>1. Pending(g)
    BY <1>1 DEF FeedInv, Accounted
  <2>2. g # f
    BY <1>1, <2>1 DEF Pending
  <2> QED BY <2>1, <2>2
<1> QED BY <1>1 DEF Accounted

(* What emitting a fill does to the rows and the hand-overs. *)
LEMMA EmitDoes ==
  ASSUME FeedInv, NEW f \in Fills, NEW source, Emit(f, source)
  PROVE  /\ recorded' = recorded \cup {KeyOf(f)} /\ handed' \in [Fills -> Nat]
         /\ \A g \in Fills : g # f => handed'[g] = handed[g]
         /\ (~Copied(source) => handed' = handed)
         /\ HandedOnce'
<1>1. /\ recorded' = recorded \cup {KeyOf(f)}
      /\ handed' = IF Created(f) /\ Copied(source) THEN [handed EXCEPT ![f] = @ + 1] ELSE handed
  BY DEF Emit
<1>2. handed \in [Fills -> Nat]
  BY DEF FeedInv, FeedTypeOK
<1>3. CASE ~(Created(f) /\ Copied(source))
  BY <1>1, <1>2, <1>3 DEF FeedInv, HandedOnce
<1>4. CASE Created(f) /\ Copied(source)
  <2>1. handed' = [handed EXCEPT ![f] = @ + 1]
    BY <1>1, <1>4
  <2>2. \A g \in Fills : KeyOf(g) = KeyOf(f) => handed[g] = 0
    BY <1>4 DEF Created, FeedInv, HandedOK
  <2>3. handed' \in [Fills -> Nat] /\ handed'[f] = 1 /\ \A g \in Fills : g # f => handed'[g] = handed[g]
    <3>1. handed[f] = 0
      BY <2>2
    <3> QED BY <1>2, <2>1, <3>1
  <2>4. HandedOnce'
    <3>1. \A g \in Fills : handed'[g] <= 1
      BY <2>3 DEF FeedInv, HandedOnce
    <3>2. ASSUME NEW g \in Fills, NEW h \in Fills, g # h, KeyOf(g) = KeyOf(h)
          PROVE  handed'[g] + handed'[h] <= 1
      <4>1. CASE g = f
        BY <2>2, <2>3, <3>2, <4>1
      <4>2. CASE h = f
        BY <2>2, <2>3, <3>2, <4>2
      <4>3. CASE g # f /\ h # f
        BY <2>3, <3>2, <4>3 DEF FeedInv, HandedOnce
      <4> QED BY <4>1, <4>2, <4>3
    <3> QED BY <3>1, <3>2 DEF HandedOnce
  <2> QED BY <1>1, <1>4, <2>3, <2>4
<1> QED BY <1>3, <1>4

(* A live frame. *)
LEMMA FrameOK ==
  ASSUME FeedInv, NEW f \in Fills, Frame(f)
  PROVE  FeedInv'
<1>1. /\ f \in link.queue /\ link' = [link EXCEPT !.queue = @ \ {f}] /\ seen' = seen \cup {f}
      /\ UNCHANGED <<made, drop, recovery, bad, history, missed, excused>>
  BY DEF Frame
<1>2. link \in [st : {"down", "up", "live"}, silent : BOOLEAN, snap : SUBSET Fills, queue : SUBSET Fills]
      /\ handed \in [Fills -> Nat] /\ recorded \subseteq {KeyOf(g) : g \in Fills}
  BY DEF FeedInv, FeedTypeOK
<1>3. link'.st = link.st /\ link'.silent = link.silent /\ link'.snap = link.snap
      /\ link'.queue = link.queue \ {f}
  BY <1>1, <1>2
<1>4. link' \in [st : {"down", "up", "live"}, silent : BOOLEAN, snap : SUBSET Fills, queue : SUBSET Fills]
  BY <1>1, <1>2
<1>5. f \in made
  BY <1>1 DEF FeedInv, FromMade
<1>6. /\ recorded \subseteq recorded' /\ recorded' \subseteq recorded \cup {KeyOf(f)}
      /\ (f \in seen \/ KeyOf(f) \in recorded')
      /\ handed' \in [Fills -> Nat] /\ \A g \in Fills : g # f => handed'[g] = handed[g]
      /\ HandedOnce' /\ (handed'[f] = handed[f] \/ KeyOf(f) \in recorded')
  <2>1. CASE f \in seen
    BY <1>2, <2>1 DEF Frame, FeedInv, HandedOnce
  <2>2. CASE f \notin seen
    <3>1. Emit(f, "hl_ws")
      BY <2>2 DEF Frame
    <3> QED BY <3>1, EmitDoes
  <2> QED BY <2>1, <2>2
<1>7. FeedTypeOK'
  BY <1>1, <1>2, <1>4, <1>6 DEF FeedInv, FeedTypeOK
<1>8. FromMade' /\ SeenOK'
  BY <1>1, <1>3, <1>5 DEF FeedInv, FromMade, SeenOK
<1>9. HandedOK'
  <2>1. f \notin link'.queue /\ f \notin missed'
    BY <1>1, <1>3 DEF FeedInv, HandedOK
  <2>2. missed \subseteq Fills /\ link.queue \subseteq Fills
    BY <1>2 DEF FeedInv, FromMade, FeedTypeOK
  <2>3. \A g \in link'.queue \cup missed' : handed'[g] = 0
    BY <1>1, <1>3, <1>6, <2>1, <2>2 DEF FeedInv, HandedOK
  <2>4. link'.queue \cap missed' = {}
    BY <1>1, <1>3 DEF FeedInv, HandedOK
  <2>5. \A g \in Fills : handed'[g] # 0 => g \in made' /\ KeyOf(g) \in recorded'
    BY <1>1, <1>5, <1>6 DEF FeedInv, HandedOK
  <2> QED BY <2>3, <2>4, <2>5 DEF HandedOK
<1>10. \A g \in made : g # f /\ Pending(g) => Pending(g)'
  BY <1>1, <1>3 DEF Pending, Carried
<1>11. Accounted'
  BY <1>1, <1>5, <1>6, <1>10, SeenKeeps
<1> QED BY <1>6, <1>7, <1>8, <1>9, <1>11 DEF FeedInv

(* The recoveries, when a step changes one of them. *)
LEMMA OneRecovery ==
  ASSUME FeedInv, NEW r \in Recoveries, NEW task \in Task, recovery' = [recovery EXCEPT ![r] = task]
  PROVE  /\ recovery' \in [Recoveries -> Task \cup {NoTask}] /\ recovery'[r] = task
         /\ \A q \in Recoveries : q # r => recovery'[q] = recovery[q]
BY DEF FeedInv, FeedTypeOK, Task

(* The REST read of a recovery, or its failure. *)
LEMMA GapReadOK ==
  ASSUME FeedInv, NEW r \in Recoveries, GapRead(r)
  PROVE  FeedInv'
<1>1. recovery[r] # NoTask /\ recovery[r] \in Task /\ recovery[r].st = "read"
  BY TaskIsTask DEF GapRead, FeedInv
<1>2. UNCHANGED <<made, link, seen, drop, recorded, handed, history, missed, excused>>
  BY DEF GapRead
<1>3. PICK task \in Task : /\ recovery' = [recovery EXCEPT ![r] = task]
                           /\ recovery[r].got \subseteq task.got
                           /\ task.got \subseteq recovery[r].got \cup made /\ task.st = "emit"
  <2>1. made \subseteq Fills
    BY DEF FeedInv, FeedTypeOK
  <2>2. CASE recovery' = [recovery EXCEPT ![r].st = "emit", ![r].got = @ \cup (made \ recovery[r].since)]
    <3> DEFINE task == [recovery[r] EXCEPT !.st = "emit", !.got = @ \cup (made \ recovery[r].since)]
    <3>1. recovery' = [recovery EXCEPT ![r] = task]
      BY <2>2 DEF FeedInv, FeedTypeOK
    <3>2. /\ task \in Task /\ task.got = recovery[r].got \cup (made \ recovery[r].since)
          /\ task.st = "emit"
      BY <1>1, <2>1 DEF Task
    <3> HIDE DEF task
    <3> QED BY <3>1, <3>2
  <2>3. CASE recovery' = [recovery EXCEPT ![r].st = "emit"]
    <3> DEFINE task == [recovery[r] EXCEPT !.st = "emit"]
    <3>1. recovery' = [recovery EXCEPT ![r] = task]
      BY <2>3 DEF FeedInv, FeedTypeOK
    <3>2. task \in Task /\ task.got = recovery[r].got /\ task.st = "emit"
      BY <1>1 DEF Task
    <3> HIDE DEF task
    <3> QED BY <3>1, <3>2
  <2> QED BY <2>2, <2>3 DEF GapRead
<1>4. recovery' \in [Recoveries -> Task \cup {NoTask}] /\ recovery'[r] = task
      /\ \A q \in Recoveries : q # r => recovery'[q] = recovery[q]
  BY <1>3, OneRecovery
<1>5. FeedTypeOK'
  BY <1>2, <1>4 DEF FeedInv, FeedTypeOK, Task
<1>6. FromMade'
  <2>1. recovery[r].got \subseteq made
    BY <1>1 DEF FeedInv, FromMade
  <2>2. \A q \in Recoveries : recovery'[q] # NoTask => recovery'[q].got \subseteq made
    BY <1>3, <1>4, <2>1 DEF FeedInv, FromMade
  <2> QED BY <1>2, <2>2 DEF FeedInv, FromMade
<1>7. SeenOK' /\ HandedOK' /\ HandedOnce'
  BY <1>2 DEF FeedInv, SeenOK, HandedOK, HandedOnce
<1>8. task # NoTask
  <2>1. NoTask.st = "none"
    BY DEF NoTask
  <2> QED BY <1>3, <2>1
<1>9. \A g : Carried(g) => Carried(g)'
  BY <1>3, <1>4, <1>8 DEF Carried
<1>10. Accounted'
  BY <1>2, <1>9 DEF FeedInv, Accounted, Pending
<1> QED BY <1>5, <1>6, <1>7, <1>10 DEF FeedInv

(* A fill of a recovery is emitted, was seen, or is excused. *)
LEMMA GapEmitOK ==
  ASSUME FeedInv, NEW r \in Recoveries, NEW f \in Fills, GapEmit(r, f)
  PROVE  FeedInv'
<1> DEFINE seeding == link.st = "up"
           task == [recovery[r] EXCEPT !.got = @ \ {f}]
<1>1. recovery[r] # NoTask /\ recovery[r] \in Task /\ recovery[r].st = "emit" /\ f \in recovery[r].got
  BY TaskIsTask DEF GapEmit, FeedInv
<1>2. /\ seen' = seen \cup {f} /\ UNCHANGED <<made, link, drop, bad, history, missed>>
      /\ excused' = IF f \notin seen /\ seeding THEN excused \cup {f} ELSE excused
  BY DEF GapEmit
<1>3. task \in Task /\ task.got = recovery[r].got \ {f} /\ task.st = "emit"
  BY <1>1 DEF Task
<1>4. recovery' = [recovery EXCEPT ![r] = task]
  BY DEF GapEmit, FeedInv, FeedTypeOK
<1> HIDE DEF task, seeding
<1>5. recovery' \in [Recoveries -> Task \cup {NoTask}] /\ recovery'[r] = task
      /\ \A q \in Recoveries : q # r => recovery'[q] = recovery[q]
  BY <1>3, <1>4, OneRecovery
<1>6. f \in made
  BY <1>1 DEF FeedInv, FromMade
<1>7. /\ recorded \subseteq recorded' /\ recorded' \subseteq recorded \cup {KeyOf(f)}
      /\ (f \in seen \/ KeyOf(f) \in recorded' \/ f \in excused')
      /\ handed' = handed /\ HandedOnce'
  <2>1. CASE f \in seen \/ seeding
    <3>1. UNCHANGED <<recorded, handed>>
      BY <2>1 DEF GapEmit, seeding
    <3> QED BY <1>2, <2>1, <3>1 DEF FeedInv, HandedOnce
  <2>2. CASE ~(f \in seen \/ seeding)
    <3>1. Emit(f, "hl_ws_gap")
      BY <2>2 DEF GapEmit, seeding
    <3>2. ~Copied("hl_ws_gap")
      BY DEF Copied
    <3> QED BY <3>1, <3>2, EmitDoes
  <2> QED BY <2>1, <2>2
<1>8. FeedTypeOK'
  BY <1>2, <1>5, <1>6, <1>7 DEF FeedInv, FeedTypeOK, Task
<1>9. FromMade'
  <2>1. \A q \in Recoveries : recovery'[q] # NoTask => recovery'[q].got \subseteq made
    BY <1>1, <1>3, <1>5 DEF FeedInv, FromMade
  <2> QED BY <1>2, <1>6, <2>1 DEF FeedInv, FromMade
<1>10. SeenOK'
  BY <1>2 DEF FeedInv, SeenOK
<1>11. HandedOK'
  BY <1>2, <1>7 DEF FeedInv, HandedOK
<1>12. \A g \in made : g # f /\ Carried(g) => Carried(g)'
  <2>1. NoTask.st = "none"
    BY DEF NoTask
  <2> QED BY <1>3, <1>5, <2>1 DEF Carried
<1>13. \A g \in made : g # f /\ Pending(g) => Pending(g)'
  BY <1>2, <1>12 DEF Pending
<1>14. excused \subseteq excused'
  BY <1>2
<1>15. Accounted'
  BY <1>2, <1>6, <1>7, <1>13, <1>14, SeenKeeps
<1> QED BY <1>7, <1>8, <1>9, <1>10, <1>11, <1>15 DEF FeedInv

(* A recovery ends with nothing left to emit. *)
LEMMA GapEndsOK ==
  ASSUME FeedInv, NEW r \in Recoveries, GapEnds(r)
  PROVE  FeedInv'
<1>1. /\ recovery[r].got = {} /\ recovery' = [recovery EXCEPT ![r] = NoTask]
      /\ UNCHANGED <<made, link, seen, drop, recorded, handed, bad, history, missed, excused>>
  BY DEF GapEnds
<1>2. recovery \in [Recoveries -> Task \cup {NoTask}]
  BY DEF FeedInv, FeedTypeOK, Task
<1>3. recovery' \in [Recoveries -> Task \cup {NoTask}] /\ recovery'[r] = NoTask
      /\ \A q \in Recoveries : q # r => recovery'[q] = recovery[q]
  BY <1>1, <1>2
<1>4. FeedTypeOK'
  BY <1>1, <1>3 DEF FeedInv, FeedTypeOK, Task
<1>5. FromMade' /\ SeenOK' /\ HandedOK' /\ HandedOnce'
  BY <1>1, <1>3 DEF FeedInv, FromMade, SeenOK, HandedOK, HandedOnce
<1>6. \A g : Carried(g) => Carried(g)'
  BY <1>1, <1>3 DEF Carried
<1>7. Accounted'
  BY <1>1, <1>6 DEF FeedInv, Accounted, Pending
<1> QED BY <1>4, <1>5, <1>7 DEF FeedInv

(* Every step keeps the invariant. *)
LEMMA FeedStep ==
  ASSUME FeedInv, [FeedNext]_feedVars
  PROVE  FeedInv'
<1>1. CASE UNCHANGED feedVars
  <2>1. FeedTypeOK' /\ FromMade' /\ SeenOK'
    BY <1>1 DEF feedVars, FeedInv, FeedTypeOK, FromMade, SeenOK
  <2>2. HandedOK' /\ HandedOnce'
    BY <1>1 DEF feedVars, FeedInv, HandedOK, HandedOnce
  <2>3. Accounted'
    BY <1>1 DEF feedVars, FeedInv, Accounted, Pending, Carried
  <2> QED BY <2>1, <2>2, <2>3 DEF FeedInv
<1>2. CASE FeedNext
  BY <1>2, TradeOK, FrameOK, FallSilentOK, LinkDropsOK, RestartsOK, LinkUpOK, SnapshotOK,
     GapReadOK, GapEndsOK, GapEmitOK DEF FeedNext
<1> QED BY <1>1, <1>2

(* The invariant holds throughout. *)
LEMMA FeedInvariant == FeedSpec => []FeedInv
BY FeedInitOK, FeedStep, PTL DEF FeedSpec

(* The feed's state keeps its types, for any fills and faults. *)
THEOREM FeedTypesHold == FeedSpec => []FeedTypeOK
<1>1. FeedInv => FeedTypeOK
  BY DEF FeedInv
<1> QED BY <1>1, FeedInvariant, PTL

(* Once the feed has settled every fill made since the first snapshot is an *)
(* event row, but the fills its gaps pass over: for any number of drops,    *)
(* failed reads and recoveries (tracker.py:8-12).                           *)
THEOREM NothingGetsLost == FeedSpec => []NothingLost
<1>1. FeedInv => NothingLost
  <2> SUFFICES ASSUME FeedInv, Quiet, NEW f \in made \ (history \cup excused)
               PROVE  KeyOf(f) \in recorded
    BY DEF NothingLost
  <2>1. ~Pending(f)
    BY DEF Quiet, Pending, Carried
  <2> QED BY <2>1 DEF FeedInv, Accounted
<1> QED BY <1>1, FeedInvariant, PTL

(* One event is handed to the copy engine once, whatever is delivered,     *)
(* No fill is handed to the copy engine twice, redelivered, recovered or    *)
(* read after a restart, and none made while no frame could come.           *)
THEOREM HandedRightly == FeedSpec => []HandedRight
<1>1. FeedInv => HandedRight
  BY DEF FeedInv, HandedOK, StaleNotCopied, HandedRight
<1> QED BY <1>1, FeedInvariant, PTL

(* What the first snapshot of the process held makes no event of its own. *)
THEOREM HistoryStaysSilent == FeedSpec => HistoryIsSilent
<1>1. FeedInv /\ [FeedNext]_feedVars
        => [\A f \in history :
              /\ handed'[f] = handed[f]
              /\ KeyOf(f) \in recorded' \ recorded => \E g \in made \ history : KeyOf(g) = KeyOf(f)]_feedVars
  <2> SUFFICES ASSUME FeedInv, FeedNext, NEW f \in history
               PROVE  /\ handed'[f] = handed[f]
                      /\ KeyOf(f) \in recorded' \ recorded
                           => \E g \in made \ history : KeyOf(g) = KeyOf(f)
    OBVIOUS
  <2>1. CASE UNCHANGED <<handed, recorded>>
    BY <2>1
  <2>2. ASSUME NEW g \in Fills, NEW source, g \in made, g \notin seen, Emit(g, source)
        PROVE  /\ handed'[f] = handed[f]
               /\ KeyOf(f) \in recorded' \ recorded
                    => \E h \in made \ history : KeyOf(h) = KeyOf(f)
    <3>1. f \in seen /\ f \in Fills /\ g \notin history
      BY <2>2 DEF FeedInv, SeenOK, FromMade, FeedTypeOK
    <3>2. /\ recorded' = recorded \cup {KeyOf(g)}
          /\ \A h \in Fills : h # g => handed'[h] = handed[h]
      BY <2>2, EmitDoes
    <3> QED BY <2>2, <3>1, <3>2
  <2>3. ASSUME NEW g \in Fills, Frame(g), g \notin seen PROVE g \in made /\ Emit(g, "hl_ws")
    BY <2>3 DEF Frame, FeedInv, FromMade
  <2>4. ASSUME NEW r \in Recoveries, NEW g \in Fills, GapEmit(r, g), g \notin seen, link.st # "up"
        PROVE  g \in made /\ Emit(g, "hl_ws_gap")
    <3>1. recovery[r] # NoTask /\ g \in recovery[r].got
      BY <2>4, TaskIsTask DEF GapEmit, FeedInv
    <3> QED BY <2>4, <3>1 DEF GapEmit, FeedInv, FromMade
  <2>5. ASSUME NEW g \in Fills, Frame(g), g \in seen PROVE UNCHANGED <<handed, recorded>>
    BY <2>5 DEF Frame
  <2>6. ASSUME NEW r \in Recoveries, NEW g \in Fills, GapEmit(r, g), g \in seen \/ link.st = "up"
        PROVE  UNCHANGED <<handed, recorded>>
    BY <2>6 DEF GapEmit
  <2>7. ASSUME NEW g \in Fills, Trade(g) PROVE UNCHANGED <<handed, recorded>>
    BY <2>7 DEF Trade
  <2>8. FallSilent \/ LinkDrops \/ Restarts \/ LinkUp \/ Snapshot \/ (\E r \in Recoveries : GapRead(r) \/ GapEnds(r))
          => UNCHANGED <<handed, recorded>>
    BY DEF FallSilent, LinkDrops, Restarts, LinkUp, Snapshot, GapRead, GapEnds
  <2>9. CASE \E g \in Fills : Frame(g)
    BY <2>1, <2>2, <2>3, <2>5, <2>9
  <2>10. CASE \E r \in Recoveries, g \in Fills : GapEmit(r, g)
    BY <2>1, <2>2, <2>4, <2>6, <2>10
  <2> QED BY <2>1, <2>7, <2>8, <2>9, <2>10 DEF FeedNext
<1> QED BY <1>1, FeedInvariant, PTL DEF FeedSpec, HistoryIsSilent

(*****************************************************************************)
(* The stored fills of an account, for any page size, cap, windows and       *)
(* margin.                                                                   *)
(*****************************************************************************)

JobRec == [pc : {"idle", "turn", "page", "write"}, from : Nat, start : Nat, upTo : Nat, last : Nat,
           first : BOOLEAN, pages : Nat]
TripReadRec == [pc : {"idle", "read"}, cur : Nat, start : Nat, upTo : Nat]

(* The venue numbers fills in the order they were made, and shows each of    *)
(* them before it is as old as the margin.                                   *)
InOrder == \A i, k \in 1 .. Len(timeline) : i <= k => timeline[i] <= timeline[k]
ShownInTime == \A i \in indexed + 1 .. Len(timeline) : timeline[i] > clock - Margin

(* What lies at or below a time has its row; a time that has not passed is   *)
(* that of a row, so what is made in that millisecond later is found too.    *)
Covered(upTo) == \A i \in 1 .. Len(timeline) : since <= timeline[i] /\ timeline[i] <= upTo => Found(i)
Backed(upTo) == upTo < clock \/ \E k \in kept : timeline[k] = upTo

(* The job has rows for all it has read past, from where it began when it    *)
(* had no cursor to begin from; with nothing read there is nothing to read   *)
(* before the margin.                                                        *)
JobOK ==
  job.pc # "idle" =>
    /\ Backed(job.last)
    /\ \A i \in 1 .. Len(timeline) :
         since <= timeline[i] /\ (job.first => job.from <= timeline[i]) /\ timeline[i] <= job.last => Found(i)
    /\ job.last = NoCursor => job.first
    /\ job.pc = "turn" => (job.first => job.last = NoCursor)
    /\ job.pc \in {"turn", "page"} => job.pages < PagesMax
    /\ job.pc = "page" => job.start = job.last + 1
                          \/ (job.first /\ job.start = job.from /\ job.last = NoCursor)
    /\ job.pc \in {"page", "write"} =>
         job.upTo <= clock /\ job.upTo > Margin /\ (job.first => job.from <= clock)
    /\ job.pc = "write" /\ job.last = NoCursor =>
         \A i \in 1 .. Len(timeline) : job.from <= timeline[i] => timeline[i] > job.upTo - Margin

(* The feed reads on from a cursor it found, ... *)
TripReadOK ==
  tripRead.pc = "read" =>
    /\ Backed(tripRead.cur) /\ Covered(tripRead.cur)
    /\ IF tripRead.cur = NoCursor THEN tripRead.start <= clock ELSE tripRead.start = tripRead.cur + 1

HistoryInv ==
  /\ HistoryTypeOK /\ job \in JobRec /\ tripRead \in TripReadRec /\ InOrder /\ ShownInTime
  /\ NoneLeftBehind /\ Backed(cursor) /\ JobOK /\ TripReadOK

(* The constants, fact by fact.                                             *)
LEMMA HistoryBounds ==
  /\ PageSize \in Nat /\ PageSize # 0 /\ PagesMax \in Nat /\ PagesMax # 0 /\ Margin \in Nat /\ Margin # 0
  /\ FirstWindow \in Nat /\ FeedWindow \in Nat /\ Ahead \in Nat /\ MaxClock \in Nat /\ MaxHistory \in Nat
  /\ Margin < MaxClock
BY HistoryConstants

(* The fields, one by one. *)
LEMMA HistoryFields ==
  ASSUME HistoryTypeOK
  PROVE  /\ clock \in Nat /\ clock > Margin /\ clock <= MaxClock
         /\ Len(timeline) \in Nat /\ \A i \in 1 .. Len(timeline) : timeline[i] \in Nat /\ timeline[i] > 0
                                                                 /\ timeline[i] <= clock
         /\ indexed \in Nat /\ indexed <= Len(timeline) /\ kept \subseteq 1 .. indexed
         /\ cursor \in Nat /\ cursor <= clock /\ since \in Nat /\ since <= clock
<1>1. /\ clock \in Margin + 1 .. MaxClock /\ timeline \in Seq(1 .. clock)
      /\ indexed \in 0 .. Len(timeline) /\ kept \subseteq 1 .. indexed
      /\ cursor \in 0 .. clock /\ since \in 0 .. clock
  BY DEF HistoryTypeOK
<1>2. clock \in Nat /\ clock > Margin /\ clock <= MaxClock
  BY <1>1, HistoryBounds
<1>3. Len(timeline) \in Nat /\ \A i \in 1 .. Len(timeline) : timeline[i] \in 1 .. clock
  BY <1>1
<1>4. \A i \in 1 .. Len(timeline) : timeline[i] \in Nat /\ timeline[i] > 0 /\ timeline[i] <= clock
  BY <1>2, <1>3
<1>5. indexed \in Nat /\ indexed <= Len(timeline)
  BY <1>1, <1>3
<1>6. cursor \in Nat /\ cursor <= clock /\ since \in Nat /\ since <= clock
  BY <1>1, <1>2
<1> QED BY <1>1, <1>2, <1>3, <1>4, <1>5, <1>6

(* The fields of the job and of the feed's read.                            *)
LEMMA JobFields ==
  ASSUME HistoryTypeOK, job \in JobRec, tripRead \in TripReadRec
  PROVE  /\ job.pc \in {"idle", "turn", "page", "write"} /\ job.from \in Nat /\ job.start \in Nat
         /\ job.upTo \in Nat /\ job.last \in Nat /\ job.first \in BOOLEAN /\ job.pages \in Nat
         /\ job.last <= clock /\ job.from <= clock + 1 /\ job.start <= clock + 1 /\ job.upTo <= clock + 1
         /\ job.pages <= PagesMax
         /\ tripRead.pc \in {"idle", "read"} /\ tripRead.cur \in Nat /\ tripRead.start \in Nat
         /\ tripRead.upTo \in Nat /\ tripRead.cur <= clock /\ tripRead.start <= clock + 1
         /\ tripRead.upTo <= clock + Ahead
BY HistoryFields, HistoryBounds DEF HistoryTypeOK, JobRec, TripReadRec

-----------------------------------------------------------------------------
(* The page of a read.                                                      *)

(* The newest time of a page, or the one known before. *)
LEMMA NewestIs ==
  ASSUME HistoryTypeOK, NEW page, page \subseteq 1 .. Len(timeline), NEW known \in 0 .. clock
  PROVE  /\ Newest(page, known) \in 0 .. clock /\ known <= Newest(page, known)
         /\ Newest(page, known) = known \/ \E i \in page : timeline[i] = Newest(page, known)
         /\ \A i \in page : timeline[i] <= Newest(page, known)
<1> DEFINE S == {timeline[i] : i \in page} \cup {known}
<1>1. S \in SUBSET (0 .. clock) /\ S # {} /\ clock \in Nat
  <2>1. clock \in Nat /\ \A i \in page : timeline[i] \in 0 .. clock
    <3>1. clock \in Nat /\ \A i \in 1 .. Len(timeline) : timeline[i] \in Nat /\ timeline[i] <= clock
      BY HistoryFields
    <3>2. ASSUME NEW i \in page
          PROVE  timeline[i] \in 0 .. clock
      <4>1. i \in 1 .. Len(timeline)
        OBVIOUS
      <4>2. timeline[i] \in Nat /\ timeline[i] <= clock
        BY <3>1, <4>1
      <4> QED BY <3>1, <4>2
    <3> QED BY <3>1, <3>2
  <2>2. known \in 0 .. clock
    OBVIOUS
  <2> QED BY <2>1, <2>2
<1>2. Max(S) \in S /\ \A y \in S : y <= Max(S)
  BY <1>1, GreatestOf
<1>3. Newest(page, known) = Max(S)
  BY DEF Newest
<1> QED BY <1>1, <1>2, <1>3

(* A page is the oldest of its window: what is as old as one of it is in it  *)
(* or shares its time with one that is; and an empty page has all there is.  *)
LEMMA PageIs ==
  ASSUME HistoryTypeOK, InOrder, NEW start \in Nat, NEW upTo \in Nat
  PROVE  /\ PageOf(start, upTo) \subseteq 1 .. indexed
         /\ \A k \in PageOf(start, upTo) : start <= timeline[k] /\ timeline[k] <= upTo
         /\ \A i \in 1 .. Len(timeline), k \in PageOf(start, upTo) :
              start <= timeline[i] /\ timeline[i] <= timeline[k]
                => \E j \in PageOf(start, upTo) : timeline[j] = timeline[i]
         /\ PageOf(start, upTo) = {} => /\ Within(start, upTo) = {}
                                         /\ Cardinality(PageOf(start, upTo)) # PageSize
<1> DEFINE W == Within(start, upTo)
           page == PageOf(start, upTo)
           Before(i) == {k \in W : k < i}
<1>1. W \subseteq 1 .. indexed /\ IsFiniteSet(W)
  <2>1. W \subseteq 1 .. indexed /\ indexed \in Nat
    BY HistoryFields DEF Within
  <2>2. IsFiniteSet(1 .. indexed)
    BY <2>1, FS_Interval
  <2> QED BY <2>1, <2>2, FS_Subset
<1>2. page = {i \in W : Cardinality(Before(i)) < PageSize}
  BY DEF PageOf
<1>3. \A i : IsFiniteSet(Before(i)) /\ Cardinality(Before(i)) \in Nat
  <2>1. \A i : Before(i) \in SUBSET W
    OBVIOUS
  <2> QED BY <1>1, <2>1, FS_Subset, FS_CardinalityType
<1>4. ASSUME NEW i \in page, NEW k \in W, k < i PROVE k \in page
  <2>1. Before(k) \in SUBSET Before(i)
    BY <1>1, <1>2, <1>4
  <2>2. Cardinality(Before(k)) <= Cardinality(Before(i))
    BY <1>3, <2>1, FS_Subset
  <2>3. Cardinality(Before(i)) < PageSize
    BY <1>2
  <2>4. Cardinality(Before(k)) < PageSize
    BY <1>3, <2>2, <2>3, HistoryBounds
  <2> QED BY <1>2, <2>4
<1>5. \A i \in W : start <= timeline[i] /\ timeline[i] <= upTo
  BY DEF Within
<1>6. ASSUME NEW i \in 1 .. Len(timeline), NEW k \in page, start <= timeline[i], timeline[i] <= timeline[k]
      PROVE  \E j \in page : timeline[j] = timeline[i]
  <2>1. k \in 1 .. Len(timeline) /\ k \in 1 .. indexed /\ k \in W
    BY <1>1, <1>2, HistoryFields
  <2>2. timeline[i] \in Nat /\ timeline[k] \in Nat
    BY <2>1, HistoryFields
  <2>3. CASE k <= i
    <3>1. timeline[k] <= timeline[i]
      BY <2>1, <2>3 DEF InOrder
    <3>2. timeline[k] = timeline[i]
      BY <1>6, <2>2, <3>1
    <3> QED BY <3>2
  <2>4. CASE i < k
    <3>1. i \in 1 .. indexed
      BY <2>1, <2>4, HistoryFields
    <3>2. timeline[k] <= upTo
      BY <1>5, <2>1
    <3>3. i \in W
      BY <1>6, <2>2, <3>1, <3>2 DEF Within
    <3> QED BY <1>4, <2>4, <3>3
  <2> QED BY <2>1, <2>3, <2>4
<1>7. ASSUME page = {} PROVE W = {} /\ Cardinality(page) # PageSize
  <2>1. Cardinality(page) # PageSize
    BY <1>7, FS_EmptySet, HistoryBounds
  <2>2. ASSUME W # {} PROVE FALSE
    <3>1. W \in SUBSET Nat
      BY <1>1
    <3> HIDE DEF W
    <3>2. PICK w \in W : \A y \in W : w <= y
      BY <2>2, <3>1, LeastOf
    <3>3. Before(w) = {}
      <4>1. ASSUME NEW k \in W, k < w PROVE FALSE
        <5>1. k \in Nat /\ w \in Nat /\ w <= k
          BY <3>1, <3>2
        <5> QED BY <4>1, <5>1
      <4> QED BY <4>1
    <3>4. Cardinality(Before(w)) = 0
      BY <3>3, FS_EmptySet
    <3>5. w \in page
      BY <1>2, <3>4, HistoryBounds
    <3> QED BY <1>7, <3>5
  <2> QED BY <2>1, <2>2
<1>8. page \subseteq 1 .. indexed /\ page \subseteq W
  BY <1>1, <1>2
<1> QED BY <1>5, <1>6, <1>7, <1>8

-----------------------------------------------------------------------------
(* The steps.                                                               *)

(* The first state satisfies the invariant.                                 *)
LEMMA HistoryInitOK ==
  ASSUME HistoryInit
  PROVE  HistoryInv
<1>1. HistoryTypeOK
  BY HistoryBounds DEF HistoryInit, HistoryTypeOK, NoJob, NoTripRead, NoCursor
<1>2. job \in JobRec /\ tripRead \in TripReadRec
  BY DEF HistoryInit, JobRec, TripReadRec, NoJob, NoTripRead, NoCursor
<1>3. InOrder /\ ShownInTime /\ NoneLeftBehind
  BY DEF HistoryInit, InOrder, ShownInTime, NoneLeftBehind
<1>4. Backed(cursor) /\ JobOK /\ TripReadOK
  BY HistoryBounds DEF HistoryInit, Backed, JobOK, TripReadOK, NoJob, NoTripRead, NoCursor
<1> QED BY <1>1, <1>2, <1>3, <1>4 DEF HistoryInv

(* A fill is made.  One of a millisecond that was read already is found.    *)
LEMMA GrowsOK ==
  ASSUME HistoryInv, HistoryGrows, NEW n, n = Len(timeline) + 1
  PROVE  HistoryInv'
<1>1. /\ HistoryTypeOK /\ job \in JobRec /\ tripRead \in TripReadRec /\ InOrder /\ ShownInTime
      /\ NoneLeftBehind /\ Backed(cursor) /\ JobOK /\ TripReadOK
      /\ Len(timeline) < MaxHistory /\ timeline' = Append(timeline, clock)
      /\ UNCHANGED <<clock, indexed, kept, cursor, job, tripRead, since>>
  BY DEF HistoryInv, HistoryGrows
<1>2. /\ clock \in Nat /\ clock > Margin /\ Len(timeline) \in Nat
      /\ \A i \in 1 .. Len(timeline) : timeline[i] \in Nat /\ timeline[i] > 0 /\ timeline[i] <= clock
      /\ indexed \in Nat /\ indexed <= Len(timeline) /\ kept \subseteq 1 .. indexed
      /\ cursor \in Nat /\ cursor <= clock
  BY <1>1, HistoryFields
<1>3. timeline \in Seq(1 .. clock) /\ clock \in 1 .. clock
  BY <1>1, <1>2, HistoryBounds DEF HistoryTypeOK
<1>4. /\ timeline' \in Seq(1 .. clock) /\ Len(timeline') = n /\ timeline'[n] = clock
      /\ \A i \in 1 .. Len(timeline) : timeline'[i] = timeline[i]
  BY <1>1, <1>2, <1>3
<1>5. \A i \in 1 .. Len(timeline') : i = n \/ i \in 1 .. Len(timeline)
  BY <1>2, <1>4
<1>6. HistoryTypeOK'
  <2>1. Len(timeline') <= MaxHistory /\ indexed' \in 0 .. Len(timeline')
    BY <1>1, <1>2, <1>4, HistoryBounds
  <2> QED BY <1>1, <1>4, <2>1 DEF HistoryTypeOK
<1>7. InOrder'
  BY <1>1, <1>2, <1>4, <1>5 DEF InOrder
<1>8. ShownInTime'
  <2>1. clock > clock - Margin
    BY <1>2, HistoryBounds
  <2>2. \A i \in indexed' + 1 .. Len(timeline') : i = n \/ i \in indexed + 1 .. Len(timeline)
    BY <1>1, <1>2, <1>4
  <2>3. \A i \in indexed + 1 .. Len(timeline) : i \in 1 .. Len(timeline)
    BY <1>2
  <2> QED BY <1>1, <1>4, <2>1, <2>2, <2>3 DEF ShownInTime
<1>9. \A i \in 1 .. Len(timeline) : Found(i) => Found(i)'
  BY <1>1, <1>2, <1>4 DEF Found
<1>10. ASSUME NEW u \in Nat, u < clock \/ \E k \in kept : timeline[k] = u, u <= clock, clock <= u
       PROVE  Found(n)'
  <2>1. PICK k \in kept : timeline[k] = clock
    BY <1>2, <1>10
  <2> QED BY <1>1, <1>2, <1>4, <2>1 DEF Found
<1>11. NoneLeftBehind'
  <2>1. clock <= cursor => Found(n)'
    BY <1>1, <1>2, <1>10 DEF Backed
  <2> QED BY <1>1, <1>4, <1>5, <1>9, <2>1 DEF NoneLeftBehind
<1>12. \A u : Backed(u) => u < clock \/ \E k \in kept' : timeline'[k] = u
  BY <1>1, <1>2, <1>4 DEF Backed
<1>13. Backed(cursor)'
  BY <1>1, <1>12 DEF Backed
<1>14. JobOK'
  <2>1. job.last \in Nat /\ job.last <= clock /\ job.upTo \in Nat
    BY <1>1, JobFields
  <2>2. job.pc # "idle" => Backed(job.last)
    BY <1>1 DEF JobOK
  <2>3. job.pc # "idle" /\ clock <= job.last => Found(n)'
    BY <1>10, <2>1, <2>2 DEF Backed
  <2>4. job.pc # "idle" =>
          \A i \in 1 .. Len(timeline') :
            since <= timeline'[i] /\ (job.first => job.from <= timeline'[i]) /\ timeline'[i] <= job.last
              => Found(i)'
    BY <1>1, <1>4, <1>5, <1>9, <2>3 DEF JobOK
  <2>5. job.pc # "idle" => job.last < clock \/ \E k \in kept' : timeline'[k] = job.last
    BY <1>12, <2>2
  <2>6. job.pc = "write" /\ job.last = NoCursor => clock > job.upTo - Margin
    BY <1>1, <1>2, <2>1, HistoryBounds DEF JobOK
  <2>7. job.pc = "write" /\ job.last = NoCursor =>
          \A i \in 1 .. Len(timeline') : job.from <= timeline'[i] => timeline'[i] > job.upTo - Margin
    BY <1>1, <1>4, <1>5, <2>6 DEF JobOK
  <2> QED BY <1>1, <2>4, <2>5, <2>7 DEF JobOK, Backed
<1>15. TripReadOK'
  <2>1. tripRead.cur \in Nat /\ tripRead.cur <= clock
    BY <1>1, JobFields
  <2>2. tripRead.pc = "read" /\ clock <= tripRead.cur => Found(n)'
    BY <1>1, <1>10, <2>1 DEF TripReadOK, Backed
  <2>3. tripRead.pc = "read" =>
          \A i \in 1 .. Len(timeline') : since <= timeline'[i] /\ timeline'[i] <= tripRead.cur => Found(i)'
    BY <1>1, <1>4, <1>5, <1>9, <2>2 DEF TripReadOK, Covered
  <2>4. tripRead.pc = "read" => tripRead.cur < clock \/ \E k \in kept' : timeline'[k] = tripRead.cur
    BY <1>1, <1>12 DEF TripReadOK
  <2> QED BY <1>1, <2>3, <2>4 DEF TripReadOK, Backed, Covered
<1> QED BY <1>1, <1>6, <1>7, <1>8, <1>11, <1>13, <1>14, <1>15 DEF HistoryInv

(* A step that makes no fill and loses no row: what was found still is.     *)
LEMMA Stays ==
  ASSUME HistoryInv, timeline' = timeline, kept \subseteq kept', clock' \in Nat, clock <= clock',
         since' \in Nat, since <= since'
  PROVE  /\ InOrder'
         /\ \A i \in 1 .. Len(timeline) : Found(i) => Found(i)'
         /\ \A u \in Nat : Backed(u) => u < clock' \/ \E k \in kept' : timeline'[k] = u
         /\ \A u \in Nat : Covered(u) =>
              \A i \in 1 .. Len(timeline') : since' <= timeline'[i] /\ timeline'[i] <= u => Found(i)'
         /\ UNCHANGED job => JobOK'
         /\ UNCHANGED tripRead => TripReadOK'
<1>1. /\ HistoryTypeOK /\ job \in JobRec /\ tripRead \in TripReadRec /\ InOrder
      /\ JobOK /\ TripReadOK
  BY DEF HistoryInv
<1>2. /\ clock \in Nat /\ Len(timeline) \in Nat /\ since \in Nat
      /\ \A i \in 1 .. Len(timeline) : timeline[i] \in Nat
  BY <1>1, HistoryFields
<1>3. InOrder'
  BY <1>1 DEF InOrder
<1>4. \A i \in 1 .. Len(timeline) : Found(i) => Found(i)'
  BY DEF Found
<1>5. \A u \in Nat : Backed(u) => u < clock' \/ \E k \in kept' : timeline'[k] = u
  BY <1>2 DEF Backed
<1>6. \A i \in 1 .. Len(timeline) : since' <= timeline[i] => since <= timeline[i]
  BY <1>2
<1>7. \A u \in Nat : Covered(u) =>
        \A i \in 1 .. Len(timeline') : since' <= timeline'[i] /\ timeline'[i] <= u => Found(i)'
  BY <1>4, <1>6 DEF Covered
<1>8. ASSUME UNCHANGED job PROVE JobOK'
  <2>1. job.pc # "idle" => Backed(job.last)
    BY <1>1 DEF JobOK
  <2>2. job.last \in Nat /\ job.upTo \in Nat /\ job.from \in Nat
    BY <1>1, JobFields
  <2>3. job.pc # "idle" => job.last < clock' \/ \E k \in kept' : timeline'[k] = job.last
    BY <1>5, <2>1, <2>2
  <2>4. job.pc # "idle" =>
          \A i \in 1 .. Len(timeline') :
            since' <= timeline'[i] /\ (job.first => job.from <= timeline'[i]) /\ timeline'[i] <= job.last
              => Found(i)'
    BY <1>1, <1>4, <1>6 DEF JobOK
  <2>5. job.pc \in {"page", "write"} =>
          job.upTo <= clock' /\ job.upTo > Margin /\ (job.first => job.from <= clock')
    BY <1>1, <1>2, <2>2 DEF JobOK
  <2> QED BY <1>1, <1>8, <2>3, <2>4, <2>5 DEF JobOK, Backed
<1>9. ASSUME UNCHANGED tripRead PROVE TripReadOK'
  <2>1. tripRead.cur \in Nat
    BY <1>1, JobFields
  <2>2. tripRead.pc = "read" => tripRead.cur < clock' \/ \E k \in kept' : timeline'[k] = tripRead.cur
    BY <1>1, <1>5, <2>1 DEF TripReadOK
  <2>3. tripRead.pc = "read" =>
          \A i \in 1 .. Len(timeline') : since' <= timeline'[i] /\ timeline'[i] <= tripRead.cur => Found(i)'
    BY <1>1, <1>7, <2>1 DEF TripReadOK
  <2>4. tripRead.start \in Nat /\ (tripRead.start <= clock => tripRead.start <= clock')
    BY <1>1, <1>2, JobFields
  <2> QED BY <1>1, <1>9, <2>2, <2>3, <2>4 DEF TripReadOK, Backed, Covered
<1> QED BY <1>3, <1>4, <1>5, <1>7, <1>8, <1>9

(* The venue shows a fill; time passes.                                     *)
LEMMA ShownOK ==
  ASSUME HistoryInv, FillShown
  PROVE  HistoryInv'
<1>1. /\ indexed < Len(timeline) /\ indexed' = indexed + 1
      /\ UNCHANGED <<clock, timeline, kept, cursor, job, tripRead, since>>
      /\ HistoryTypeOK /\ job \in JobRec /\ tripRead \in TripReadRec /\ ShownInTime
  BY DEF FillShown, HistoryInv
<1>2. /\ clock \in Nat /\ Len(timeline) \in Nat /\ indexed \in Nat /\ kept \subseteq 1 .. indexed
      /\ since \in Nat /\ cursor \in Nat
  BY <1>1, HistoryFields
<1>3. HistoryTypeOK'
  <2>1. indexed' \in 0 .. Len(timeline') /\ kept' \subseteq 1 .. indexed'
    BY <1>1, <1>2
  <2> QED BY <1>1, <2>1 DEF HistoryTypeOK
<1>4. ShownInTime'
  <2>1. \A i \in indexed' + 1 .. Len(timeline') : i \in indexed + 1 .. Len(timeline)
    BY <1>1, <1>2
  <2> QED BY <1>1, <2>1 DEF ShownInTime
<1>5. NoneLeftBehind' /\ Backed(cursor)'
  BY <1>1 DEF HistoryInv, NoneLeftBehind, Found, Backed
<1> QED BY <1>1, <1>2, <1>3, <1>4, <1>5, Stays DEF HistoryInv

(* Time, and what the venue shows of the fills by then.                     *)
LEMMA TickOK ==
  ASSUME HistoryInv, HistoryTick
  PROVE  HistoryInv'
<1>1. /\ clock < MaxClock /\ clock' = clock + 1
      /\ \A i \in indexed + 1 .. Len(timeline) : timeline[i] > clock' - Margin
      /\ UNCHANGED <<timeline, indexed, kept, cursor, job, tripRead, since>>
      /\ HistoryTypeOK /\ job \in JobRec /\ tripRead \in TripReadRec /\ Backed(cursor)
  BY DEF HistoryTick, HistoryInv
<1>2. /\ clock \in Nat /\ clock > Margin /\ Len(timeline) \in Nat /\ indexed \in Nat
      /\ kept \subseteq 1 .. indexed /\ since \in Nat /\ since <= clock /\ cursor \in Nat /\ cursor <= clock
      /\ \A i \in 1 .. Len(timeline) : timeline[i] \in Nat /\ timeline[i] > 0 /\ timeline[i] <= clock
  BY <1>1, HistoryFields
<1>3. HistoryTypeOK'
  <2>1. clock' \in Margin + 1 .. MaxClock /\ 0 .. clock \subseteq 0 .. clock' /\ 0 .. clock + 1 \subseteq 0 .. clock' + 1
        /\ 0 .. clock + Ahead \subseteq 0 .. clock' + Ahead
    BY <1>1, <1>2, HistoryBounds
  <2>2. timeline' \in Seq(1 .. clock')
    <3>1. timeline \in Seq(1 .. clock)
      BY <1>1 DEF HistoryTypeOK
    <3>2. timeline = [i \in 1 .. Len(timeline) |-> timeline[i]]
      BY <3>1
    <3>3. \A i \in 1 .. Len(timeline) : timeline[i] \in 1 .. clock'
      BY <1>1, <1>2
    <3> QED BY <1>1, <1>2, <3>2, <3>3
  <2>3. /\ {cursor, job.last, tripRead.cur, since} \subseteq 0 .. clock
        /\ {job.from, job.start, job.upTo, tripRead.start} \subseteq 0 .. clock + 1
        /\ tripRead.upTo \in 0 .. clock + Ahead
    BY <1>1 DEF HistoryTypeOK
  <2> QED BY <1>1, <2>1, <2>2, <2>3 DEF HistoryTypeOK
<1>4. ShownInTime'
  BY <1>1 DEF ShownInTime
<1>5. NoneLeftBehind' /\ Backed(cursor)'
  BY <1>1, <1>2 DEF HistoryInv, NoneLeftBehind, Found, Backed
<1> QED BY <1>1, <1>2, <1>3, <1>4, <1>5, Stays DEF HistoryInv

(* Steps that leave rows and cursor alone. *)
LEMMA QuietHistory ==
  ASSUME HistoryInv, UNCHANGED <<clock, timeline, indexed, kept, cursor, since>>
  PROVE  /\ InOrder' /\ ShownInTime' /\ NoneLeftBehind' /\ Backed(cursor)'
         /\ UNCHANGED job => JobOK'
         /\ UNCHANGED tripRead => TripReadOK'
BY DEF HistoryInv, InOrder, ShownInTime, NoneLeftBehind, Backed, Found, JobOK, TripReadOK, Covered

(* The types of job and feed, from their fields. *)
LEMMA JobTyped ==
  ASSUME HistoryTypeOK, job' \in JobRec, tripRead' = tripRead,
         job'.last <= clock, job'.from <= clock + 1, job'.start <= clock + 1, job'.upTo <= clock + 1,
         job'.pages <= PagesMax, UNCHANGED <<clock, timeline, indexed, kept, cursor, since>>
  PROVE  HistoryTypeOK'
<1>1. /\ job'.pc \in {"idle", "turn", "page", "write"} /\ job'.from \in Nat /\ job'.start \in Nat
      /\ job'.upTo \in Nat /\ job'.last \in Nat /\ job'.first \in BOOLEAN /\ job'.pages \in Nat
  BY DEF JobRec
<1>2. clock \in Nat
  BY HistoryFields
<1>3. /\ job'.last \in 0 .. clock /\ job'.from \in 0 .. clock + 1 /\ job'.start \in 0 .. clock + 1
      /\ job'.upTo \in 0 .. clock + 1 /\ job'.pages \in 0 .. PagesMax
  BY <1>1, <1>2, HistoryBounds
<1> QED BY <1>1, <1>3 DEF HistoryTypeOK

(* No job is a job that is idle.                                            *)
LEMMA NoJobOK == /\ NoJob \in JobRec /\ NoJob.pc = "idle" /\ NoJob.last = 0 /\ NoJob.from = 0
                 /\ NoJob.start = 0 /\ NoJob.upTo = 0 /\ NoJob.pages = 0
BY DEF NoJob, JobRec, NoCursor

(* The job begins a pass.                                                   *)
LEMMA JobStartOK ==
  ASSUME HistoryInv, JobStart
  PROVE  HistoryInv'
<1>1. /\ HistoryTypeOK /\ tripRead \in TripReadRec /\ NoneLeftBehind /\ Backed(cursor)
      /\ UNCHANGED <<clock, timeline, indexed, kept, cursor, tripRead, since>>
  BY DEF HistoryInv, JobStart
<1>2. clock \in Nat /\ cursor \in Nat /\ cursor <= clock
  BY <1>1, HistoryFields
<1>3. job' = [pc |-> "turn", from |-> 0, start |-> 0, upTo |-> 0, last |-> cursor,
              first |-> cursor = NoCursor, pages |-> 0]
  BY DEF JobStart, NoJob
<1>4. /\ job'.pc = "turn" /\ job'.from = 0 /\ job'.start = 0 /\ job'.upTo = 0 /\ job'.last = cursor
      /\ job'.first = (cursor = NoCursor) /\ job'.pages = 0
      /\ job' \in JobRec
  BY <1>2, <1>3 DEF JobRec
<1>5. HistoryTypeOK'
  BY <1>1, <1>2, <1>4, JobTyped, HistoryBounds
<1>6. JobOK'
  <2>1. Backed(job.last)'
    BY <1>1, <1>4 DEF Backed
  <2>2. \A i \in 1 .. Len(timeline') : since' <= timeline'[i] /\ timeline'[i] <= job'.last => Found(i)'
    BY <1>1, <1>4 DEF NoneLeftBehind, Found
  <2>3. (job.last = NoCursor)' = job'.first
    BY <1>4
  <2>4. job'.pages < PagesMax
    BY <1>4, HistoryBounds
  <2> QED BY <1>1, <1>4, <2>1, <2>2, <2>3, <2>4 DEF JobOK
<1> QED BY <1>1, <1>4, <1>5, <1>6, QuietHistory DEF HistoryInv

(* Where a read begins: after the cursor, or a window before now.           *)
LEMMA StartOfIs ==
  ASSUME HistoryTypeOK, NEW cur \in Nat, cur <= clock, NEW width \in Nat
  PROVE  /\ StartOf(cur, width) \in Nat /\ StartOf(cur, width) <= clock + 1
         /\ IF cur = NoCursor THEN StartOf(cur, width) <= clock ELSE StartOf(cur, width) = cur + 1
BY HistoryFields DEF StartOf, NoCursor

(* The job comes to the account and takes its cursor.                       *)
LEMMA JobTurnOK ==
  ASSUME HistoryInv, JobTurn
  PROVE  HistoryInv'
<1>1. /\ HistoryTypeOK /\ job \in JobRec /\ tripRead \in TripReadRec /\ JobOK /\ job.pc = "turn"
      /\ UNCHANGED <<clock, timeline, indexed, kept, cursor, tripRead, since>>
  BY DEF HistoryInv, JobTurn
<1>2. clock \in Nat /\ clock > Margin /\ job.last \in Nat /\ job.last <= clock /\ job.pages \in Nat
      /\ job.pages <= PagesMax /\ job.first \in BOOLEAN
      /\ \A i \in 1 .. Len(timeline) : timeline[i] \in Nat /\ timeline[i] > 0
  BY <1>1, HistoryFields, JobFields
<1> DEFINE from == StartOf(job.last, FirstWindow)
<1>3. /\ from \in Nat /\ from <= clock + 1
      /\ IF job.last = NoCursor THEN from <= clock ELSE from = job.last + 1
  BY <1>1, <1>2, StartOfIs, HistoryBounds
<1>4. job' = [job EXCEPT !.pc = "page", !.from = from, !.start = from, !.upTo = clock]
  BY DEF JobTurn
<1> HIDE DEF from
<1>5. /\ job'.pc = "page" /\ job'.from = from /\ job'.start = from /\ job'.upTo = clock
      /\ job'.last = job.last /\ job'.first = job.first /\ job'.pages = job.pages
      /\ job' \in JobRec
  BY <1>1, <1>2, <1>3, <1>4 DEF JobRec
<1>6. HistoryTypeOK'
  BY <1>1, <1>2, <1>3, <1>5, JobTyped
<1>7. JobOK'
  <2>1. Backed(job.last)'
    BY <1>1, <1>5 DEF JobOK, Backed
  <2>2. job.first => job.last = 0
    BY <1>1 DEF JobOK, NoCursor
  <2>3. \A i \in 1 .. Len(timeline') :
          since' <= timeline'[i] /\ (job'.first => job'.from <= timeline'[i]) /\ timeline'[i] <= job'.last
            => Found(i)'
    <3>1. \A i \in 1 .. Len(timeline) :
            since <= timeline[i] /\ (job.first => job.from <= timeline[i]) /\ timeline[i] <= job.last => Found(i)
      BY <1>1 DEF JobOK
    <3>2. \A i \in 1 .. Len(timeline) : timeline[i] <= job.last => ~job.first
      BY <1>2, <2>2
    <3> QED BY <1>1, <1>5, <3>1, <3>2 DEF Found
  <2>4. job.pages < PagesMax
    BY <1>1 DEF JobOK
  <2>5. job.last = NoCursor => job.first
    BY <1>1 DEF JobOK
  <2>6. job'.start = job'.last + 1 \/ (job'.first /\ job'.start = job'.from /\ job'.last = NoCursor)
    BY <1>3, <1>5, <2>5
  <2>7. job'.first => job'.from <= clock'
    BY <1>1, <1>3, <1>5, <2>2 DEF NoCursor
  <2> QED BY <1>1, <1>2, <1>5, <2>1, <2>3, <2>4, <2>5, <2>6, <2>7 DEF JobOK
<1> QED BY <1>1, <1>5, <1>6, <1>7, QuietHistory DEF HistoryInv

(* A page is stored.                                                        *)
LEMMA JobPageOK ==
  ASSUME HistoryInv, JobPage
  PROVE  HistoryInv'
<1>1. /\ HistoryTypeOK /\ job \in JobRec /\ tripRead \in TripReadRec /\ InOrder /\ ShownInTime
      /\ NoneLeftBehind /\ Backed(cursor) /\ JobOK /\ job.pc = "page"
      /\ UNCHANGED <<clock, timeline, indexed, cursor, tripRead, since>>
  BY DEF HistoryInv, JobPage
<1>2. /\ clock \in Nat /\ Len(timeline) \in Nat /\ indexed \in Nat /\ indexed <= Len(timeline)
      /\ kept \subseteq 1 .. indexed /\ since \in Nat /\ cursor \in Nat
      /\ \A i \in 1 .. Len(timeline) : timeline[i] \in Nat /\ timeline[i] > 0 /\ timeline[i] <= clock
      /\ job.last \in 0 .. clock /\ job.start \in Nat /\ job.upTo \in Nat /\ job.from \in Nat
      /\ job.from <= clock + 1 /\ job.start <= clock + 1 /\ job.pages \in Nat /\ job.first \in BOOLEAN
  BY <1>1, HistoryFields, JobFields
<1> DEFINE page == PageOf(job.start, job.upTo)
           last == Newest(page, job.last)
           full == Cardinality(page) = PageSize
<1>3. /\ page \subseteq 1 .. indexed
      /\ \A i \in 1 .. Len(timeline), k \in page :
           job.start <= timeline[i] /\ timeline[i] <= timeline[k] => \E j \in page : timeline[j] = timeline[i]
      /\ page = {} => Within(job.start, job.upTo) = {} /\ ~full
  BY <1>1, <1>2, PageIs
<1>4. kept' = kept \cup page
      /\ job' = [job EXCEPT !.pc = IF full /\ job.pages + 1 < PagesMax THEN "page" ELSE "write",
                            !.start = IF full THEN last + 1 ELSE @, !.last = last, !.pages = @ + 1]
  BY DEF JobPage
<1>5. page \subseteq 1 .. Len(timeline)
  BY <1>2, <1>3
<1> HIDE DEF page
<1>6. /\ last \in 0 .. clock /\ job.last <= last
      /\ last = job.last \/ \E i \in page : timeline[i] = last
      /\ \A i \in page : timeline[i] <= last
  BY <1>1, <1>2, <1>5, NewestIs
<1> HIDE DEF last, full
<1>7. /\ job'.pc = (IF full /\ job.pages + 1 < PagesMax THEN "page" ELSE "write")
      /\ job'.start = (IF full THEN last + 1 ELSE job.start) /\ job'.last = last
      /\ job'.pages = job.pages + 1 /\ job'.from = job.from /\ job'.upTo = job.upTo
      /\ job'.first = job.first /\ job' \in JobRec
  <2> DEFINE pc == IF full /\ job.pages + 1 < PagesMax THEN "page" ELSE "write"
             start == IF full THEN last + 1 ELSE job.start
  <2>1. pc \in {"page", "write"} /\ start \in Nat /\ last \in Nat /\ job.pages + 1 \in Nat
    BY <1>2, <1>6
  <2>2. job' = [job EXCEPT !.pc = pc, !.start = start, !.last = last, !.pages = job.pages + 1]
    BY <1>1, <1>4 DEF JobRec
  <2> HIDE DEF pc, start
  <2>3. /\ job'.pc = pc /\ job'.start = start /\ job'.last = last
        /\ job'.pages = job.pages + 1 /\ job'.from = job.from /\ job'.upTo = job.upTo
        /\ job'.first = job.first /\ job' \in JobRec
    BY <1>1, <2>1, <2>2 DEF JobRec
  <2> QED BY <2>3 DEF pc, start
<1>8. /\ job.start = job.last + 1 \/ (job.first /\ job.start = job.from /\ job.last = NoCursor)
      /\ job.upTo <= clock /\ job.upTo > Margin /\ (job.first => job.from <= clock)
      /\ job.last = NoCursor => job.first
      /\ job.pages < PagesMax /\ Backed(job.last)
      /\ \A i \in 1 .. Len(timeline) :
           since <= timeline[i] /\ (job.first => job.from <= timeline[i]) /\ timeline[i] <= job.last => Found(i)
  BY <1>1 DEF JobOK
<1>9. HistoryTypeOK'
  <2>1. /\ job'.pc \in {"idle", "turn", "page", "write"} /\ job'.pages \in 0 .. PagesMax
        /\ job'.first \in BOOLEAN
    BY <1>2, <1>7, <1>8, HistoryBounds
  <2>2. /\ job'.last \in 0 .. clock /\ job'.start \in 0 .. clock + 1 /\ job'.from \in 0 .. clock + 1
        /\ job'.upTo \in 0 .. clock + 1
    BY <1>2, <1>6, <1>7, <1>8
  <2>3. kept' \subseteq 1 .. indexed
    BY <1>2, <1>3, <1>4
  <2> QED BY <1>1, <2>1, <2>2, <2>3 DEF HistoryTypeOK
<1>10. /\ InOrder' /\ TripReadOK'
       /\ \A i \in 1 .. Len(timeline) : Found(i) => Found(i)'
       /\ \A u \in Nat : Backed(u) => u < clock' \/ \E k \in kept' : timeline'[k] = u
  <2>1. kept \subseteq kept' /\ clock' \in Nat /\ clock <= clock' /\ since' \in Nat /\ since <= since'
        /\ timeline' = timeline
    BY <1>1, <1>2, <1>4
  <2> QED BY <1>1, <2>1, Stays
<1>11. ShownInTime' /\ NoneLeftBehind' /\ Backed(cursor)'
  <2>1. ShownInTime'
    BY <1>1 DEF ShownInTime
  <2>2. NoneLeftBehind'
    BY <1>1, <1>10 DEF NoneLeftBehind
  <2>3. Backed(cursor)'
    BY <1>1, <1>2, <1>10 DEF Backed
  <2> QED BY <2>1, <2>2, <2>3
<1>12. Backed(job.last)'
  <2>1. CASE last = job.last
    BY <1>1, <1>2, <1>7, <1>8, <1>10, <2>1 DEF Backed
  <2>2. CASE \E i \in page : timeline[i] = last
    BY <1>1, <1>4, <1>7, <2>2 DEF Backed
  <2> QED BY <1>6, <2>1, <2>2
<1>13. ASSUME NEW i \in 1 .. Len(timeline), since <= timeline[i], job.first => job.from <= timeline[i],
              timeline[i] <= last
       PROVE  Found(i)'
  <2>1. CASE timeline[i] <= job.last
    BY <1>8, <1>10, <1>13, <2>1
  <2>2. CASE ~ (timeline[i] <= job.last)
    <3>1. last # job.last /\ job.start <= timeline[i]
      BY <1>2, <1>6, <1>8, <1>13, <2>2
    <3>2. PICK k \in page : timeline[k] = last
      BY <1>6, <3>1
    <3>3. PICK j \in page : timeline[j] = timeline[i]
      BY <1>3, <1>13, <3>1, <3>2
    <3> QED BY <1>1, <1>4, <3>3 DEF Found
  <2> QED BY <2>1, <2>2
<1>14. ASSUME last = NoCursor, NEW i \in 1 .. Len(timeline), job.from <= timeline[i]
       PROVE  ~full /\ timeline[i] > job.upTo - Margin
  <2>1. page = {}
    BY <1>2, <1>5, <1>6, <1>14 DEF NoCursor
  <2>2. job.start <= timeline[i]
    BY <1>2, <1>6, <1>8, <1>14 DEF NoCursor
  <2>3. CASE i <= indexed
    <3>1. ~ (timeline[i] <= job.upTo)
      BY <1>2, <1>3, <2>1, <2>2, <2>3 DEF Within
    <3> QED BY <1>2, <1>3, <2>1, <3>1, HistoryBounds
  <2>4. CASE ~ (i <= indexed)
    <3>1. timeline[i] > clock - Margin
      BY <1>1, <1>2, <2>4 DEF ShownInTime
    <3> QED BY <1>2, <1>3, <1>8, <2>1, <3>1, HistoryBounds
  <2> QED BY <2>3, <2>4
<1>15. JobOK'
  <2>1. \A i \in 1 .. Len(timeline') :
          since' <= timeline'[i] /\ (job'.first => job'.from <= timeline'[i]) /\ timeline'[i] <= job'.last
            => Found(i)'
    BY <1>1, <1>7, <1>13
  <2>2. last = NoCursor => job.last = NoCursor
    BY <1>2, <1>6 DEF NoCursor
  <2>3. job'.pc = "page" => full /\ job.pages + 1 < PagesMax
    BY <1>7
  <2>4. job'.pc = "page" => job'.pages < PagesMax /\ job'.start = job'.last + 1
    BY <1>7, <2>3
  <2>5. job'.last = NoCursor =>
          \A i \in 1 .. Len(timeline') : job'.from <= timeline'[i] => timeline'[i] > job'.upTo - Margin
    BY <1>1, <1>7, <1>14
  <2>6. job'.pc \in {"page", "write"}
    BY <1>7
  <2> QED BY <1>1, <1>7, <1>8, <1>12, <2>1, <2>2, <2>4, <2>5, <2>6 DEF JobOK
<1> QED BY <1>1, <1>7, <1>9, <1>10, <1>11, <1>15 DEF HistoryInv

(* A pass that ends, or fails, writes nothing more.                         *)
LEMMA JobFailsOK ==
  ASSUME HistoryInv, JobFails
  PROVE  HistoryInv'
<1>1. /\ HistoryTypeOK /\ tripRead \in TripReadRec /\ job' = NoJob
      /\ UNCHANGED <<clock, timeline, indexed, kept, cursor, tripRead, since>>
  BY DEF HistoryInv, JobFails
<1>2. clock \in Nat
  BY <1>1, HistoryFields
<1>3. HistoryTypeOK' /\ job' \in JobRec
  BY <1>1, <1>2, NoJobOK, JobTyped, HistoryBounds
<1>4. JobOK'
  BY <1>1, NoJobOK DEF JobOK
<1> QED BY <1>1, <1>3, <1>4, QuietHistory DEF HistoryInv

(* The cursor is written.                                                   *)
LEMMA JobWriteOK ==
  ASSUME HistoryInv, JobWrite
  PROVE  HistoryInv'
<1>1. /\ HistoryTypeOK /\ job \in JobRec /\ tripRead \in TripReadRec /\ ShownInTime
      /\ NoneLeftBehind /\ JobOK /\ job.pc = "write" /\ job' = NoJob
      /\ cursor' = (IF job.last = NoCursor THEN job.upTo - Margin ELSE job.last)
      /\ since' = (IF job.first /\ job.from > since THEN job.from ELSE since)
      /\ UNCHANGED <<clock, timeline, indexed, kept, tripRead>>
  BY DEF HistoryInv, JobWrite, CursorRead
<1>2. /\ clock \in Nat /\ since \in Nat /\ since <= clock /\ Len(timeline) \in Nat
      /\ \A i \in 1 .. Len(timeline) : timeline[i] \in Nat
      /\ job.last \in Nat /\ job.last <= clock /\ job.upTo \in Nat /\ job.from \in Nat
      /\ job.first \in BOOLEAN
  BY <1>1, HistoryFields, JobFields
<1>3. /\ Backed(job.last) /\ job.upTo <= clock /\ job.upTo > Margin /\ (job.first => job.from <= clock)
      /\ job.last = NoCursor => job.first
      /\ \A i \in 1 .. Len(timeline) :
           since <= timeline[i] /\ (job.first => job.from <= timeline[i]) /\ timeline[i] <= job.last => Found(i)
      /\ job.last = NoCursor =>
           \A i \in 1 .. Len(timeline) : job.from <= timeline[i] => timeline[i] > job.upTo - Margin
  BY <1>1 DEF JobOK
<1>4. since' \in Nat /\ since <= since' /\ since' <= clock /\ (job.first => job.from <= since')
  BY <1>1, <1>2, <1>3
<1>5. cursor' \in Nat /\ cursor' <= clock /\ (job.last = NoCursor => cursor' < clock)
  BY <1>1, <1>2, <1>3, HistoryBounds
<1>6. HistoryTypeOK'
  <2>1. cursor' \in 0 .. clock /\ since' \in 0 .. clock
    BY <1>2, <1>4, <1>5
  <2>2. /\ job'.pc = "idle" /\ job'.pages \in 0 .. PagesMax /\ job'.first \in BOOLEAN
        /\ job'.last \in 0 .. clock
        /\ job'.from \in 0 .. clock + 1 /\ job'.start \in 0 .. clock + 1 /\ job'.upTo \in 0 .. clock + 1
    BY <1>1, <1>2, NoJobOK, HistoryBounds DEF JobRec
  <2> QED BY <1>1, <2>1, <2>2 DEF HistoryTypeOK
<1>7. InOrder' /\ TripReadOK' /\ (\A i \in 1 .. Len(timeline) : Found(i) => Found(i)')
      /\ \A u \in Nat : Backed(u) => u < clock' \/ \E k \in kept' : timeline'[k] = u
  <2>1. kept \subseteq kept' /\ clock' \in Nat /\ clock <= clock' /\ timeline' = timeline
    BY <1>1, <1>2
  <2> QED BY <1>1, <1>4, <2>1, Stays
<1>8. Backed(cursor)'
  <2>1. CASE job.last = NoCursor
    BY <1>1, <1>5, <2>1 DEF Backed
  <2>2. CASE job.last # NoCursor
    <3>1. cursor' = job.last
      BY <1>1, <2>2
    <3> QED BY <1>1, <1>3, <3>1 DEF Backed
  <2> QED BY <2>1, <2>2
<1>9. NoneLeftBehind'
  <2>1. ASSUME NEW i \in 1 .. Len(timeline), since' <= timeline[i], timeline[i] <= cursor'
        PROVE  Found(i)
    <3>1. since <= timeline[i] /\ (job.first => job.from <= timeline[i])
      BY <1>2, <1>4, <2>1
    <3>2. job.last # NoCursor
      <4>1. ASSUME job.last = NoCursor PROVE FALSE
        <5>1. timeline[i] > job.upTo - Margin /\ cursor' = job.upTo - Margin
          BY <1>1, <1>3, <3>1, <4>1
        <5> QED BY <1>2, <1>5, <2>1, <5>1
      <4> QED BY <4>1
    <3>3. timeline[i] <= job.last
      BY <1>1, <2>1, <3>2
    <3> QED BY <1>3, <3>1, <3>3
  <2> QED BY <1>1, <1>7, <2>1 DEF NoneLeftBehind
<1>10. ShownInTime'
  BY <1>1 DEF ShownInTime
<1>11. JobOK' /\ job' \in JobRec
  BY <1>1, NoJobOK DEF JobOK
<1> QED BY <1>1, <1>6, <1>7, <1>8, <1>9, <1>10, <1>11 DEF HistoryInv

-----------------------------------------------------------------------------
(* The feed.                                                                *)
LEMMA TripReadStartOK ==
  ASSUME HistoryInv, TripReadStart
  PROVE  HistoryInv'
<1>1. /\ HistoryTypeOK /\ job \in JobRec /\ NoneLeftBehind /\ Backed(cursor)
      /\ tripRead' = [pc |-> "read", cur |-> cursor, start |-> StartOf(cursor, FeedWindow),
                      upTo |-> clock + Ahead]
      /\ UNCHANGED <<clock, timeline, indexed, kept, cursor, job, since>>
  BY DEF HistoryInv, TripReadStart
<1>2. clock \in Nat /\ cursor \in Nat /\ cursor <= clock
  BY <1>1, HistoryFields
<1> DEFINE start == StartOf(cursor, FeedWindow)
<1>3. /\ start \in Nat /\ start <= clock + 1
      /\ IF cursor = NoCursor THEN start <= clock ELSE start = cursor + 1
  BY <1>1, <1>2, StartOfIs, HistoryBounds
<1> HIDE DEF start
<1>4. /\ tripRead'.pc = "read" /\ tripRead'.cur = cursor /\ tripRead'.start = start
      /\ tripRead'.upTo = clock + Ahead /\ tripRead' \in TripReadRec
  BY <1>1, <1>2, <1>3, HistoryBounds DEF TripReadRec, start
<1>5. HistoryTypeOK'
  <2>1. tripRead'.cur \in 0 .. clock /\ tripRead'.start \in 0 .. clock + 1
        /\ tripRead'.upTo \in 0 .. clock + Ahead
    BY <1>2, <1>3, <1>4, HistoryBounds
  <2> QED BY <1>1, <1>4, <2>1 DEF HistoryTypeOK
<1>6. TripReadOK'
  BY <1>1, <1>3, <1>4 DEF TripReadOK, Backed, Covered, NoneLeftBehind, Found
<1> QED BY <1>1, <1>4, <1>5, <1>6, QuietHistory DEF HistoryInv

(* The page and the cursor in one transaction, which never moves it back.   *)
LEMMA TripReadDone ==
  ASSUME HistoryInv, TripRead
  PROVE  HistoryInv'
<1>1. /\ HistoryTypeOK /\ job \in JobRec /\ tripRead \in TripReadRec /\ InOrder /\ ShownInTime
      /\ NoneLeftBehind /\ Backed(cursor) /\ TripReadOK /\ tripRead.pc = "read"
      /\ tripRead' = NoTripRead /\ UNCHANGED <<clock, timeline, indexed, job>>
  BY DEF HistoryInv, TripRead
<1>2. /\ clock \in Nat /\ Len(timeline) \in Nat /\ indexed \in Nat /\ indexed <= Len(timeline)
      /\ kept \subseteq 1 .. indexed /\ since \in Nat /\ since <= clock /\ cursor \in 0 .. clock
      /\ \A i \in 1 .. Len(timeline) : timeline[i] \in Nat /\ timeline[i] > 0 /\ timeline[i] <= clock
      /\ tripRead.cur \in 0 .. clock /\ tripRead.start \in Nat /\ tripRead.upTo \in Nat
  BY <1>1, HistoryFields, JobFields
<1> DEFINE page == PageOf(tripRead.start, tripRead.upTo)
           newest == Newest(page, tripRead.cur)
<1>3. /\ page \subseteq 1 .. indexed
      /\ \A k \in page : tripRead.start <= timeline[k]
      /\ \A i \in 1 .. Len(timeline), k \in page :
           tripRead.start <= timeline[i] /\ timeline[i] <= timeline[k]
             => \E j \in page : timeline[j] = timeline[i]
  BY <1>1, <1>2, PageIs
<1>4. /\ kept' = kept \cup page /\ cursor' = Max({cursor, newest})
      /\ since' = IF tripRead.cur = NoCursor /\ page # {} /\ tripRead.start > since
                  THEN tripRead.start ELSE since
  BY DEF TripRead, FeedCursor
<1>5. page \subseteq 1 .. Len(timeline)
  BY <1>2, <1>3
<1> HIDE DEF page
<1>6. /\ newest \in 0 .. clock /\ tripRead.cur <= newest
      /\ newest = tripRead.cur \/ \E i \in page : timeline[i] = newest
  BY <1>1, <1>2, <1>5, NewestIs
<1> HIDE DEF newest
<1>7. cursor' \in {cursor, newest} /\ cursor' \in 0 .. clock
  <2>1. {cursor, newest} \in SUBSET (0 .. clock)
    BY <1>2, <1>6
  <2> QED BY <1>2, <1>4, <2>1, GreatestOf
<1>8. /\ Backed(tripRead.cur) /\ Covered(tripRead.cur)
      /\ IF tripRead.cur = NoCursor THEN tripRead.start <= clock ELSE tripRead.start = tripRead.cur + 1
  BY <1>1 DEF TripReadOK
<1>9. /\ since' \in Nat /\ since <= since' /\ since' <= clock
      /\ tripRead.cur = NoCursor /\ page # {} => tripRead.start <= since'
  BY <1>2, <1>4, <1>8
<1>10. HistoryTypeOK' /\ tripRead' \in TripReadRec
  <2>1. kept' \subseteq 1 .. indexed /\ since' \in 0 .. clock
    BY <1>2, <1>3, <1>4, <1>9
  <2>2. /\ tripRead'.pc = "idle" /\ tripRead'.cur \in 0 .. clock /\ tripRead'.start \in 0 .. clock + 1
        /\ tripRead'.upTo \in 0 .. clock + Ahead /\ tripRead' \in TripReadRec
    BY <1>1, <1>2, HistoryBounds DEF NoTripRead, NoCursor, TripReadRec
  <2> QED BY <1>1, <1>7, <2>1, <2>2 DEF HistoryTypeOK
<1>11. /\ InOrder' /\ JobOK' /\ \A i \in 1 .. Len(timeline) : Found(i) => Found(i)'
       /\ \A u \in Nat : Backed(u) => u < clock' \/ \E k \in kept' : timeline'[k] = u
  <2>1. kept \subseteq kept' /\ clock' \in Nat /\ clock <= clock' /\ timeline' = timeline
    BY <1>1, <1>2, <1>4
  <2> QED BY <1>1, <1>9, <2>1, Stays
<1>12. Backed(cursor)'
  <2>1. CASE cursor' = cursor
    BY <1>1, <1>2, <1>11, <2>1 DEF Backed
  <2>2. CASE cursor' = newest /\ newest = tripRead.cur
    BY <1>1, <1>2, <1>8, <1>11, <2>2 DEF Backed
  <2>3. CASE cursor' = newest /\ \E i \in page : timeline[i] = newest
    BY <1>1, <1>4, <2>3 DEF Backed
  <2> QED BY <1>6, <1>7, <2>1, <2>2, <2>3
<1>13. NoneLeftBehind'
  <2>1. ASSUME NEW i \in 1 .. Len(timeline), since' <= timeline[i], timeline[i] <= cursor'
        PROVE  Found(i)'
    <3>1. since <= timeline[i]
      BY <1>2, <1>9, <2>1
    <3>2. CASE timeline[i] <= cursor
      BY <1>1, <1>11, <2>1, <3>1, <3>2 DEF NoneLeftBehind
    <3>3. CASE timeline[i] <= tripRead.cur
      BY <1>8, <1>11, <2>1, <3>1, <3>3 DEF Covered
    <3>4. CASE ~ (timeline[i] <= cursor) /\ ~ (timeline[i] <= tripRead.cur)
      <4>1. timeline[i] <= newest /\ newest # tripRead.cur
        BY <1>7, <2>1, <3>4
      <4>2. PICK k \in page : timeline[k] = newest
        BY <1>6, <4>1
      <4>3. tripRead.start <= timeline[i]
        BY <1>2, <1>8, <1>9, <2>1, <3>4, <4>2
      <4>4. PICK j \in page : timeline[j] = timeline[i]
        BY <1>3, <2>1, <4>1, <4>2, <4>3
      <4> QED BY <1>1, <1>4, <4>4 DEF Found
    <3> QED BY <3>2, <3>3, <3>4
  <2> QED BY <1>1, <2>1 DEF NoneLeftBehind
<1>14. ShownInTime' /\ TripReadOK' /\ job' \in JobRec
  BY <1>1 DEF ShownInTime, TripReadOK, NoTripRead
<1> QED BY <1>10, <1>11, <1>12, <1>13, <1>14 DEF HistoryInv

(* The feed's read fails.                                                   *)
LEMMA TripReadFailsOK ==
  ASSUME HistoryInv, TripReadFails
  PROVE  HistoryInv'
<1>1. /\ HistoryTypeOK /\ job \in JobRec /\ tripRead' = NoTripRead
      /\ UNCHANGED <<clock, timeline, indexed, kept, cursor, job, since>>
  BY DEF HistoryInv, TripReadFails
<1>2. clock \in Nat
  BY <1>1, HistoryFields
<1>3. /\ tripRead'.pc = "idle" /\ tripRead'.cur \in 0 .. clock /\ tripRead'.start \in 0 .. clock + 1
      /\ tripRead'.upTo \in 0 .. clock + Ahead /\ tripRead' \in TripReadRec
  BY <1>1, <1>2, HistoryBounds DEF NoTripRead, NoCursor, TripReadRec
<1>4. HistoryTypeOK'
  BY <1>1, <1>3 DEF HistoryTypeOK
<1>5. TripReadOK'
  BY <1>3 DEF TripReadOK
<1> QED BY <1>1, <1>3, <1>4, <1>5, QuietHistory DEF HistoryInv

(* Every step, and a stutter.                                               *)
LEMMA HistoryStep ==
  ASSUME HistoryInv, [HistoryNext]_historyVars
  PROVE  HistoryInv'
<1>1. CASE HistoryGrows
  BY <1>1, GrowsOK
<1>2. CASE UNCHANGED historyVars
  <2>1. UNCHANGED <<clock, timeline, indexed, kept, cursor, job, tripRead, since>>
    BY <1>2 DEF historyVars
  <2>2. HistoryTypeOK' /\ job' \in JobRec /\ tripRead' \in TripReadRec
    BY <2>1 DEF HistoryInv, HistoryTypeOK
  <2> QED BY <2>1, <2>2, QuietHistory DEF HistoryInv
<1> QED BY <1>1, <1>2, ShownOK, TickOK, JobStartOK, JobTurnOK, JobPageOK, JobFailsOK, JobWriteOK,
           TripReadStartOK, TripReadDone, TripReadFailsOK DEF HistoryNext

(* The types of the history hold, whatever the sizes: no time of the future, *)
(* no row without a fill the venue has shown, no page past the cap.          *)
THEOREM HistoryTyped == HistorySpec => []HistoryTypeOK
<1>1. HistoryInv => HistoryTypeOK
  BY DEF HistoryInv
<1> QED BY HistoryInitOK, HistoryStep, <1>1, PTL DEF HistorySpec

(* No fill is left behind the cursor: whatever the sizes of pages, windows   *)
(* and margin, wherever a pass of the job fails, and however job and feed    *)
(* move the cursor past each other, a fill at or below it has its row        *)
(* (featured/jobs.py ingest_fills, hl_trades_feed.py featured_close_trip).   *)
THEOREM NothingLeftBehind == HistorySpec => []NoneLeftBehind
<1>1. HistoryInv => NoneLeftBehind
  BY DEF HistoryInv
<1> QED BY HistoryInitOK, HistoryStep, <1>1, PTL DEF HistorySpec

(*****************************************************************************)
(* The shared client's budget, for any requests, classes, ceilings and       *)
(* waits.                                                                    *)
(*****************************************************************************)

ReqRec == [pc : {"idle", "wait", "sent"}, waited : Nat, polled : BOOLEAN]
BreakerRec == [left : Nat, n : Nat]

(* Who polled and waits on is not at the deadline of its class yet. *)
WaitsOn ==
  \A r \in Requests : ClassOf[r] # "critical" /\ request[r].pc = "wait" /\ request[r].polled
    => request[r].waited < MaxWait[ClassOf[r]]

(* The background keeps out of the reserve. *)
BackgroundFits == BackgroundUsed <= ClassCeiling("background")

BudgetInv == BudgetTypeOK /\ WaitsBounded /\ WaitsOn /\ BackgroundFits

(* The constants, fact by fact.                                             *)
LEMMA BudgetBounds ==
  /\ \A r \in Requests : ClassOf[r] \in Classes /\ WeightOf[r] \in Nat
                         /\ MaxWait[ClassOf[r]] \in Nat
  /\ HardCeiling \in Nat /\ SoftCeiling \in Nat /\ Headroom \in Nat /\ BackgroundCap \in Nat
  /\ MaxRefused \in Nat /\ WindowTicks \in Nat /\ WindowTicks # 0
  /\ \A c \in Classes : MaxWait[c] \in Nat /\ BreakerMax[c] \in Nat
  /\ \A x \in Extras \cup RetryAfter \cup {0} : x \in Nat
BY BudgetConstants

(* The requests and the window, one at a time.                              *)
LEMMA BudgetFields ==
  ASSUME BudgetTypeOK
  PROVE  /\ request \in [Requests -> ReqRec]
         /\ \A r \in Requests :
              request[r] \in ReqRec /\ request[r].waited \in Nat /\ request[r].polled \in BOOLEAN
              /\ request[r].pc \in {"idle", "wait", "sent"}
         /\ window \in [Parts -> [Ages -> Nat]]
         /\ breaker \in [Classes -> BreakerRec]
         /\ \A c \in Classes :
              breaker[c].left \in Nat /\ breaker[c].n \in Nat /\ breaker[c].left <= BreakerMax[c]
         /\ refused \in Nat /\ refused <= MaxRefused
BY BudgetBounds DEF BudgetTypeOK, ReqRec, BreakerRec

-----------------------------------------------------------------------------
(* The window.                                                              *)

(* What a part has used of the window is a total of SetLemmas.              *)
LEMMA UsedIsTotal ==
  ASSUME NEW part
  PROVE  /\ PartUsed(part) = Total(window[part], Ages)
         /\ PartUsed(part)' = Total(window'[part], Ages)
BY DEF PartUsed, MapThenSumSet, MapThenFoldSet, Total, Adds, Pick

(* The ages of the window are finitely many.                                *)
LEMMA AgesOK == IsFiniteSet(Ages) /\ 0 \in Ages /\ WindowTicks - 1 \in Nat
BY FS_Interval, BudgetBounds DEF Ages

(* A window of natural numbers has a natural sum. *)
LEMMA UsedNat ==
  ASSUME BudgetTypeOK
  PROVE  /\ BackgroundUsed \in Nat /\ RestUsed \in Nat
         /\ window' \in [Parts -> [Ages -> Nat]] => BackgroundUsed' \in Nat
<1>1. ASSUME NEW w \in [Parts -> [Ages -> Nat]], NEW p \in Parts PROVE Total(w[p], Ages) \in Nat
  <2>1. \A i \in Ages : w[p][i] \in Nat
    OBVIOUS
  <2> QED BY <2>1, AgesOK, TotalNat
<1>2. "background" \in Parts /\ "rest" \in Parts /\ window \in [Parts -> [Ages -> Nat]]
  BY BudgetFields DEF Parts
<1> QED BY <1>1, <1>2, UsedIsTotal DEF BackgroundUsed, RestUsed

(* What is weighed goes to its own part. *)
LEMMA AddedTo ==
  ASSUME BudgetTypeOK, NEW weight \in Nat, NEW c, Added(weight, c)
  PROVE  /\ window' \in [Parts -> [Ages -> Nat]]
         /\ c # "background" => BackgroundUsed' = BackgroundUsed
         /\ BackgroundUsed' <= BackgroundUsed + weight
<1> DEFINE p == IF c = "background" THEN c ELSE "rest"
<1>1. p \in Parts /\ (c # "background" => p = "rest")
  BY DEF Parts
<1>2. window' = [window EXCEPT ![p][0] = @ + weight]
  BY DEF Added
<1> HIDE DEF p
<1> DEFINE old == window[p]
           new == [old EXCEPT ![0] = @ + weight]
<1>3. window \in [Parts -> [Ages -> Nat]] /\ old \in [Ages -> Nat] /\ 0 \in Ages
  BY <1>1, BudgetFields, AgesOK
<1>4. new \in [Ages -> Nat]
  BY <1>3
<1>5. window' = [window EXCEPT ![p] = new]
  BY <1>2
<1> HIDE DEF new
<1>6. window' \in [Parts -> [Ages -> Nat]]
  BY <1>3, <1>4, <1>5
<1>7. c # "background" => window'["background"] = window["background"]
  BY <1>1, <1>3, <1>5 DEF Parts
<1>8. c # "background" => BackgroundUsed' = BackgroundUsed
  BY <1>7, UsedIsTotal DEF BackgroundUsed
<1>9. ASSUME c = "background" PROVE BackgroundUsed' <= BackgroundUsed + weight
  <2>1. p = "background"
    BY <1>9 DEF p
  <2>2. window'["background"] = new
    BY <1>1, <1>3, <1>5, <2>1
  <2>3. Total(new, Ages) <= Total(old, Ages) + weight
    <3>1. \A y \in Ages : old[y] \in Nat /\ new[y] \in Nat
      BY <1>3, <1>4
    <3>2. \A y \in Ages \ {0} : new[y] <= old[y]
      BY <1>3, <3>1 DEF new
    <3>3. new[0] <= weight + old[0]
      BY <1>3, <3>1 DEF new
    <3>4. Ages \subseteq Ages \cup {0}
      OBVIOUS
    <3> HIDE DEF old
    <3> QED BY <1>3, <3>1, <3>2, <3>3, <3>4, AgesOK, TotalGrows
  <2> QED BY <2>1, <2>2, <2>3, UsedIsTotal DEF BackgroundUsed
<1>10. BackgroundUsed \in Nat
  BY UsedNat
<1> QED BY <1>6, <1>8, <1>9, <1>10

(* The window gets emptier as time passes. *)
LEMMA WindowMoves ==
  ASSUME BudgetTypeOK, BudgetTick
  PROVE  /\ window' \in [Parts -> [Ages -> Nat]]
         /\ BackgroundUsed' <= BackgroundUsed
<1>1. window' = [p \in Parts |-> [i \in Ages |-> IF i = 0 THEN 0 ELSE window[p][i - 1]]]
  BY DEF BudgetTick
<1>2. /\ window \in [Parts -> [Ages -> Nat]] /\ IsFiniteSet(Ages)
      /\ WindowTicks - 1 \in Nat /\ 0 \in Ages
  BY BudgetFields, AgesOK
<1>3. \A i \in Ages : i = 0 \/ i - 1 \in Ages
  BY BudgetBounds DEF Ages
<1>4. window' \in [Parts -> [Ages -> Nat]]
  BY <1>1, <1>2, <1>3
<1> DEFINE w == window["background"]
           v == window'["background"]
           n == WindowTicks - 1
<1>5. w \in [Ages -> Nat] /\ v = [i \in Ages |-> IF i = 0 THEN 0 ELSE w[i - 1]]
  BY <1>1, <1>2 DEF Parts
<1>6. n \in Nat /\ Ages = 0 .. n
  BY <1>2 DEF Ages
<1>7. Total(v, 0 .. n) = Total(w, 0 .. n - 1)
  <2>1. \A i \in 0 .. n : w[i] \in Int
    BY <1>5, <1>6
  <2>2. v[0] = 0 /\ \A i \in 1 .. n : v[i] = w[i - 1]
    BY <1>2, <1>5, <1>6
  <2> HIDE DEF w, v, n
  <2> QED BY <1>6, <2>1, <2>2, TotalShift
<1>8. Total(w, 0 .. n - 1) <= Total(w, 0 .. n)
  <2>1. \A i \in 0 .. n : w[i] \in Nat
    BY <1>5, <1>6
  <2>2. 0 .. n - 1 \subseteq 0 .. n /\ \A i \in 0 .. n - 1 : w[i] \in Nat /\ w[i] <= w[i]
    BY <1>6, <2>1
  <2> HIDE DEF w, n
  <2> QED BY <1>2, <1>6, <2>1, <2>2, TotalLess
<1> QED BY <1>4, <1>6, <1>7, <1>8, UsedIsTotal DEF BackgroundUsed

(* The background's ceiling leaves the headroom (client.py:170).            *)
LEMMA CeilingIs ==
  /\ ClassCeiling("background") \in Nat
  /\ Headroom <= SoftCeiling => ClassCeiling("background") <= SoftCeiling - Headroom
<1> DEFINE s == Smaller(SoftCeiling - Headroom, BackgroundCap)
<1>1. s \in Int /\ s <= SoftCeiling - Headroom
  BY BudgetBounds DEF Smaller
<1>2. ClassCeiling("background") = Max({0, s})
  BY DEF ClassCeiling
<1> HIDE DEF s
<1>3. Max({0, s}) \in {0, s} /\ Max({0, s}) >= 0 /\ Max({0, s}) >= s
  <2>1. \E x \in {0, s} : \A y \in {0, s} : x >= y
    BY <1>1
  <2> QED BY <2>1 DEF Max
<1> QED BY <1>1, <1>2, <1>3, BudgetBounds

-----------------------------------------------------------------------------
(* One request moves.                                                       *)
MayWait(r, x) ==
  ClassOf[r] # "critical" =>
    /\ x.waited <= MaxWait[ClassOf[r]]
    /\ x.pc = "wait" /\ x.polled => x.waited < MaxWait[ClassOf[r]]

(* One request moves, and waits no longer than it may.                      *)
LEMMA RequestMoves ==
  ASSUME BudgetTypeOK, WaitsBounded, WaitsOn, NEW r \in Requests, NEW x, x \in ReqRec,
         request' = [request EXCEPT ![r] = x], MayWait(r, x)
  PROVE  request' \in [Requests -> ReqRec] /\ WaitsBounded' /\ WaitsOn'
<1>1. request \in [Requests -> ReqRec]
  BY BudgetFields
<1>2. request' \in [Requests -> ReqRec] /\ \A s \in Requests : request'[s] = IF s = r THEN x ELSE request[s]
  BY <1>1
<1> QED BY <1>2 DEF WaitsBounded, WaitsOn, MayWait

(* A request that has ended waits for nothing.                              *)
LEMMA RequestEnded == EndedReq \in ReqRec /\ EndedReq.pc = "idle" /\ EndedReq.waited = 0
BY DEF EndedReq, ReqRec

(* The first state satisfies the invariant.                                 *)
LEMMA BudgetInitOK ==
  ASSUME BudgetInit
  PROVE  BudgetInv
<1>1. BudgetTypeOK
  BY BudgetBounds DEF BudgetInit, BudgetTypeOK, IdleReq, Parts, Ages
<1>2. WaitsBounded /\ WaitsOn
  BY BudgetBounds DEF BudgetInit, WaitsBounded, WaitsOn, IdleReq
<1>3. BackgroundUsed = 0
  <2>1. /\ window["background"] = [i \in Ages |-> 0]
    BY DEF BudgetInit, Parts
  <2> DEFINE w == [i \in Ages |-> 0]
  <2>2. Total(w, {}) = 0 /\ {} \subseteq Ages /\ IsFiniteSet({})
    BY TotalRule, FS_EmptySet
  <2>3. Total(w, Ages) = 0
    <3> DEFINE B == {T \in SUBSET Ages : Total(w, T) # 0}
    <3>1. SUFFICES ASSUME B # {} PROVE FALSE
      OBVIOUS
    <3>2. PICK T \in B : \A x \in T : T \ {x} \notin B
      BY <3>1, AgesOK, LeastMember
    <3>3. IsFiniteSet(T) /\ T \in SUBSET Ages /\ Total(w, T) # 0
      BY <3>2, AgesOK, FS_Subset
    <3>4. T # {} /\ Total(w, T) = w[Pick(T)] + Total(w, T \ {Pick(T)})
      BY <2>2, <3>3, TotalRule
    <3>5. Pick(T) \in T
      BY <3>4, PickIn
    <3>6. Total(w, T \ {Pick(T)}) = 0
      BY <3>2, <3>3, <3>5
    <3>7. w[Pick(T)] = 0
      BY <3>3, <3>5
    <3> QED BY <3>3, <3>4, <3>6, <3>7
  <2> QED BY <2>1, <2>3, UsedIsTotal DEF BackgroundUsed
<1> QED BY <1>1, <1>2, <1>3, CeilingIs DEF BudgetInv, BackgroundFits

(* The use of a window that stays.                                          *)
LEMMA WindowStays ==
  ASSUME UNCHANGED window
  PROVE  BackgroundUsed' = BackgroundUsed
BY UsedIsTotal DEF BackgroundUsed

(* A request comes.                                                         *)
LEMMA AcquireOK ==
  ASSUME BudgetInv, NEW r \in Requests, Acquire(r)
  PROVE  BudgetInv'
<1>1. BudgetTypeOK /\ WaitsBounded /\ WaitsOn /\ BackgroundFits
  BY DEF BudgetInv
<1>2. request' = [request EXCEPT ![r] = [IdleReq EXCEPT !.pc = "wait"]] /\ UNCHANGED <<window, breaker, refused>>
  BY DEF Acquire
<1> DEFINE x == [IdleReq EXCEPT !.pc = "wait"]
<1>3. x \in ReqRec /\ x.waited = 0 /\ x.polled = FALSE
  BY DEF IdleReq, ReqRec
<1> HIDE DEF x
<1>4. request' \in [Requests -> ReqRec] /\ WaitsBounded' /\ WaitsOn'
  <2>1. MayWait(r, x)
    BY <1>3, BudgetBounds DEF MayWait
  <2>2. request' = [request EXCEPT ![r] = x]
    BY <1>2 DEF x
  <2> QED BY <1>1, <1>3, <2>1, <2>2, RequestMoves
<1> QED BY <1>1, <1>2, <1>4, WindowStays DEF BudgetInv, BudgetTypeOK, ReqRec, BackgroundFits, ClassCeiling

(* A request is admitted: its weight is in the window.                      *)
LEMMA AdmitOK ==
  ASSUME BudgetInv, NEW r \in Requests, Admit(r)
  PROVE  BudgetInv'
<1>1. BudgetTypeOK /\ WaitsBounded /\ WaitsOn /\ BackgroundFits
  BY DEF BudgetInv
<1>2. /\ request' = [request EXCEPT ![r].pc = "sent", ![r].waited = 0]
      /\ Added(WeightOf[r], ClassOf[r]) /\ UNCHANGED <<breaker, refused>>
      /\ Fits(r) \/ PastCeiling(r)
  BY DEF Admit
<1> DEFINE x == [request[r] EXCEPT !.pc = "sent", !.waited = 0]
<1>3. request[r] \in ReqRec /\ request \in [Requests -> ReqRec]
  BY <1>1, BudgetFields
<1>4. x \in ReqRec /\ x.waited = 0 /\ x.pc = "sent"
  BY <1>3 DEF ReqRec
<1>5. request' = [request EXCEPT ![r] = x]
  BY <1>2, <1>3
<1> HIDE DEF x
<1>6. request' \in [Requests -> ReqRec] /\ WaitsBounded' /\ WaitsOn'
  <2>1. MayWait(r, x)
    BY <1>4, BudgetBounds DEF MayWait
  <2> QED BY <1>1, <1>4, <1>5, <2>1, RequestMoves
<1>7. /\ window' \in [Parts -> [Ages -> Nat]]
      /\ ClassOf[r] # "background" => BackgroundUsed' = BackgroundUsed
      /\ BackgroundUsed' <= BackgroundUsed + WeightOf[r]
  BY <1>1, <1>2, BudgetBounds, AddedTo
<1>8. BudgetTypeOK'
  BY <1>1, <1>2, <1>6, <1>7 DEF BudgetTypeOK, ReqRec
<1>9. BackgroundUsed \in Nat /\ RestUsed \in Nat /\ BackgroundUsed' \in Nat
  BY <1>1, <1>7, UsedNat
<1>10. BackgroundUsed' <= ClassCeiling("background")
  <2>1. CASE ClassOf[r] # "background"
    BY <1>1, <1>7, <2>1 DEF BackgroundFits
  <2>2. CASE ClassOf[r] = "background"
    <3>1. BackgroundUsed + RestUsed + WeightOf[r] <= ClassCeiling("background")
      BY <1>2, <2>2 DEF Fits, PastCeiling, Used
    <3> QED BY <1>7, <1>9, <3>1, CeilingIs, BudgetBounds
  <2> QED BY <2>1, <2>2
<1> QED BY <1>6, <1>8, <1>10 DEF BudgetInv, BackgroundFits, ClassCeiling

(* A request is shed.                                                       *)
LEMMA ShedOK ==
  ASSUME BudgetInv, NEW r \in Requests, request' = [request EXCEPT ![r] = EndedReq]
  PROVE  request' \in [Requests -> ReqRec] /\ WaitsBounded' /\ WaitsOn'
<1>1. MayWait(r, EndedReq)
  BY RequestEnded, BudgetBounds DEF MayWait
<1>2. BudgetTypeOK /\ WaitsBounded /\ WaitsOn
  BY DEF BudgetInv
<1> QED BY <1>1, <1>2, RequestEnded, RequestMoves

(* A request that polled and waits on is before its deadline.               *)
LEMMA KeepWaitingOK ==
  ASSUME BudgetInv, NEW r \in Requests, KeepWaiting(r)
  PROVE  BudgetInv'
<1>1. BudgetTypeOK /\ WaitsBounded /\ WaitsOn /\ BackgroundFits
  BY DEF BudgetInv
<1>2. /\ request' = [request EXCEPT ![r].polled = TRUE] /\ UNCHANGED <<window, breaker, refused>>
      /\ IF BreakerOpen(r) THEN ~Hopeless(r) ELSE ~Fits(r) /\ ~PastCeiling(r) /\ ~ShedFull(r)
  BY DEF KeepWaiting
<1> DEFINE x == [request[r] EXCEPT !.polled = TRUE]
<1>3. request[r] \in ReqRec /\ request \in [Requests -> ReqRec] /\ request[r].waited \in Nat
      /\ ClassOf[r] \in Classes /\ breaker[ClassOf[r]].left \in Nat /\ MaxWait[ClassOf[r]] \in Nat
  BY <1>1, BudgetFields, BudgetBounds
<1>4. x \in ReqRec /\ x.waited = request[r].waited
  BY <1>3 DEF ReqRec
<1>5. request' = [request EXCEPT ![r] = x]
  BY <1>2, <1>3
<1> HIDE DEF x
<1>6. ASSUME ClassOf[r] # "critical" PROVE request[r].waited < MaxWait[ClassOf[r]]
  <2>1. CASE BreakerOpen(r)
    BY <1>2, <1>3, <1>6, <2>1 DEF BreakerOpen, Hopeless, Classes
  <2>2. CASE ~BreakerOpen(r)
    BY <1>2, <1>3, <1>6, <2>2 DEF ShedFull, Overdue
  <2> QED BY <2>1, <2>2
<1>7. request' \in [Requests -> ReqRec] /\ WaitsBounded' /\ WaitsOn'
  <2>1. MayWait(r, x)
    BY <1>3, <1>4, <1>6 DEF MayWait
  <2> QED BY <1>1, <1>4, <1>5, <2>1, RequestMoves
<1> QED BY <1>1, <1>2, <1>7, WindowStays DEF BudgetInv, BudgetTypeOK, ReqRec, BackgroundFits, ClassCeiling

(* An answer, and the weight known only then.                               *)
LEMMA AnsweredOK ==
  ASSUME BudgetInv, NEW r \in Requests, Answered(r)
  PROVE  BudgetInv'
<1>1. BudgetTypeOK /\ BackgroundFits
  BY DEF BudgetInv
<1>2. /\ request' = [request EXCEPT ![r] = EndedReq] /\ UNCHANGED refused
      /\ breaker' = [breaker EXCEPT ![ClassOf[r]].n = 0]
  BY DEF Answered
<1>3. PICK ex \in Extras \cup {0} : Added(ex, "extra")
  BY DEF Answered
<1>4. request' \in [Requests -> ReqRec] /\ WaitsBounded' /\ WaitsOn'
  BY <1>2, ShedOK
<1>5. ex \in Nat
  BY BudgetBounds
<1>6. window' \in [Parts -> [Ages -> Nat]] /\ BackgroundUsed' = BackgroundUsed
  BY <1>1, <1>3, <1>5, AddedTo
<1>7. breaker' \in [Classes -> BreakerRec] /\ \A c \in Classes : breaker'[c].left = breaker[c].left
  <2>1. breaker \in [Classes -> BreakerRec]
    BY <1>1, BudgetFields
  <2> QED BY <1>2, <2>1, BudgetBounds DEF BreakerRec
<1> QED BY <1>1, <1>2, <1>4, <1>6, <1>7 DEF BudgetInv, BudgetTypeOK, ReqRec, BreakerRec, BackgroundFits,
                                              ClassCeiling

(* A breaker stays open no longer than its class allows. *)
LEMMA OpenedOK ==
  ASSUME NEW b \in BreakerRec, NEW c \in Classes, b.left <= BreakerMax[c], NEW after \in Nat
  PROVE  Opened(b, c, after) \in BreakerRec /\ Opened(b, c, after).left <= BreakerMax[c]
<1>1. b.left \in Nat /\ b.n \in Nat /\ BreakerMax[c] \in Nat
  BY BudgetBounds DEF BreakerRec
<1> DEFINE n == Smaller(b.n + 1, BreakerMax[c] + 1)
           told == IF after # 0 THEN after ELSE 2 ^ (n - 1)
           for == Smaller(told, BreakerMax[c])
           left == IF for > b.left THEN for ELSE b.left
<1>2. n \in Nat /\ n - 1 \in Nat
  BY <1>1 DEF Smaller
<1>3. told \in Int
  <2> HIDE DEF n
  <2>1. 2 ^ (n - 1) \in Int
    BY <1>2
  <2> QED BY <2>1
<1> HIDE DEF told
<1>4. for \in Int /\ for <= BreakerMax[c]
  BY <1>1, <1>3 DEF Smaller
<1> HIDE DEF for, n
<1>5. left \in Nat /\ left <= BreakerMax[c]
  BY <1>1, <1>4
<1>6. Opened(b, c, after) = [left |-> left, n |-> n]
  BY DEF Opened, told, for, n
<1> HIDE DEF left
<1> QED BY <1>2, <1>5, <1>6 DEF BreakerRec

(* The venue refuses, and breakers open.                                    *)
LEMMA RefusedOK ==
  ASSUME BudgetInv, NEW r \in Requests, Refused(r)
  PROVE  BudgetInv'
<1>1. BudgetTypeOK /\ BackgroundFits
  BY DEF BudgetInv
<1>2. /\ request' = [request EXCEPT ![r] = EndedReq] /\ UNCHANGED window
      /\ refused < MaxRefused /\ refused' = refused + 1
  BY DEF Refused
<1>3. PICK after \in RetryAfter \cup {0} :
        breaker' = [c \in Classes |->
          IF c \in Below(ClassOf[r]) THEN Opened(breaker[c], c, after) ELSE breaker[c]]
  BY DEF Refused
<1>4. request' \in [Requests -> ReqRec] /\ WaitsBounded' /\ WaitsOn'
  BY <1>2, ShedOK
<1>5. ASSUME NEW c \in Classes PROVE breaker'[c] \in BreakerRec /\ breaker'[c].left <= BreakerMax[c]
  <2>1. after \in Nat /\ breaker[c] \in BreakerRec /\ breaker[c].left <= BreakerMax[c]
    BY <1>1, BudgetFields, BudgetBounds
  <2>2. Opened(breaker[c], c, after) \in BreakerRec /\ Opened(breaker[c], c, after).left <= BreakerMax[c]
    BY <2>1, OpenedOK
  <2>3. breaker'[c] = IF c \in Below(ClassOf[r]) THEN Opened(breaker[c], c, after) ELSE breaker[c]
    BY <1>3
  <2> QED BY <2>1, <2>2, <2>3
<1>6. breaker' \in [Classes -> BreakerRec]
  BY <1>3, <1>5
<1>7. refused' \in 0 .. MaxRefused
  BY <1>1, <1>2, BudgetFields, BudgetBounds
<1> QED BY <1>1, <1>2, <1>4, <1>5, <1>6, <1>7, WindowStays
           DEF BudgetInv, BudgetTypeOK, ReqRec, BreakerRec, BackgroundFits, ClassCeiling

(* A request dies unanswered.                                               *)
LEMMA EndsOK ==
  ASSUME BudgetInv, NEW r \in Requests, Shed(r) \/ Lost(r)
  PROVE  BudgetInv'
<1>1. /\ request' = [request EXCEPT ![r] = EndedReq] /\ UNCHANGED <<window, breaker, refused>>
      /\ BudgetTypeOK /\ BackgroundFits
  BY DEF Shed, Lost, BudgetInv
<1>2. request' \in [Requests -> ReqRec] /\ WaitsBounded' /\ WaitsOn'
  BY <1>1, ShedOK
<1> QED BY <1>1, <1>2, WindowStays DEF BudgetInv, BudgetTypeOK, ReqRec, BackgroundFits, ClassCeiling

(* Time: the window loses its oldest weights, requests wait longer.         *)
LEMMA BudgetTickOK ==
  ASSUME BudgetInv, BudgetTick
  PROVE  BudgetInv'
<1>1. /\ BudgetTypeOK /\ WaitsBounded /\ WaitsOn /\ BackgroundFits /\ UNCHANGED refused
      /\ \A r \in Requests : request[r].pc = "wait" => request[r].polled
      /\ breaker' = [c \in Classes |-> [breaker[c] EXCEPT !.left = IF @ = 0 THEN 0 ELSE @ - 1]]
      /\ request' = [r \in Requests |-> IF request[r].pc # "wait" THEN [request[r] EXCEPT !.polled = FALSE]
           ELSE [request[r] EXCEPT !.polled = FALSE, !.waited = Smaller(@, MaxWait[ClassOf[r]]) + 1]]
  BY DEF BudgetInv, BudgetTick
<1>2. ASSUME NEW r \in Requests
      PROVE  /\ request'[r] \in ReqRec /\ request'[r].polled = FALSE
             /\ ClassOf[r] # "critical" => request'[r].waited <= MaxWait[ClassOf[r]]
  <2> DEFINE x == request[r]
             m == MaxWait[ClassOf[r]]
             y == [x EXCEPT !.polled = FALSE]
             z == [x EXCEPT !.polled = FALSE, !.waited = Smaller(@, m) + 1]
  <2>1. x \in ReqRec /\ x.waited \in Nat /\ m \in Nat
    BY <1>1, BudgetFields, BudgetBounds
  <2>2. request'[r] = IF x.pc # "wait" THEN y ELSE z
    BY <1>1
  <2>3. y \in ReqRec /\ y.polled = FALSE /\ y.waited = x.waited
    BY <2>1 DEF ReqRec
  <2>4. z \in ReqRec /\ z.polled = FALSE /\ z.waited = Smaller(x.waited, m) + 1
    <3>1. Smaller(x.waited, m) + 1 \in Nat
      BY <2>1 DEF Smaller
    <3> QED BY <2>1, <3>1 DEF ReqRec
  <2>5. ClassOf[r] # "critical" => x.waited <= m /\ (x.pc = "wait" => x.waited < m)
    BY <1>1 DEF WaitsBounded, WaitsOn
  <2>6. x.waited < m => Smaller(x.waited, m) + 1 <= m
    BY <2>1 DEF Smaller
  <2> HIDE DEF x, y, z, m
  <2>7. /\ request'[r] \in ReqRec /\ request'[r].polled = FALSE
        /\ ClassOf[r] # "critical" => request'[r].waited <= m
    BY <2>2, <2>3, <2>4, <2>5, <2>6
  <2> QED BY <2>7 DEF m
<1>3. request' \in [Requests -> ReqRec]
  BY <1>1, <1>2
<1>4. WaitsBounded' /\ WaitsOn'
  BY <1>2 DEF WaitsBounded, WaitsOn
<1>5. ASSUME NEW c \in Classes PROVE breaker'[c] \in BreakerRec /\ breaker'[c].left <= BreakerMax[c]
  <2>1. breaker[c] \in BreakerRec /\ breaker[c].left \in Nat /\ breaker[c].left <= BreakerMax[c]
        /\ BreakerMax[c] \in Nat
    BY <1>1, BudgetFields, BudgetBounds
  <2> DEFINE l == IF breaker[c].left = 0 THEN 0 ELSE breaker[c].left - 1
  <2>2. l \in Nat /\ l <= BreakerMax[c]
    BY <2>1
  <2>3. breaker'[c] = [breaker[c] EXCEPT !.left = l]
    BY <1>1
  <2> HIDE DEF l
  <2> QED BY <2>1, <2>2, <2>3 DEF BreakerRec
<1>6. breaker' \in [Classes -> BreakerRec]
  BY <1>1, <1>5
<1>7. window' \in [Parts -> [Ages -> Nat]] /\ BackgroundUsed' <= BackgroundUsed
  BY <1>1, WindowMoves
<1>8. BudgetTypeOK'
  BY <1>1, <1>3, <1>5, <1>6, <1>7 DEF BudgetTypeOK, ReqRec, BreakerRec
<1>9. BackgroundUsed \in Nat /\ BackgroundUsed' \in Nat
  BY <1>1, <1>7, UsedNat
<1>10. BackgroundUsed' <= ClassCeiling("background")
  <2>1. BackgroundUsed <= ClassCeiling("background")
    BY <1>1 DEF BackgroundFits
  <2> QED BY <1>7, <1>9, <2>1, CeilingIs
<1> QED BY <1>4, <1>8, <1>10 DEF BudgetInv, BackgroundFits, ClassCeiling

(* Every step keeps the invariant.                                          *)
LEMMA BudgetStep ==
  ASSUME BudgetInv, [BudgetNext]_budgetVars
  PROVE  BudgetInv'
<1>1. CASE UNCHANGED budgetVars
  <2>1. UNCHANGED <<request, window, breaker, refused>>
    BY <1>1 DEF budgetVars
  <2> QED BY <2>1, WindowStays
         DEF BudgetInv, BudgetTypeOK, WaitsBounded, WaitsOn, BackgroundFits, ClassCeiling
<1>2. CASE BudgetTick
  BY <1>2, BudgetTickOK
<1>3. ASSUME NEW r \in Requests, Acquire(r) \/ Poll(r) \/ Answered(r) \/ Refused(r) \/ Lost(r)
      PROVE  BudgetInv'
  BY <1>3, AcquireOK, AdmitOK, KeepWaitingOK, EndsOK, AnsweredOK, RefusedOK DEF Poll
<1> QED BY <1>1, <1>2, <1>3 DEF BudgetNext

(* Only critical requests ever wait past the deadline of their class, whatever *)
(* the classes, the weights and the Retry-After of the venue: one that polls   *)
(* an open breaker leaves as soon as it cannot outlive it (client.py           *)
(* _acquire_inner).                                                            *)
THEOREM DeadlinesHold == BudgetSpec => []WaitsBounded
<1>1. BudgetInv => WaitsBounded
  BY DEF BudgetInv
<1> QED BY BudgetInitOK, BudgetStep, <1>1, PTL DEF BudgetSpec

(* The types of the client hold: no breaker stays open longer than its class *)
(* allows, for any Retry-After.                                              *)
THEOREM BudgetTyped == BudgetSpec => []BudgetTypeOK
<1>1. BudgetInv => BudgetTypeOK
  BY DEF BudgetInv
<1> QED BY BudgetInitOK, BudgetStep, <1>1, PTL DEF BudgetSpec

(* An explorer request is shed for want of room only when it would not fit in *)
(* the headroom beside what is not the background's, provided that the soft   *)
(* ceiling has room for a headroom (client.py _class_ceiling).                *)
THEOREM ReserveIsKept ==
  ASSUME Headroom <= SoftCeiling
  PROVE  BudgetSpec => ExplorerHasRoom
<1> DEFINE Room(r) == ClassOf[r] = "explorer" /\ request[r].pc = "wait" /\ request'[r].pc = "idle"
                        => BreakerOpen(r) \/ RestUsed + WeightOf[r] > Headroom
<1>1. ASSUME BudgetInv, BudgetNext, NEW r \in Requests, ClassOf[r] = "explorer", request[r].pc = "wait",
             request'[r].pc = "idle", ~BreakerOpen(r)
      PROVE  RestUsed + WeightOf[r] > Headroom
  <2>1. BudgetTypeOK /\ BackgroundFits
    BY <1>1 DEF BudgetInv
  <2>2. request \in [Requests -> ReqRec] /\ \A s \in Requests : request[s] \in ReqRec
    BY <2>1, BudgetFields
  <2>3. ~BudgetTick
    BY <1>1, <2>2 DEF BudgetTick, ReqRec
  <2>4. PICK s \in Requests : Acquire(s) \/ Poll(s) \/ Answered(s) \/ Refused(s) \/ Lost(s)
    BY <1>1, <2>3 DEF BudgetNext
  <2>5. s = r
    BY <1>1, <2>2, <2>4 DEF Acquire, Poll, Admit, Shed, KeepWaiting, Answered, Refused, Lost, ReqRec
  <2>6. ~ (Acquire(r) \/ Answered(r) \/ Refused(r) \/ Lost(r))
    BY <1>1, <2>2 DEF Acquire, Answered, Refused, Lost, IdleReq, ReqRec
  <2>7. ~ (Admit(r) \/ KeepWaiting(r))
    <3>1. ASSUME Admit(r) PROVE FALSE
      <4>1. request'[r].pc = "sent"
        BY <2>2, <3>1 DEF Admit, ReqRec
      <4> QED BY <1>1, <4>1
    <3>2. ASSUME KeepWaiting(r) PROVE FALSE
      <4>1. request'[r].pc = request[r].pc
        BY <2>2, <3>2 DEF KeepWaiting, ReqRec
      <4> QED BY <1>1, <4>1
    <3> QED BY <3>1, <3>2
  <2>8. ~Fits(r)
    BY <1>1, <2>4, <2>5, <2>6, <2>7 DEF Poll, Shed, ShedFull
  <2>9. ClassCeiling("explorer") = SoftCeiling
    BY DEF ClassCeiling
  <2>10. BackgroundUsed \in Nat /\ RestUsed \in Nat /\ BackgroundUsed <= ClassCeiling("background")
    BY <2>1, UsedNat DEF BackgroundFits
  <2>11. ~ (BackgroundUsed + RestUsed + WeightOf[r] <= SoftCeiling)
    BY <1>1, <2>8, <2>9 DEF Fits, Used
  <2> QED BY <2>10, <2>11, CeilingIs, BudgetBounds
<1>2. ASSUME BudgetInv, [BudgetNext]_budgetVars
      PROVE  [\A r \in Requests : Room(r)]_budgetVars
  BY <1>1, <1>2
<1>3. BudgetSpec => []BudgetInv
  BY BudgetInitOK, BudgetStep, PTL DEF BudgetSpec
<1> QED BY <1>2, <1>3, PTL DEF BudgetSpec, ExplorerHasRoom

(*****************************************************************************)
(* The trades feed, for any positions, trades, buffer and reads.             *)
(*****************************************************************************)

(* How many of the trades made have come to the feed; the later of two times. *)
Got == Now - Len(stream.queue)
Latest(a, b) == IF a < b THEN b ELSE a

(* The queue holds the last trades, one after the other. *)
QueueFits ==
  IF stream.st = "subscribed"
  THEN Len(stream.queue) <= Now /\ \A i \in 1 .. Len(stream.queue) : stream.queue[i] = Got + i
  ELSE stream.queue = <<>>

(* The size known is that of the last trade counted in it. *)
SizeFits ==
  szi.known /\ "sizes" \notin blur /\ posRead.pc \in {"idle", "writing"} =>
    /\ stream.st = "up" => szi.size = HeldAt(szi.ms)
    /\ stream.st = "subscribed" => szi.size = HeldAt(Latest(szi.ms, Got))

(* So will be the size that the read under way takes over. *)
ReadFits ==
  posRead.pc = "answered" /\ "read" \notin blur =>
    /\ stream.st = "up" => \A i \in 1 .. Len(posBuf) : posBuf[i] <= posRead.ms
    /\ stream.st = "subscribed" /\ Now - posRead.ms <= BufTrades =>
         SizeAfter(posRead.ms, Len(posBuf)) = HeldAt(Latest(posRead.ms, Got))

(* The state shown last, the ends in it and those in a close under way. *)
ShownFits ==
  /\ IF featSzi.known THEN featSzi.size = HeldAt(shown.ms) ELSE shown.ms = 0
  /\ posRead.pc = "answered" => shown.ms <= posRead.ms
  /\ shown.ended <= Ended(shown.ms)
  /\ closing.pc = "read" => shown.ended <= Ended(closing.upTo) \/ shown.ended <= forgiven

TradesInv == TradesTypeOK /\ QueueFits /\ SizeFits /\ ReadFits /\ ShownFits /\ EndsAreClosed

-----------------------------------------------------------------------------
(* What is kept of the buffer: the fold, one trade at a time. *)
Keeps(g, s, from, S) ==
  g = [T \in SUBSET S |-> IF T = {} THEN <<>>
                          ELSE IF s[Max(T)] >= from THEN Append(g[T \ {Max(T)}], s[Max(T)])
                               ELSE g[T \ {Max(T)}]]

(* The fold keeps what is not too old. *)
LEMMA KeptIs ==
  ASSUME NEW s, NEW from
  PROVE  Kept(s, from) = (CHOOSE g : Keeps(g, s, from, DOMAIN s))[DOMAIN s]
BY DEF Kept, FoldLeft, MapThenFoldSet, Keeps

(* The greatest of a set of numbers is in it. *)
LEMMA TopIn ==
  ASSUME NEW n \in Nat, NEW T \in SUBSET (1 .. n), T # {}
  PROVE  Max(T) \in T
<1>1. T \in SUBSET (0 .. n)
  OBVIOUS
<1> QED BY <1>1, GreatestOf

(* The sets of places in a sequence. *)
Places(n) == SUBSET (1 .. n)

(* Two such folds agree on the sets both know, ... *)
LEMMA KeepsAgree ==
  ASSUME NEW n \in Nat, NEW S \in Places(n), NEW U \in Places(n), NEW s, NEW from, NEW g, NEW h,
         Keeps(g, s, from, S), Keeps(h, s, from, U)
  PROVE  \A T \in SUBSET (S \cap U) : g[T] = h[T]
<1> DEFINE B == {T \in SUBSET (S \cap U) : g[T] # h[T]}
<1>1. SUFFICES ASSUME B # {} PROVE FALSE
  OBVIOUS
<1>2. PICK T \in B : \A x \in T : T \ {x} \notin B
  <2>1. IsFiniteSet(S \cap U)
    <3>1. 1 \in Int /\ n \in Int /\ S \cap U \in SUBSET (1 .. n)
      BY DEF Places
    <3>2. IsFiniteSet(1 .. n)
      BY <3>1, FS_Interval
    <3> QED BY <3>1, <3>2, FS_Subset
  <2> QED BY <1>1, <2>1, LeastMember
<1> DEFINE m == Max(T)
<1>3. T \in SUBSET U /\ T \in SUBSET S /\ T \in SUBSET (1 .. n) /\ g[T] # h[T]
  BY <1>2 DEF Places
<1>4. /\ g[T] = IF T = {} THEN <<>> ELSE IF s[m] >= from THEN Append(g[T \ {m}], s[m]) ELSE g[T \ {m}]
      /\ h[T] = IF T = {} THEN <<>> ELSE IF s[m] >= from THEN Append(h[T \ {m}], s[m]) ELSE h[T \ {m}]
  BY <1>3 DEF Keeps
<1>5. T # {} => m \in T
  BY <1>3, TopIn
<1> HIDE DEF m
<1>6. CASE T # {}
  <2>1. T \ {m} \notin B /\ T \ {m} \in SUBSET (S \cap U)
    BY <1>2, <1>3, <1>5, <1>6
  <2>2. g[T \ {m}] = h[T \ {m}]
    BY <2>1
  <2> QED BY <1>3, <1>4, <1>6, <2>2
<1> QED BY <1>3, <1>4, <1>6

(* ... and every buffer has one. *)
LEMMA KeepsExists ==
  ASSUME NEW n \in Nat, NEW s, NEW from
  PROVE  \E g : Keeps(g, s, from, 1 .. n)
<1> DEFINE B == {T \in SUBSET (1 .. n) : ~ \E g : Keeps(g, s, from, T)}
<1>1. SUFFICES ASSUME B # {} PROVE FALSE
  OBVIOUS
<1>2. PICK M \in B : \A x \in M : M \ {x} \notin B
  <2>1. 1 \in Int /\ n \in Int
    OBVIOUS
  <2>2. IsFiniteSet(1 .. n)
    BY <2>1, FS_Interval
  <2> QED BY <1>1, <2>2, LeastMember
<1>3. M \in SUBSET (1 .. n)
  BY <1>2
<1> DEFINE part(x) == CHOOSE g : Keeps(g, s, from, M \ {x})
           out(T) == CHOOSE x \in M : x \notin T
           rest(T) == part(out(T))[T]
           g == [T \in SUBSET M |-> IF T = {} THEN <<>>
                   ELSE IF s[Max(T)] >= from THEN Append(rest(T \ {Max(T)}), s[Max(T)])
                        ELSE rest(T \ {Max(T)})]
<1>4. ASSUME NEW x \in M PROVE Keeps(part(x), s, from, M \ {x}) /\ M \ {x} \in Places(n)
  <2>1. \E h : Keeps(h, s, from, M \ {x})
    BY <1>2, <1>3
  <2> QED BY <1>3, <2>1 DEF Places
<1>5. ASSUME NEW T \in SUBSET M, T # M
      PROVE  rest(T) = IF T = {} THEN <<>>
                       ELSE IF s[Max(T)] >= from THEN Append(rest(T \ {Max(T)}), s[Max(T)])
                            ELSE rest(T \ {Max(T)})
  <2>1. out(T) \in M /\ out(T) \notin T
    BY <1>5
  <2> DEFINE y == out(T)
             m == Max(T)
             V == T \ {m}
             z == out(V)
  <2>2. Keeps(part(y), s, from, M \ {y}) /\ T \in SUBSET (M \ {y})
    BY <1>4, <2>1
  <2>3. part(y)[T] = IF T = {} THEN <<>> ELSE IF s[m] >= from THEN Append(part(y)[V], s[m]) ELSE part(y)[V]
    BY <2>2 DEF Keeps
  <2>4. ASSUME T # {} PROVE part(y)[V] = part(z)[V]
    <3>1. z \in M /\ z \notin V
      BY <2>4, <1>3, TopIn
    <3>2. Keeps(part(z), s, from, M \ {z}) /\ M \ {z} \in Places(n)
      BY <1>4, <3>1
    <3>3. M \ {y} \in Places(n)
      BY <1>4, <2>1
    <3>4. V \in SUBSET ((M \ {y}) \cap (M \ {z}))
      BY <2>1, <3>1
    <3> HIDE DEF part, y, z, V
    <3>5. Keeps(part(y), s, from, M \ {y})
      BY <2>2
    <3> DEFINE a == part(y)
               c == part(z)
               A == M \ {y}
               C == M \ {z}
    <3>6. Keeps(a, s, from, A) /\ Keeps(c, s, from, C) /\ A \in Places(n) /\ C \in Places(n)
      BY <3>2, <3>3, <3>5
    <3> HIDE DEF a, c, A, C
    <3>7. \A W \in SUBSET (A \cap C) : a[W] = c[W]
      BY <3>6, KeepsAgree
    <3> QED BY <3>4, <3>7 DEF a, c, A, C
  <2> QED BY <2>3, <2>4
<1>6. \A T \in SUBSET M : T # M => g[T] = rest(T)
  BY <1>5
<1>7. Keeps(g, s, from, M)
  <2>1. ASSUME NEW T \in SUBSET M, T # {} PROVE g[T \ {Max(T)}] = rest(T \ {Max(T)})
    <3>1. T \ {Max(T)} \in SUBSET M /\ T \ {Max(T)} # M
      BY <2>1, <1>3, TopIn
    <3> HIDE DEF g, rest
    <3> QED BY <1>6, <3>1
  <2> HIDE DEF rest
  <2>2. g = [T \in SUBSET M |-> IF T = {} THEN <<>>
               ELSE IF s[Max(T)] >= from THEN Append(g[T \ {Max(T)}], s[Max(T)]) ELSE g[T \ {Max(T)}]]
    BY <2>1
  <2> HIDE DEF g
  <2> QED BY <2>2 DEF Keeps
<1> HIDE DEF g
<1> QED BY <1>2, <1>7

(* What is kept of the first k trades of the buffer.                        *)
Prefix(s, from, k) == (CHOOSE g : Keeps(g, s, from, 1 .. Len(s)))[1 .. k]

(* What is kept of one trade more of the buffer. *)
LEMMA PrefixRule ==
  ASSUME NEW s \in Seq(Int), NEW from
  PROVE  /\ Kept(s, from) = Prefix(s, from, Len(s)) /\ Prefix(s, from, 0) = <<>>
         /\ \A k \in 1 .. Len(s) :
              Prefix(s, from, k) = IF s[k] >= from THEN Append(Prefix(s, from, k - 1), s[k])
                                   ELSE Prefix(s, from, k - 1)
<1> DEFINE g == CHOOSE h : Keeps(h, s, from, 1 .. Len(s))
<1>1. Len(s) \in Nat /\ DOMAIN s = 1 .. Len(s)
  OBVIOUS
<1>2. Keeps(g, s, from, 1 .. Len(s))
  BY <1>1, KeepsExists
<1>3. Kept(s, from) = g[1 .. Len(s)] /\ \A k : Prefix(s, from, k) = g[1 .. k]
  BY <1>1, KeptIs DEF Prefix
<1> HIDE DEF g
<1>4. Prefix(s, from, 0) = <<>>
  <2>1. 1 .. 0 = {} /\ 1 .. 0 \in SUBSET (1 .. Len(s))
    OBVIOUS
  <2> QED BY <1>2, <1>3, <2>1 DEF Keeps
<1>5. ASSUME NEW k \in 1 .. Len(s)
      PROVE  Prefix(s, from, k) = IF s[k] >= from THEN Append(Prefix(s, from, k - 1), s[k])
                                  ELSE Prefix(s, from, k - 1)
  <2>1. 1 .. k \in SUBSET (1 .. Len(s)) /\ 1 .. k # {} /\ (1 .. k) \ {k} = 1 .. k - 1
    <3>1. k \in Nat /\ 1 <= k /\ k <= Len(s)
      BY <1>1
    <3>2. k \in 1 .. k
      BY <3>1
    <3>3. \A i : i \in 1 .. k => i \in 1 .. Len(s)
      BY <1>1, <3>1
    <3>4. \A i : i \in (1 .. k) \ {k} <=> i \in 1 .. k - 1
      BY <3>1
    <3> QED BY <3>2, <3>3, <3>4
  <2>2. Max(1 .. k) = k
    <3>1. k \in Nat /\ 1 .. k \in SUBSET (0 .. k) /\ k \in 1 .. k
      BY <1>1
    <3>2. Max(1 .. k) \in 1 .. k /\ k <= Max(1 .. k)
      BY <2>1, <3>1, GreatestOf
    <3> QED BY <3>1, <3>2
  <2>3. g[1 .. k] = IF s[k] >= from THEN Append(g[1 .. k - 1], s[k]) ELSE g[1 .. k - 1]
    BY <1>2, <2>1, <2>2 DEF Keeps
  <2> QED BY <1>3, <2>3
<1> QED BY <1>3, <1>4, <1>5

-----------------------------------------------------------------------------
(* What the trades of a buffer after a time add to the position.            *)
Gains(s, ms) == [j \in 1 .. Len(s) |-> IF s[j] > ms THEN Delta(s[j]) ELSE 0]
Gain(s, ms) == Total(Gains(s, ms), 1 .. Len(s))

(* The sum of a function is the one over its domain. *)
LEMMA SumFunctionIsTotal ==
  ASSUME NEW w
  PROVE  SumFunction(w) = Total(w, DOMAIN w)
BY DEF SumFunction, SumFunctionOnSet, FoldFunctionOnSet, MapThenFoldSet, Pick, Adds, Total

(* The size after a state is the state and what the buffer adds to it. *)
LEMMA SizeAfterIs ==
  ASSUME NEW ms
  PROVE  /\ SizeAfter(ms, Len(posBuf)) = HeldAt(ms) + Gain(posBuf, ms)
         /\ (SizeAfter(ms, Len(posBuf)) = HeldAt(ms) + Gain(posBuf, ms))'
<1>1. DOMAIN Gains(posBuf, ms) = 1 .. Len(posBuf) /\ (DOMAIN Gains(posBuf, ms) = 1 .. Len(posBuf))'
  BY DEF Gains
<1>2. /\ SizeAfter(ms, Len(posBuf)) = HeldAt(ms) + SumFunction(Gains(posBuf, ms))
      /\ (SizeAfter(ms, Len(posBuf)) = HeldAt(ms) + SumFunction(Gains(posBuf, ms)))'
  BY DEF SizeAfter, Gains, Replayed
<1> QED BY <1>1, <1>2, SumFunctionIsTotal DEF Gain

(* The elements of a sequence. *)
LEMMA ElementIn ==
  ASSUME NEW S, NEW s \in Seq(S)
  PROVE  \A j \in 1 .. Len(s) : s[j] \in S
OBVIOUS

(* A function on the first numbers is a sequence. *)
LEMMA FunctionIsSeq ==
  ASSUME NEW S, NEW n \in Nat, NEW s \in [1 .. n -> S]
  PROVE  s \in Seq(S) /\ Len(s) = n
OBVIOUS

(* The positions of the account are numbers. *)
LEMMA HeldInt ==
  ASSUME TradesTypeOK
  PROVE  /\ Now \in Nat /\ \A t \in 0 .. Now : HeldAt(t) \in Int
         /\ \A t \in 1 .. Now : Delta(t) \in Int /\ HeldAt(t) = HeldAt(t - 1) + Delta(t)
<1>1. Now \in Nat /\ Holdings \subseteq Int /\ \A t \in 1 .. Now : book[t] \in Int
  <2>1. book \in Seq(Holdings) /\ Holdings \subseteq Int
    BY TradesConstants DEF TradesTypeOK
  <2>2. Len(book) \in Nat /\ \A t \in 1 .. Len(book) : book[t] \in Holdings
    BY <2>1
  <2> QED BY <2>1, <2>2 DEF Now
<1>2. \A t \in 0 .. Now : HeldAt(t) \in Int
  BY <1>1 DEF HeldAt
<1>3. \A t \in 1 .. Now : t \in 0 .. Now /\ t - 1 \in 0 .. Now
  BY <1>1
<1>4. \A t \in 1 .. Now : Delta(t) \in Int /\ HeldAt(t) = HeldAt(t - 1) + Delta(t)
  BY <1>2, <1>3 DEF Delta
<1> QED BY <1>1, <1>2, <1>4

(* What the buffer adds is a number. *)
LEMMA GainTyped ==
  ASSUME TradesTypeOK, NEW ms \in Nat, NEW s \in Seq(1 .. Now)
  PROVE  /\ Gain(s, ms) \in Int /\ IsFiniteSet(1 .. Len(s)) /\ Len(s) \in Nat
         /\ \A j \in 1 .. Len(s) : Gains(s, ms)[j] \in Int /\ s[j] \in 1 .. Now /\ s[j] \in Nat
<1>1. Now \in Nat /\ \A t \in 1 .. Now : Delta(t) \in Int
  BY HeldInt
<1>2. Len(s) \in Nat /\ 1 \in Int /\ Len(s) \in Int /\ \A j \in 1 .. Len(s) : s[j] \in 1 .. Now
  <2>1. Len(s) \in Nat /\ 1 \in Int
    OBVIOUS
  <2>2. \A j \in 1 .. Len(s) : s[j] \in 1 .. Now
    BY ElementIn
  <2> QED BY <2>1, <2>2
<1>3. IsFiniteSet(1 .. Len(s))
  BY <1>2, FS_Interval
<1>4. \A j \in 1 .. Len(s) : s[j] \in Nat
  BY <1>1, <1>2
<1>5. \A j \in 1 .. Len(s) : Gains(s, ms)[j] \in Int
  BY <1>1, <1>2 DEF Gains
<1> QED BY <1>2, <1>3, <1>4, <1>5, TotalType DEF Gain

(* One more trade in the buffer. *)
LEMMA GainAppend ==
  ASSUME TradesTypeOK, NEW ms \in Nat, NEW s \in Seq(1 .. Now), NEW t \in 1 .. Now
  PROVE  Gain(Append(s, t), ms) = Gain(s, ms) + (IF t > ms THEN Delta(t) ELSE 0)
<1> DEFINE n == Len(s)
           w == Gains(Append(s, t), ms)
<1>1. Append(s, t) \in Seq(1 .. Now) /\ Len(Append(s, t)) = n + 1 /\ n \in Nat
  OBVIOUS
<1>2. \A j \in 1 .. n + 1 : w[j] \in Int
  BY <1>1, GainTyped
<1>3. IsFiniteSet(1 .. n + 1) /\ IsFiniteSet(1 .. n)
  BY <1>1, GainTyped
<1>4. n + 1 \in 1 .. n + 1 /\ (1 .. n + 1) \ {n + 1} = 1 .. n
  BY <1>1
<1>5. \A j \in 1 .. n : w[j] = Gains(s, ms)[j]
  BY <1>1 DEF Gains
<1>6. w[n + 1] = IF t > ms THEN Delta(t) ELSE 0
  BY <1>1 DEF Gains
<1> HIDE DEF w, n
<1>7. Total(w, 1 .. n + 1) = w[n + 1] + Total(w, 1 .. n)
  <2>1. Total(w, 1 .. n + 1) = w[n + 1] + Total(w, (1 .. n + 1) \ {n + 1})
    BY <1>2, <1>3, <1>4, TotalRemove
  <2> QED BY <1>4, <2>1
<1>8. Total(w, 1 .. n) = Total(Gains(s, ms), 1 .. n)
  BY <1>3, <1>5, TotalSame
<1>9. Total(w, 1 .. n) \in Int
  BY <1>8, GainTyped DEF Gain, n
<1>10. w[n + 1] \in Int
  BY <1>2, <1>4
<1>11. Gain(Append(s, t), ms) = Total(w, 1 .. n + 1) /\ Gain(s, ms) = Total(Gains(s, ms), 1 .. n)
  BY <1>1 DEF Gain, w, n
<1> QED BY <1>6, <1>7, <1>8, <1>9, <1>10, <1>11

(* A buffer of nothing newer than the state. *)
LEMMA GainNone ==
  ASSUME TradesTypeOK, NEW ms \in Nat, NEW s \in Seq(1 .. Now), \A j \in 1 .. Len(s) : s[j] <= ms
  PROVE  Gain(s, ms) = 0
<1>1. \A j \in 1 .. Len(s) : Gains(s, ms)[j] = 0
  BY GainTyped DEF Gains
<1> QED BY <1>1, GainTyped, TotalZero DEF Gain

(* A state that all of the buffer is in: nothing is replayed on it. *)
LEMMA NothingNewer ==
  ASSUME TradesTypeOK, NEW ms \in 0 .. Now, \A i \in 1 .. Len(posBuf) : posBuf[i] <= ms
  PROVE  SizeAfter(ms, Len(posBuf)) = HeldAt(ms)
<1>1. ms \in Nat /\ posBuf \in Seq(1 .. Now) /\ HeldAt(ms) \in Int
  BY HeldInt DEF TradesTypeOK
<1>2. Gain(posBuf, ms) = 0
  BY <1>1, GainNone
<1>3. SizeAfter(ms, Len(posBuf)) = HeldAt(ms) + Gain(posBuf, ms)
  BY SizeAfterIs
<1> QED BY <1>1, <1>2, <1>3

(* What is dropped from the buffer was not to be replayed.                  *)
LEMMA GainKept ==
  ASSUME TradesTypeOK, NEW ms \in Nat, NEW s \in Seq(1 .. Now), NEW from \in Int
  PROVE  /\ Kept(s, from) \in Seq(1 .. Now)
         /\ from <= ms + 1 => Gain(Kept(s, from), ms) = Gain(s, ms)
<1> DEFINE P(k) == /\ Prefix(s, from, k) \in Seq(1 .. Now)
                   /\ from <= ms + 1 => Gain(Prefix(s, from, k), ms) = Total(Gains(s, ms), 1 .. k)
           B == {k \in 0 .. Len(s) : ~P(k)}
<1>1. /\ Len(s) \in Nat /\ s \in Seq(Int) /\ Now \in Nat
      /\ \A j \in 1 .. Len(s) : s[j] \in 1 .. Now /\ Gains(s, ms)[j] \in Int
  BY GainTyped, HeldInt
<1>2. B = {}
  <2>1. SUFFICES ASSUME B # {} PROVE FALSE
    OBVIOUS
  <2>2. PICK k \in B : \A y \in B : k <= y
    <3>1. B \in SUBSET Nat
      OBVIOUS
    <3> HIDE DEF B
    <3> QED BY <2>1, <3>1, LeastOf
  <2>3. k \in 0 .. Len(s) /\ ~P(k)
    BY <2>2
  <2>4. CASE k = 0
    <3>1. Prefix(s, from, 0) = <<>>
      BY <1>1, PrefixRule
    <3>2. Gain(<<>>, ms) = Total(Gains(s, ms), 1 .. 0)
      <4>1. 1 .. 0 = {} /\ Len(<<>>) = 0
        OBVIOUS
      <4>2. Total(Gains(<<>>, ms), {}) = 0 /\ Total(Gains(s, ms), {}) = 0
        BY TotalRule, FS_EmptySet
      <4> QED BY <4>1, <4>2 DEF Gain
    <3>3. <<>> \in Seq(1 .. Now) /\ Len(<<>>) = 0
      OBVIOUS
    <3> QED BY <2>3, <2>4, <3>1, <3>2, <3>3
  <2>5. CASE k # 0
    <3>1. k \in 1 .. Len(s) /\ k - 1 \in 0 .. Len(s) /\ ~ (k <= k - 1)
      BY <1>1, <2>3, <2>5
    <3>2. P(k - 1)
      <4>1. k - 1 \notin B
        BY <2>2, <3>1
      <4> QED BY <3>1, <4>1
    <3> DEFINE p == Prefix(s, from, k - 1)
               t == s[k]
               sum == Total(Gains(s, ms), 1 .. k - 1)
    <3>3. Prefix(s, from, k) = IF t >= from THEN Append(p, t) ELSE p
      BY <1>1, <3>1, PrefixRule
    <3>4. t \in 1 .. Now /\ t \in Int /\ p \in Seq(1 .. Now)
      BY <1>1, <3>1, <3>2
    <3>5. Total(Gains(s, ms), 1 .. k) = (IF t > ms THEN Delta(t) ELSE 0) + sum
      <4>1. (1 .. k) \ {k} = 1 .. k - 1 /\ k \in 1 .. k /\ k \in Int /\ 1 \in Int
        BY <1>1, <3>1
      <4>2. IsFiniteSet(1 .. k) /\ \A j \in 1 .. k : Gains(s, ms)[j] \in Int
        BY <1>1, <3>1, <4>1, FS_Interval
      <4>3. Gains(s, ms)[k] = IF t > ms THEN Delta(t) ELSE 0
        BY <3>1 DEF Gains
      <4>4. Total(Gains(s, ms), 1 .. k) = Gains(s, ms)[k] + Total(Gains(s, ms), (1 .. k) \ {k})
        BY <4>1, <4>2, TotalRemove
      <4> QED BY <4>1, <4>3, <4>4
    <3>6. Gain(Append(p, t), ms) = Gain(p, ms) + (IF t > ms THEN Delta(t) ELSE 0)
      BY <3>4, GainAppend
    <3>7. Gain(p, ms) \in Int /\ Delta(t) \in Int
      BY <3>4, GainTyped, HeldInt
    <3>8. from <= ms + 1 => Gain(p, ms) = sum
      BY <3>2
    <3>9. Append(p, t) \in Seq(1 .. Now)
      BY <3>4
    <3> HIDE DEF p, t, sum
    <3>11. CASE t >= from
      <4>1. Prefix(s, from, k) = Append(p, t)
        BY <3>3, <3>11
      <4>2. from <= ms + 1 => Gain(Append(p, t), ms) = Total(Gains(s, ms), 1 .. k)
        BY <3>5, <3>6, <3>7, <3>8
      <4> QED BY <2>3, <3>9, <4>1, <4>2
    <3>12. CASE ~ (t >= from)
      <4>1. Prefix(s, from, k) = p
        BY <3>3, <3>12
      <4>2. from <= ms + 1 => ~ (t > ms)
        BY <3>4, <3>12
      <4>3. from <= ms + 1 => Gain(p, ms) = Total(Gains(s, ms), 1 .. k)
        BY <3>5, <3>7, <3>8, <4>2
      <4> QED BY <2>3, <3>4, <4>1, <4>3
    <3> QED BY <3>11, <3>12
  <2> QED BY <2>4, <2>5
<1>3. P(Len(s))
  BY <1>1, <1>2
<1> QED BY <1>1, <1>3, PrefixRule DEF Gain

-----------------------------------------------------------------------------
(* The fields, one at a time. *)
LEMMA TradesFields ==
  ASSUME TradesTypeOK
  PROVE  /\ Now \in Nat /\ stream.st \in {"down", "up", "subscribed"} /\ stream.queue \in Seq(1 .. Now)
         /\ szi.known \in BOOLEAN /\ szi.size \in Int /\ szi.ms \in 0 .. Now
         /\ posRead.pc \in {"idle", "asked", "answered", "writing"} /\ posRead.ms \in 0 .. Now
         /\ posRead.again \in BOOLEAN /\ featSzi.known \in BOOLEAN /\ featSzi.size \in Int
         /\ closing.pc \in {"idle", "waiting", "read"} /\ closing.upTo \in 0 .. Now
         /\ shown.ms \in 0 .. Now /\ shown.ended \in 0 .. Now
BY HeldInt DEF TradesTypeOK

(* The constants, fact by fact. *)
LEMMA TradesBounds ==
  /\ ReadTrades \in Nat /\ BufTrades \in Nat /\ MaxTrades \in Nat /\ MaxLost \in Nat
  /\ ReadTrades <= BufTrades /\ 0 \in Holdings /\ Holdings \subseteq Int
BY TradesConstants

(* How many positions have ended. *)
LEMMA EndedFits ==
  ASSUME TradesTypeOK
  PROVE  /\ \A t \in 0 .. Now : Ended(t) \in Nat /\ Ended(t) <= t
         /\ \A t, u \in 0 .. Now : t <= u => Ended(t) <= Ended(u)
<1> DEFINE E(t) == {i \in 1 .. t : Ends(i)}
<1>1. \A t \in Nat : IsFiniteSet(1 .. t) /\ Cardinality(1 .. t) = t
  <2>1. SUFFICES ASSUME NEW t \in Nat PROVE IsFiniteSet(1 .. t) /\ Cardinality(1 .. t) = t
    OBVIOUS
  <2>2. 1 \in Int /\ t \in Int /\ (1 > t => t = 0)
    OBVIOUS
  <2> QED BY <2>2, FS_Interval
<1>2. \A t \in Nat : /\ IsFiniteSet(E(t)) /\ Cardinality(E(t)) \in Nat /\ Cardinality(E(t)) <= t
  <2>1. SUFFICES ASSUME NEW t \in Nat
                 PROVE  IsFiniteSet(E(t)) /\ Cardinality(E(t)) \in Nat /\ Cardinality(E(t)) <= t
    OBVIOUS
  <2>2. E(t) \in SUBSET (1 .. t)
    OBVIOUS
  <2> HIDE DEF E
  <2>3. IsFiniteSet(E(t)) /\ Cardinality(E(t)) <= Cardinality(1 .. t)
    BY <1>1, <2>2, FS_Subset
  <2> QED BY <1>1, <2>3, FS_CardinalityType
<1>3. ASSUME NEW t \in Nat, NEW u \in Nat, t <= u PROVE Cardinality(E(t)) <= Cardinality(E(u))
  <2>1. E(t) \in SUBSET E(u)
    BY <1>3
  <2> HIDE DEF E
  <2> QED BY <1>2, <2>1, FS_Subset
<1>4. \A t : Ended(t) = Cardinality(E(t))
  BY DEF Ended
<1>5. \A t \in 0 .. Now : t \in Nat
  BY HeldInt
<1> HIDE DEF E
<1> QED BY <1>2, <1>3, <1>4, <1>5

(* A step that leaves the venue alone, and one that adds a trade. *)
LEMMA SameBook ==
  ASSUME UNCHANGED book
  PROVE  Now' = Now /\ \A t : HeldAt(t)' = HeldAt(t) /\ Delta(t)' = Delta(t) /\ Ended(t)' = Ended(t)
BY DEF Now, HeldAt, Delta, Ended, Ends

(* One more trade leaves the past as it was. *)
LEMMA BookGrows ==
  ASSUME TradesTypeOK, NEW size \in Holdings, book' = Append(book, size)
  PROVE  /\ Now' = Now + 1 /\ book' \in Seq(Holdings)
         /\ \A t \in 0 .. Now : HeldAt(t)' = HeldAt(t) /\ Ended(t)' = Ended(t)
         /\ \A t \in 1 .. Now : Delta(t)' = Delta(t)
<1>1. Now' = Now + 1 /\ book' \in Seq(Holdings) /\ Now \in Nat /\ \A t \in 1 .. Now : book'[t] = book[t]
  BY DEF TradesTypeOK, Now
<1>2. ASSUME NEW t \in 0 .. Now PROVE HeldAt(t)' = HeldAt(t)
  <2>1. t = 0 \/ t \in 1 .. Now
    BY <1>1
  <2>2. t # 0 => book'[t] = book[t]
    BY <1>1, <2>1
  <2> QED BY <2>2 DEF HeldAt
<1>3. \A t \in 1 .. Now : t \in 0 .. Now /\ t - 1 \in 0 .. Now
  BY <1>1
<1>4. \A t \in 1 .. Now : Delta(t)' = Delta(t) /\ (Ends(t)' <=> Ends(t))
  BY <1>2, <1>3 DEF Delta, Ends
<1>5. ASSUME NEW t \in 0 .. Now PROVE Ended(t)' = Ended(t)
  <2>1. \A i \in 1 .. t : i \in 1 .. Now
    BY <1>1
  <2>2. {i \in 1 .. t : Ends(i)}' = {i \in 1 .. t : Ends(i)}
    BY <1>4, <2>1
  <2> QED BY <2>2 DEF Ended
<1> QED BY <1>1, <1>2, <1>4, <1>5

(* The trades in a queue are still among the trades made. *)
LEMMA SeqWider ==
  ASSUME NEW n \in Nat, NEW s \in Seq(1 .. n)
  PROVE  s \in Seq(1 .. n + 1)
<1>1. \A i \in 1 .. Len(s) : s[i] \in 1 .. n + 1
  <2>1. \A i \in 1 .. Len(s) : s[i] \in 1 .. n
    BY ElementIn
  <2> QED BY <2>1
<1>2. s \in [1 .. Len(s) -> 1 .. n + 1] /\ Len(s) \in Nat
  BY <1>1
<1> QED BY <1>2

-----------------------------------------------------------------------------
(* What a step keeps when it leaves a part of the feed alone. *)
LEMMA TripsStand ==
  ASSUME TradesInv, UNCHANGED tripVars,
         \A t \in 0 .. Now : HeldAt(t)' = HeldAt(t) /\ Ended(t)' = Ended(t),
         posRead'.pc = "answered" => shown.ms <= posRead'.ms
  PROVE  ShownFits' /\ EndsAreClosed'
<1>1. /\ UNCHANGED <<featSzi, closeQ, closing, trips, shown, forgiven>>
      /\ shown.ms \in 0 .. Now /\ closing.upTo \in 0 .. Now
  BY TradesFields DEF TradesInv, tripVars
<1>2. HeldAt(shown.ms)' = HeldAt(shown.ms) /\ Ended(shown.ms)' = Ended(shown.ms)
      /\ Ended(closing.upTo)' = Ended(closing.upTo)
  <2> PICK a \in 0 .. Now, b \in 0 .. Now : a = shown.ms /\ b = closing.upTo
    BY <1>1
  <2>1. HeldAt(a)' = HeldAt(a) /\ Ended(a)' = Ended(a) /\ Ended(b)' = Ended(b)
    OBVIOUS
  <2>2. shown'.ms = a /\ closing'.upTo = b
    BY <1>1
  <2>3. HeldAt(shown.ms)' = HeldAt(a)' /\ Ended(shown.ms)' = Ended(a)' /\ Ended(closing.upTo)' = Ended(b)'
    BY <2>2 DEF HeldAt, Ended
  <2> QED BY <2>1, <2>3
<1>3. ShownFits'
  BY <1>1, <1>2 DEF TradesInv, ShownFits
<1> QED BY <1>1, <1>3 DEF TradesInv, EndsAreClosed

(* So do the trades on their way, ... *)
LEMMA QueueStands ==
  ASSUME TradesInv, UNCHANGED <<book, stream>>
  PROVE  QueueFits' /\ Got' = Got
BY SameBook DEF TradesInv, QueueFits, Got

(* ... the sizes, ... *)
LEMMA SizeStands ==
  ASSUME TradesInv, UNCHANGED <<book, stream, szi>>,
         "sizes" \notin blur' => "sizes" \notin blur,
         posRead'.pc \in {"idle", "writing"} => posRead.pc \in {"idle", "writing"}
  PROVE  SizeFits'
<1>1. Got' = Got /\ Now' = Now
  BY QueueStands, SameBook
<1>2. HeldAt(szi.ms)' = HeldAt(szi.ms) /\ HeldAt(Latest(szi.ms, Got))' = HeldAt(Latest(szi.ms, Got))
  BY <1>1 DEF HeldAt, Latest
<1> QED BY <1>2 DEF TradesInv, SizeFits

(* ... and the state of a read under way. *)
LEMMA ReadStands ==
  ASSUME TradesInv, UNCHANGED <<book, stream, posBuf>>,
         posRead'.pc = "answered" /\ "read" \notin blur' => posRead' = posRead /\ "read" \notin blur
  PROVE  ReadFits'
<1>1. Got' = Got /\ Now' = Now
  BY QueueStands, SameBook
<1>2. SUFFICES ASSUME posRead'.pc = "answered", "read" \notin blur'
               PROVE  ReadFits'
  BY DEF ReadFits
<1>3. posRead' = posRead /\ "read" \notin blur
  BY <1>2
<1>4. SizeAfter(posRead.ms, Len(posBuf))' = SizeAfter(posRead.ms, Len(posBuf))
  BY <1>3 DEF SizeAfter, HeldAt, Delta, Replayed
<1>5. HeldAt(Latest(posRead.ms, Got))' = HeldAt(Latest(posRead.ms, Got))
  BY <1>1, <1>3 DEF HeldAt, Latest
<1> QED BY <1>1, <1>3, <1>4, <1>5 DEF TradesInv, ReadFits

-----------------------------------------------------------------------------
(* The steps of the venue and of the connection.                            *)
LEMMA TradesInitOK == TradesInit => TradesInv
<1> SUFFICES ASSUME TradesInit PROVE TradesInv
  OBVIOUS
<1>1. Now = 0
  BY DEF TradesInit, Now
<1>2. TradesTypeOK
  <2>1. /\ <<>> \in Seq(Holdings) /\ <<>> \in Seq(1 .. Now) /\ 0 \in 0 .. Now /\ 0 \in 0 .. MaxLost
        /\ Now <= MaxTrades
    BY <1>1, TradesBounds
  <2>2. /\ szi \in [known : BOOLEAN, size : Int, ms : 0 .. Now]
        /\ posRead \in [pc : {"idle", "asked", "answered", "writing"}, ms : 0 .. Now, again : BOOLEAN]
        /\ closing \in [pc : {"idle", "waiting", "read"}, upTo : 0 .. Now]
        /\ shown \in [ms : 0 .. Now, ended : 0 .. Now]
        /\ featSzi \in [known : BOOLEAN, size : Int]
    BY <2>1 DEF TradesInit, UnknownSize, NoRead, NoClose
  <2>3. stream \in [st : {"down", "up", "subscribed"}, queue : Seq(1 .. Now)]
    BY <2>1 DEF TradesInit
  <2> QED BY <2>1, <2>2, <2>3 DEF TradesInit, TradesTypeOK
<1>3. Ended(0) \in Nat
  BY <1>1, <1>2, EndedFits
<1>4. HeldAt(0) = 0
  BY DEF HeldAt
<1> QED BY <1>2, <1>3, <1>4 DEF TradesInit, TradesInv, QueueFits, SizeFits, ReadFits, ShownFits,
                              EndsAreClosed, UnknownSize, NoRead, NoClose

(* One trade more: the queue ends with it. *)
LEMMA TradeMadeOK ==
  ASSUME TradesInv, TradeMade
  PROVE  TradesInv'
<1>1. PICK size \in Holdings : book' = Append(book, size)
  BY DEF TradeMade
<1>2. /\ TradesTypeOK /\ Now < MaxTrades
      /\ UNCHANGED <<lost, szi, posBuf, posDue, posRead, tripVars, blur>>
  BY DEF TradeMade, TradesInv, posVars
<1>3. /\ Now' = Now + 1 /\ Now \in Nat /\ book' \in Seq(Holdings)
      /\ \A t \in 0 .. Now : HeldAt(t)' = HeldAt(t) /\ Ended(t)' = Ended(t)
      /\ \A t \in 1 .. Now : Delta(t)' = Delta(t)
  BY <1>1, <1>2, BookGrows, HeldInt
<1>4. /\ stream.st = "subscribed" => stream' = [stream EXCEPT !.queue = Append(@, Now + 1)]
      /\ stream.st # "subscribed" => stream' = stream
  BY DEF TradeMade
<1> DEFINE q == stream.queue
<1>5. /\ q \in Seq(1 .. Now) /\ q \in Seq(1 .. Now + 1) /\ Len(q) \in Nat
      /\ posBuf \in Seq(1 .. Now + 1) /\ closeQ \in Seq(1 .. Now + 1)
      /\ stream.st \in {"down", "up", "subscribed"}
  BY <1>2, <1>3, TradesFields, SeqWider DEF TradesTypeOK
<1>6. /\ stream'.st = stream.st
      /\ IF stream.st = "subscribed" THEN stream'.queue = Append(q, Now + 1) ELSE stream'.queue = q
      /\ stream' \in [st : {"down", "up", "subscribed"}, queue : Seq(1 .. Now + 1)]
  <2>1. stream \in [st : {"down", "up", "subscribed"}, queue : Seq(1 .. Now)]
    BY <1>2 DEF TradesTypeOK
  <2>2. Append(q, Now + 1) \in Seq(1 .. Now + 1)
    BY <1>3, <1>5
  <2>3. CASE stream.st = "subscribed"
    <3> DEFINE p == Append(q, Now + 1)
    <3>1. stream' = [stream EXCEPT !.queue = p]
      BY <1>4, <2>3
    <3> HIDE DEF p
    <3>2. p \in Seq(1 .. Now + 1)
      BY <2>2 DEF p
    <3> QED BY <1>5, <2>1, <2>3, <3>1, <3>2 DEF p
  <2>4. CASE stream.st # "subscribed"
    BY <1>4, <1>5, <2>1, <2>4
  <2> QED BY <2>3, <2>4
<1> HIDE DEF q
<1>7. TradesTypeOK'
  <2>1. szi \in [known : BOOLEAN, size : Int, ms : 0 .. Now + 1]
    BY <1>2, <1>3 DEF TradesTypeOK
  <2>2. posRead \in [pc : {"idle", "asked", "answered", "writing"}, ms : 0 .. Now + 1, again : BOOLEAN]
    BY <1>2, <1>3 DEF TradesTypeOK
  <2>3. /\ closing \in [pc : {"idle", "waiting", "read"}, upTo : 0 .. Now + 1] /\ trips \in 0 .. Now + 1
        /\ shown \in [ms : 0 .. Now + 1, ended : 0 .. Now + 1] /\ forgiven \in 0 .. Now + 1
    BY <1>2, <1>3 DEF TradesTypeOK
  <2>4. Now + 1 <= MaxTrades
    BY <1>2, <1>3, TradesBounds
  <2> QED BY <1>2, <1>3, <1>5, <1>6, <2>1, <2>2, <2>3, <2>4 DEF TradesTypeOK, tripVars
<1>8. QueueFits' /\ (stream.st = "subscribed" => Got' = Got /\ Got \in 0 .. Now)
  <2>1. CASE stream.st = "subscribed"
    <3>1. Len(stream'.queue) = Len(q) + 1 /\ Got' = Got /\ Got \in 0 .. Now /\ Got = Now - Len(q)
      <4>1. stream'.queue = Append(q, Now + 1) /\ Len(q) <= Now
        BY <1>6, <2>1 DEF TradesInv, QueueFits, q
      <4>2. Len(stream'.queue) = Len(q) + 1
        BY <1>5, <4>1
      <4>3. Got' = Now' - Len(stream'.queue) /\ Got = Now - Len(q)
        BY DEF Got, q
      <4> QED BY <1>3, <1>5, <4>1, <4>2, <4>3
    <3>2. \A i \in 1 .. Len(q) : q[i] = Got + i
      BY <2>1 DEF TradesInv, QueueFits, q
    <3>3. \A i \in 1 .. Len(q) + 1 : stream'.queue[i] = IF i = Len(q) + 1 THEN Now + 1 ELSE q[i]
      BY <1>5, <1>6, <2>1
    <3>4. \A i \in 1 .. Len(q) + 1 : i # Len(q) + 1 => i \in 1 .. Len(q)
      BY <1>5
    <3>5. \A i \in 1 .. Len(q) + 1 : stream'.queue[i] = Got + i
      <4> SUFFICES ASSUME NEW i \in 1 .. Len(q) + 1 PROVE stream'.queue[i] = Got + i
        OBVIOUS
      <4>1. CASE i = Len(q) + 1
        <5>1. stream'.queue[i] = Now + 1
          BY <3>3, <4>1
        <5> QED BY <1>3, <1>5, <3>1, <4>1, <5>1
      <4>2. CASE i # Len(q) + 1
        BY <3>2, <3>3, <3>4, <4>2
      <4> QED BY <4>1, <4>2
    <3>6. Len(q) + 1 <= Now + 1
      BY <1>3, <1>5, <3>1
    <3> QED BY <1>3, <1>6, <2>1, <3>1, <3>5, <3>6 DEF QueueFits
  <2>2. CASE stream.st # "subscribed"
    BY <1>6, <2>2 DEF TradesInv, QueueFits, q
  <2> QED BY <2>1, <2>2
<1>9. SizeFits'
  <2> SUFFICES ASSUME szi.known, "sizes" \notin blur, posRead.pc \in {"idle", "writing"}
               PROVE  /\ stream.st = "up" => szi.size = HeldAt(szi.ms)'
                      /\ stream.st = "subscribed" => szi.size = HeldAt(Latest(szi.ms, Got))'
    BY <1>2, <1>6 DEF SizeFits
  <2> PICK m \in 0 .. Now : m = szi.ms
    BY <1>2, TradesFields
  <2>1. HeldAt(m)' = HeldAt(m) /\ HeldAt(szi.ms)' = HeldAt(m)'
    BY <1>2, <1>3 DEF HeldAt
  <2>2. CASE stream.st = "subscribed"
    <3> PICK k \in 0 .. Now : k = Latest(m, Got)
      BY <1>8, <2>2 DEF Latest
    <3>1. Latest(szi.ms, Got)' = k
      BY <1>2, <1>8, <2>2 DEF Latest
    <3>2. HeldAt(k)' = HeldAt(k) /\ HeldAt(Latest(szi.ms, Got))' = HeldAt(k)'
      BY <1>3, <3>1 DEF HeldAt
    <3> QED BY <2>2, <3>2 DEF TradesInv, SizeFits
  <2> QED BY <2>1, <2>2 DEF TradesInv, SizeFits
<1>10. ReadFits'
  <2> SUFFICES ASSUME posRead.pc = "answered", "read" \notin blur
               PROVE  /\ stream.st = "up" => \A i \in 1 .. Len(posBuf) : posBuf[i] <= posRead.ms
                      /\ stream.st = "subscribed" /\ Now + 1 - posRead.ms <= BufTrades =>
                           SizeAfter(posRead.ms, Len(posBuf))' = HeldAt(Latest(posRead.ms, Got))'
    <3>1. /\ posRead' = posRead /\ blur' = blur /\ posBuf' = posBuf /\ stream'.st = stream.st
          /\ Now' = Now + 1
      BY <1>2, <1>3, <1>6
    <3>2. /\ posRead'.pc = "answered" /\ "read" \notin blur' => posRead.pc = "answered" /\ "read" \notin blur
          /\ Now' - posRead'.ms = Now + 1 - posRead.ms
      <4>1. Now \in Nat /\ posRead.ms \in 0 .. Now
        BY <1>2, TradesFields
      <4>2. posRead'.ms = posRead.ms /\ posRead'.pc = posRead.pc
        BY <3>1
      <4> QED BY <3>1, <4>1, <4>2
    <3>3. (\A i \in 1 .. Len(posBuf) : posBuf[i] <= posRead.ms)' <=> \A i \in 1 .. Len(posBuf) : posBuf[i] <= posRead.ms
      BY <3>1
    <3> DEFINE a == SizeAfter(posRead.ms, Len(posBuf))'
               b == HeldAt(Latest(posRead.ms, Got))'
    <3>4. ReadFits' <=> (posRead'.pc = "answered" /\ "read" \notin blur' =>
             /\ stream'.st = "up" => (\A i \in 1 .. Len(posBuf) : posBuf[i] <= posRead.ms)'
             /\ stream'.st = "subscribed" /\ Now' - posRead'.ms <= BufTrades => a = b)
      BY DEF ReadFits
    <3> HIDE DEF a, b
    <3> QED BY <3>1, <3>2, <3>3, <3>4 DEF a, b
  <2> PICK m \in 0 .. Now : m = posRead.ms
    BY <1>2, TradesFields
  <2>1. ASSUME stream.st = "subscribed", Now + 1 - m <= BufTrades
        PROVE  SizeAfter(posRead.ms, Len(posBuf))' = HeldAt(Latest(posRead.ms, Got))'
    <3> PICK k \in 0 .. Now : k = Latest(m, Got)
      BY <1>8, <2>1 DEF Latest
    <3>1. Latest(posRead.ms, Got)' = k
      BY <1>2, <1>8, <2>1 DEF Latest
    <3>2. HeldAt(k)' = HeldAt(k) /\ HeldAt(Latest(posRead.ms, Got))' = HeldAt(k)'
      BY <1>3, <3>1 DEF HeldAt
    <3>3. \A j \in 1 .. Len(posBuf) : Delta(posBuf[j])' = Delta(posBuf[j])
      <4>1. \A j \in 1 .. Len(posBuf) : posBuf[j] \in 1 .. Now
        BY <1>2, ElementIn DEF TradesTypeOK
      <4>2. \A j \in 1 .. Len(posBuf) : \A t \in 1 .. Now : t = posBuf[j] => Delta(posBuf[j])' = Delta(t)'
        BY <1>2 DEF Delta, HeldAt
      <4> QED BY <1>3, <4>1, <4>2
    <3>4. SizeAfter(posRead.ms, Len(posBuf))' = SizeAfter(posRead.ms, Len(posBuf))
      <4>1. HeldAt(posRead.ms)' = HeldAt(posRead.ms)
        <5>1. HeldAt(posRead.ms)' = HeldAt(m)'
          BY <1>2 DEF HeldAt
        <5> QED BY <1>3, <5>1
      <4>2. [j \in 1 .. Len(posBuf) |-> IF Replayed(posBuf[j], posRead.ms) THEN Delta(posBuf[j]) ELSE 0]'
            = [j \in 1 .. Len(posBuf) |-> IF Replayed(posBuf[j], posRead.ms) THEN Delta(posBuf[j]) ELSE 0]
        BY <1>2, <3>3 DEF Replayed
      <4> QED BY <4>1, <4>2 DEF SizeAfter
    <3>5. Now - m <= BufTrades
      BY <1>3, <2>1, TradesBounds
    <3> QED BY <2>1, <3>2, <3>4, <3>5 DEF TradesInv, ReadFits
  <2> QED BY <2>1 DEF TradesInv, ReadFits
<1>11. ShownFits' /\ EndsAreClosed'
  <2>1. posRead'.pc = "answered" => shown.ms <= posRead'.ms
    BY <1>2 DEF TradesInv, ShownFits
  <2> QED BY <1>2, <1>3, <2>1, TripsStand
<1> QED BY <1>7, <1>8, <1>9, <1>10, <1>11 DEF TradesInv

(* The connection is lost, with all it carried. *)
LEMMA StreamDropOK ==
  ASSUME TradesInv, StreamDrop
  PROVE  TradesInv'
<1>1. /\ TradesTypeOK /\ stream' = [st |-> "down", queue |-> <<>>] /\ lost' = lost + 1 /\ lost < MaxLost
      /\ UNCHANGED <<book, szi, posBuf, posDue, posRead, tripVars, blur>>
  BY DEF StreamDrop, TradesInv, posVars
<1>2. Now' = Now /\ \A t : HeldAt(t)' = HeldAt(t) /\ Ended(t)' = Ended(t)
  BY <1>1, SameBook
<1>3. TradesTypeOK'
  <2>1. stream' \in [st : {"down", "up", "subscribed"}, queue : Seq(1 .. Now)]
    <3>1. <<>> \in Seq(1 .. Now)
      OBVIOUS
    <3> QED BY <1>1, <3>1
  <2>2. lost' \in 0 .. MaxLost
    BY <1>1, TradesBounds DEF TradesTypeOK
  <2> QED BY <1>1, <1>2, <2>1, <2>2 DEF TradesTypeOK, tripVars
<1>4. QueueFits' /\ SizeFits' /\ ReadFits'
  BY <1>1 DEF QueueFits, SizeFits, ReadFits
<1>5. ShownFits' /\ EndsAreClosed'
  <2>1. posRead'.pc = "answered" => shown.ms <= posRead'.ms
    BY <1>1 DEF TradesInv, ShownFits
  <2> QED BY <1>1, <1>2, <2>1, TripsStand
<1> QED BY <1>3, <1>4, <1>5 DEF TradesInv

(* A new connection: no size is known. *)
LEMMA StreamUpOK ==
  ASSUME TradesInv, StreamUp
  PROVE  TradesInv'
<1>1. /\ TradesTypeOK /\ stream.st = "down" /\ stream' = [stream EXCEPT !.st = "up"]
      /\ blur' = Spoilt /\ szi' = UnknownSize
      /\ UNCHANGED <<book, lost, posBuf, posDue, posRead, tripVars>>
  BY DEF StreamUp, TradesInv
<1>2. Now' = Now /\ \A t : HeldAt(t)' = HeldAt(t) /\ Ended(t)' = Ended(t)
  BY <1>1, SameBook
<1>3. /\ stream' \in [st : {"down", "up", "subscribed"}, queue : Seq(1 .. Now)]
      /\ stream'.st = "up" /\ stream'.queue = stream.queue
  BY <1>1 DEF TradesTypeOK
<1>4. TradesTypeOK'
  <2>1. szi' \in [known : BOOLEAN, size : Int, ms : 0 .. Now]
    <3>1. 0 \in 0 .. Now
      BY <1>1, HeldInt
    <3> QED BY <1>1, <3>1 DEF UnknownSize
  <2>2. blur' \subseteq {"sizes", "read"}
    BY <1>1 DEF Spoilt
  <2> QED BY <1>1, <1>2, <1>3, <2>1, <2>2 DEF TradesTypeOK, tripVars
<1>5. QueueFits' /\ SizeFits'
  BY <1>1, <1>3 DEF TradesInv, QueueFits, SizeFits, UnknownSize
<1>6. ReadFits'
  <2>1. posRead'.pc = "answered" => "read" \in blur'
    BY <1>1 DEF Spoilt
  <2> QED BY <2>1 DEF ReadFits
<1>7. ShownFits' /\ EndsAreClosed'
  <2>1. posRead'.pc = "answered" => shown.ms <= posRead'.ms
    BY <1>1 DEF TradesInv, ShownFits
  <2> QED BY <1>1, <1>2, <2>1, TripsStand
<1> QED BY <1>4, <1>5, <1>6, <1>7 DEF TradesInv

(* A snapshot ends with the last trade; what it does not reach is blurred. *)
LEMMA SubscribeOK ==
  ASSUME TradesInv, Subscribe
  PROVE  TradesInv'
<1>1. PICK from \in 1 .. Now + 1 :
        /\ stream' = [st |-> "subscribed", queue |-> [i \in 1 .. Now + 1 - from |-> from + i - 1]]
        /\ blur' = blur \cup (IF szi.known /\ szi.ms < from - 1 THEN {"sizes"} ELSE {})
                        \cup (IF posRead.pc = "answered" /\ posRead.ms < from - 1 THEN {"read"} ELSE {})
  BY DEF Subscribe
<1>2. /\ TradesTypeOK /\ stream.st = "up" /\ UNCHANGED <<book, lost, szi, posBuf, posDue, posRead, tripVars>>
  BY DEF Subscribe, TradesInv, posVars
<1>3. /\ Now' = Now /\ Now \in Nat /\ \A t : HeldAt(t)' = HeldAt(t) /\ Delta(t)' = Delta(t) /\ Ended(t)' = Ended(t)
      /\ szi.ms \in 0 .. Now /\ posRead.ms \in 0 .. Now
  BY <1>2, SameBook, TradesFields
<1> DEFINE q == [i \in 1 .. Now + 1 - from |-> from + i - 1]
<1>4. /\ q \in Seq(1 .. Now) /\ Len(q) = Now + 1 - from /\ Len(q) <= Now
      /\ \A i \in 1 .. Len(q) : q[i] = from + i - 1
  <2>1. Now + 1 - from \in Nat
    BY <1>3
  <2>2. \A i \in 1 .. Now + 1 - from : from + i - 1 \in 1 .. Now
    BY <1>3
  <2>3. q \in [1 .. Now + 1 - from -> 1 .. Now]
    BY <2>2
  <2>4. q \in Seq(1 .. Now) /\ Len(q) = Now + 1 - from
    <3> HIDE DEF q
    <3> PICK n \in Nat : n = Now + 1 - from
      BY <2>1
    <3>1. q \in [1 .. n -> 1 .. Now]
      BY <2>3
    <3>2. q \in Seq(1 .. Now) /\ Len(q) = n
      BY <3>1, FunctionIsSeq
    <3> QED BY <3>2
  <2>5. \A i \in 1 .. Len(q) : q[i] = from + i - 1
    BY <2>4
  <2> QED BY <1>3, <2>4, <2>5
<1>5. stream'.st = "subscribed" /\ stream'.queue = q
  BY <1>1
<1>6. stream' \in [st : {"down", "up", "subscribed"}, queue : Seq(1 .. Now)]
  <2> HIDE DEF q
  <2>1. stream' = [st |-> "subscribed", queue |-> q]
    BY <1>1 DEF q
  <2> QED BY <1>4, <2>1
<1> HIDE DEF q
<1>7. Got' = from - 1 /\ from \in Int
  <2>1. Got' = Now' - Len(q)
    BY <1>5 DEF Got
  <2> QED BY <1>3, <1>4, <2>1
<1>8. TradesTypeOK'
  <2>1. blur' \subseteq {"sizes", "read"}
    BY <1>1, <1>2 DEF TradesTypeOK
  <2> QED BY <1>2, <1>3, <1>6, <2>1 DEF TradesTypeOK, tripVars
<1>9. QueueFits'
  <2>1. \A i \in 1 .. Len(q) : q[i] = from - 1 + i
    <3>1. Len(q) \in Nat
      BY <1>4
    <3> QED BY <1>4, <1>7, <3>1
  <2> QED BY <1>3, <1>4, <1>5, <1>7, <2>1 DEF QueueFits
<1>10. SizeFits'
  <2> SUFFICES ASSUME szi.known, "sizes" \notin blur', posRead.pc \in {"idle", "writing"}
               PROVE  szi.size = HeldAt(Latest(szi.ms, Got))'
    BY <1>2, <1>5 DEF SizeFits
  <2>1. "sizes" \notin blur /\ ~ (szi.ms < from - 1)
    BY <1>1
  <2>2. Latest(szi.ms, Got)' = szi.ms
    <3>1. Latest(szi.ms, Got)' = IF szi'.ms < Got' THEN Got' ELSE szi'.ms
      BY DEF Latest
    <3> QED BY <1>2, <1>7, <2>1, <3>1
  <2>3. HeldAt(Latest(szi.ms, Got))' = HeldAt(szi.ms)
    <3>1. HeldAt(Latest(szi.ms, Got))' = HeldAt(szi.ms)'
      BY <1>2, <2>2 DEF HeldAt
    <3> QED BY <1>2, <3>1 DEF HeldAt
  <2> QED BY <1>2, <2>1, <2>3 DEF TradesInv, SizeFits
<1>11. ReadFits'
  <2> SUFFICES ASSUME posRead.pc = "answered", "read" \notin blur'
               PROVE  SizeAfter(posRead.ms, Len(posBuf))' = HeldAt(Latest(posRead.ms, Got))'
    BY <1>2, <1>5 DEF ReadFits
  <2>1. "read" \notin blur /\ ~ (posRead.ms < from - 1)
    BY <1>1
  <2>2. Latest(posRead.ms, Got)' = posRead.ms
    <3>1. Latest(posRead.ms, Got)' = IF posRead'.ms < Got' THEN Got' ELSE posRead'.ms
      BY DEF Latest
    <3> QED BY <1>2, <1>7, <2>1, <3>1
  <2>3. HeldAt(Latest(posRead.ms, Got))' = HeldAt(posRead.ms)
    <3>1. HeldAt(Latest(posRead.ms, Got))' = HeldAt(posRead.ms)'
      BY <1>2, <2>2 DEF HeldAt
    <3> QED BY <1>2, <3>1 DEF HeldAt
  <2>4. SizeAfter(posRead.ms, Len(posBuf))' = SizeAfter(posRead.ms, Len(posBuf))
    BY <1>2 DEF SizeAfter, HeldAt, Delta, Replayed
  <2>5. SizeAfter(posRead.ms, Len(posBuf)) = HeldAt(posRead.ms)
    BY <1>2, <1>3, <2>1, NothingNewer DEF TradesInv, ReadFits
  <2> QED BY <2>3, <2>4, <2>5
<1>12. ShownFits' /\ EndsAreClosed'
  <2>1. posRead'.pc = "answered" => shown.ms <= posRead'.ms
    BY <1>2 DEF TradesInv, ShownFits
  <2> QED BY <1>2, <1>3, <2>1, TripsStand
<1> QED BY <1>8, <1>9, <1>10, <1>11, <1>12 DEF TradesInv

-----------------------------------------------------------------------------
(* The reads of the account. *)
LEMMA NoReadBut ==
  ASSUME NEW pc \in {"idle", "asked", "answered", "writing"}
  PROVE  [NoRead EXCEPT !.pc = pc] = [pc |-> pc, ms |-> 0, again |-> FALSE]
<1>1. NoRead \in [pc : {"idle", "asked", "answered", "writing"}, ms : {0}, again : {FALSE}]
  BY DEF NoRead
<1>2. NoRead.ms = 0
  BY DEF NoRead
<1>3. NoRead.again = FALSE
  BY DEF NoRead
<1> HIDE DEF NoRead
<1>4. [NoRead EXCEPT !.pc = pc] = [pc |-> pc, ms |-> NoRead.ms, again |-> NoRead.again]
  BY <1>1
<1> QED BY <1>2, <1>3, <1>4, Zenon

(* The sweep only asks for a read. *)
LEMMA PosSweepOK ==
  ASSUME TradesInv, PosSweep
  PROVE  TradesInv'
<1>1. /\ TradesTypeOK /\ posDue' = TRUE
      /\ UNCHANGED <<book, stream, lost, szi, posBuf, posRead, tripVars, blur>>
  BY DEF PosSweep, TradesInv
<1>2. Now' = Now /\ \A t : HeldAt(t)' = HeldAt(t) /\ Ended(t)' = Ended(t)
  BY <1>1, SameBook
<1>3. TradesTypeOK'
  BY <1>1, <1>2 DEF TradesTypeOK, tripVars
<1>4. QueueFits' /\ SizeFits' /\ ReadFits'
  BY <1>1, QueueStands, SizeStands, ReadStands
<1>5. ShownFits' /\ EndsAreClosed'
  <2>1. posRead'.pc = "answered" => shown.ms <= posRead'.ms
    BY <1>1 DEF TradesInv, ShownFits
  <2> QED BY <1>1, <1>2, <2>1, TripsStand
<1> QED BY <1>3, <1>4, <1>5 DEF TradesInv

(* A read starts. *)
LEMMA PosTakeOK ==
  ASSUME TradesInv, PosTake
  PROVE  TradesInv'
<1>1. /\ TradesTypeOK /\ posDue' = FALSE /\ posRead' = [NoRead EXCEPT !.pc = "asked"]
      /\ UNCHANGED <<book, stream, lost, szi, posBuf, tripVars, blur>>
  BY DEF PosTake, TradesInv
<1>2. Now' = Now /\ Now \in Nat /\ \A t : HeldAt(t)' = HeldAt(t) /\ Ended(t)' = Ended(t)
  BY <1>1, SameBook, HeldInt
<1>3. /\ posRead' \in [pc : {"idle", "asked", "answered", "writing"}, ms : 0 .. Now, again : BOOLEAN]
      /\ posRead'.pc = "asked"
  <2>1. posRead' = [pc |-> "asked", ms |-> 0, again |-> FALSE] /\ 0 \in 0 .. Now
    BY <1>1, <1>2, NoReadBut
  <2> QED BY <2>1
<1>4. TradesTypeOK'
  BY <1>1, <1>2, <1>3 DEF TradesTypeOK, tripVars
<1>5. QueueFits' /\ SizeFits' /\ ReadFits'
  BY <1>1, <1>3, QueueStands DEF SizeFits, ReadFits
<1>6. ShownFits' /\ EndsAreClosed'
  BY <1>1, <1>2, <1>3, TripsStand
<1> QED BY <1>4, <1>5, <1>6 DEF TradesInv

(* The state read is newer than all the buffer holds. *)
LEMMA StateReadOK ==
  ASSUME TradesInv, StateRead
  PROVE  TradesInv'
<1>1. /\ TradesTypeOK /\ posRead.pc = "asked" /\ posRead' = [posRead EXCEPT !.pc = "answered", !.ms = Now]
      /\ blur' = blur \ {"read"}
      /\ UNCHANGED <<book, stream, lost, szi, posBuf, posDue, tripVars>>
  BY DEF StateRead, TradesInv
<1>2. Now' = Now /\ Now \in Nat /\ \A t : HeldAt(t)' = HeldAt(t) /\ Ended(t)' = Ended(t)
  BY <1>1, SameBook, HeldInt
<1>3. /\ posRead' \in [pc : {"idle", "asked", "answered", "writing"}, ms : 0 .. Now, again : BOOLEAN]
      /\ posRead'.pc = "answered" /\ posRead'.ms = Now
  <2>1. posRead \in [pc : {"idle", "asked", "answered", "writing"}, ms : 0 .. Now, again : BOOLEAN]
    BY <1>1 DEF TradesTypeOK
  <2>2. posRead' = [pc |-> "answered", ms |-> Now, again |-> posRead.again] /\ posRead.again \in BOOLEAN
    BY <1>1, <2>1
  <2> QED BY <1>2, <2>2
<1>4. TradesTypeOK'
  BY <1>1, <1>2, <1>3 DEF TradesTypeOK, tripVars
<1>5. QueueFits' /\ Got' = Got /\ SizeFits'
  BY <1>1, <1>3, QueueStands DEF SizeFits
<1>6. ReadFits'
  <2>1. posBuf \in Seq(1 .. Now) /\ \A i \in 1 .. Len(posBuf) : posBuf[i] <= Now
    <3>1. \A i \in 1 .. Len(posBuf) : posBuf[i] \in 1 .. Now
      BY <1>1, ElementIn DEF TradesTypeOK
    <3> QED BY <1>1, <1>2, <3>1 DEF TradesTypeOK
  <2>2. SizeAfter(posRead.ms, Len(posBuf))' = HeldAt(Now)
    <3>1. SizeAfter(posRead.ms, Len(posBuf))' = SizeAfter(Now, Len(posBuf))
      BY <1>1, <1>3 DEF SizeAfter, HeldAt, Delta, Replayed
    <3> QED BY <1>1, <1>2, <2>1, <3>1, NothingNewer
  <2>3. stream.st = "subscribed" => Latest(posRead.ms, Got)' = Now
    <3>1. ASSUME stream.st = "subscribed" PROVE Got <= Now /\ Got \in Int
      <4>1. Len(stream.queue) \in Nat
        BY <1>1, TradesFields
      <4> QED BY <1>2, <4>1 DEF Got
    <3> QED BY <1>2, <1>3, <1>5, <3>1 DEF Latest
  <2>4. stream.st = "subscribed" => HeldAt(Latest(posRead.ms, Got))' = HeldAt(Now)
    <3>1. stream.st = "subscribed" => HeldAt(Latest(posRead.ms, Got))' = HeldAt(Now)'
      BY <1>2, <2>3 DEF HeldAt
    <3> QED BY <1>1, <3>1 DEF HeldAt, Now
  <2> QED BY <1>1, <1>3, <2>1, <2>2, <2>4 DEF ReadFits
<1>7. ShownFits' /\ EndsAreClosed'
  <2>1. shown.ms <= Now
    BY <1>1, <1>2, TradesFields
  <2> QED BY <1>1, <1>2, <1>3, <2>1, TripsStand
<1> QED BY <1>4, <1>5, <1>6, <1>7 DEF TradesInv

(* A failed read leaves nothing known. *)
LEMMA StateReadFailsOK ==
  ASSUME TradesInv, StateReadFails
  PROVE  TradesInv'
<1>1. PICK pc \in {"idle", "writing"} : posRead' = [NoRead EXCEPT !.pc = pc]
  BY DEF StateReadFails
<1>2. /\ TradesTypeOK /\ szi' = UnknownSize /\ UNCHANGED <<book, stream, lost, posBuf, posDue, tripVars, blur>>
  BY DEF StateReadFails, TradesInv
<1>3. Now' = Now /\ Now \in Nat /\ \A t : HeldAt(t)' = HeldAt(t) /\ Ended(t)' = Ended(t)
  BY <1>2, SameBook, HeldInt
<1>4. /\ posRead' \in [pc : {"idle", "asked", "answered", "writing"}, ms : 0 .. Now, again : BOOLEAN]
      /\ posRead'.pc \in {"idle", "writing"}
      /\ szi' \in [known : BOOLEAN, size : Int, ms : 0 .. Now] /\ ~szi'.known
  <2>1. posRead' = [pc |-> pc, ms |-> 0, again |-> FALSE]
    <3>1. pc \in {"idle", "asked", "answered", "writing"}
      OBVIOUS
    <3> QED BY <1>1, <3>1, NoReadBut, Zenon
  <2>3. 0 \in 0 .. Now
    BY <1>3
  <2>2. szi' = [known |-> FALSE, size |-> 0, ms |-> 0]
    BY <1>2 DEF UnknownSize
  <2> QED BY <2>1, <2>2, <2>3
<1>5. TradesTypeOK'
  BY <1>2, <1>3, <1>4 DEF TradesTypeOK, tripVars
<1>6. QueueFits' /\ SizeFits' /\ ReadFits'
  BY <1>2, <1>4, QueueStands DEF SizeFits, ReadFits
<1>7. ShownFits' /\ EndsAreClosed'
  BY <1>2, <1>3, <1>4, TripsStand
<1> QED BY <1>5, <1>6, <1>7 DEF TradesInv

(* A read ends. *)
LEMMA PosDoneOK ==
  ASSUME TradesInv, PosDone
  PROVE  TradesInv'
<1>1. /\ TradesTypeOK /\ posRead.pc = "writing" /\ posRead' = NoRead /\ posDue' = (posDue \/ posRead.again)
      /\ UNCHANGED <<book, stream, lost, szi, posBuf, tripVars, blur>>
  BY DEF PosDone, TradesInv
<1>2. Now' = Now /\ Now \in Nat /\ \A t : HeldAt(t)' = HeldAt(t) /\ Ended(t)' = Ended(t)
  BY <1>1, SameBook, HeldInt
<1>3. /\ posRead' \in [pc : {"idle", "asked", "answered", "writing"}, ms : 0 .. Now, again : BOOLEAN]
      /\ posRead'.pc = "idle" /\ posDue' \in BOOLEAN
  BY <1>1, <1>2, TradesFields DEF NoRead, TradesTypeOK
<1>4. TradesTypeOK'
  BY <1>1, <1>2, <1>3 DEF TradesTypeOK, tripVars
<1>5. QueueFits' /\ SizeFits' /\ ReadFits'
  BY <1>1, <1>3, QueueStands, SizeStands DEF ReadFits
<1>6. ShownFits' /\ EndsAreClosed'
  BY <1>1, <1>2, <1>3, TripsStand
<1> QED BY <1>4, <1>5, <1>6 DEF TradesInv

(* A trade comes into the buffer; what is too old is not to be replayed. *)
LEMMA BufferedOK ==
  ASSUME TradesTypeOK, NEW t \in 1 .. Now, NEW ms \in Nat
  PROVE  /\ Buffered(t) \in Seq(1 .. Now)
         /\ t - BufTrades <= ms + 1 =>
              Gain(Buffered(t), ms) = Gain(posBuf, ms) + (IF t > ms THEN Delta(t) ELSE 0)
<1> DEFINE buf == Append(posBuf, t)
           from == t - BufTrades
<1>1. posBuf \in Seq(1 .. Now) /\ buf \in Seq(1 .. Now) /\ from \in Int
  <2>1. Now \in Nat /\ BufTrades \in Nat
    BY HeldInt, TradesBounds
  <2>2. posBuf \in Seq(1 .. Now)
    BY DEF TradesTypeOK
  <2> QED BY <2>1, <2>2
<1>2. Gain(buf, ms) = Gain(posBuf, ms) + (IF t > ms THEN Delta(t) ELSE 0)
  BY <1>1, GainAppend
<1>3. Buffered(t) = buf \/ Buffered(t) = Kept(buf, from)
  BY DEF Buffered
<1> HIDE DEF buf, from
<1>4. Kept(buf, from) \in Seq(1 .. Now) /\ (from <= ms + 1 => Gain(Kept(buf, from), ms) = Gain(buf, ms))
  BY <1>1, GainKept
<1> QED BY <1>1, <1>2, <1>3, <1>4 DEF from

(* The next trade of the queue, followed or only buffered. *)
LEMMA PosTradeOK ==
  ASSUME TradesInv, NEW onProfile \in BOOLEAN, PosTrade(onProfile)
  PROVE  TradesInv'
<1> DEFINE q == stream.queue
<1> PICK t : t = Head(q)
  OBVIOUS
<1>1. /\ TradesTypeOK /\ q # <<>> /\ stream' = [stream EXCEPT !.queue = Tail(q)] /\ posBuf' = Buffered(t)
      /\ UNCHANGED <<book, lost, posRead, tripVars>>
  BY DEF PosTrade, TradesInv
<1>2. /\ posRead.pc # "idle" =>
           UNCHANGED <<szi, posDue>> /\ blur' = IF posRead.pc = "writing" /\ szi.known THEN {"sizes"} ELSE blur
      /\ posRead.pc = "idle" =>
           /\ UNCHANGED blur
           /\ ~szi.known => posDue' = TRUE /\ UNCHANGED szi
           /\ szi.known /\ t <= szi.ms => UNCHANGED <<szi, posDue>>
           /\ szi.known /\ ~ (t <= szi.ms) =>
                /\ szi' = [szi EXCEPT !.size = @ + Delta(t)]
                /\ posDue' = (posDue \/ onProfile \/ Tells(szi.size, Delta(t)))
  BY DEF PosTrade
<1>3. /\ Now' = Now /\ Now \in Nat /\ \A u : HeldAt(u)' = HeldAt(u) /\ Delta(u)' = Delta(u) /\ Ended(u)' = Ended(u)
      /\ szi.ms \in 0 .. Now /\ posRead.ms \in 0 .. Now /\ szi.size \in Int
  BY <1>1, SameBook, TradesFields
<1>4. /\ stream.st = "subscribed" /\ q \in Seq(1 .. Now) /\ Len(q) \in 1 .. Now
      /\ \A i \in 1 .. Len(q) : q[i] = Got + i
  <2>1. q \in Seq(1 .. Now) /\ Len(q) \in Nat /\ Len(q) # 0
    BY <1>1, TradesFields
  <2> QED BY <1>1, <1>3, <2>1 DEF TradesInv, QueueFits
<1>5. Got = Now - Len(q) /\ Got \in 0 .. Now /\ t = Got + 1 /\ t \in 1 .. Now /\ t \in Int
  <2>1. t = q[1] /\ 1 \in 1 .. Len(q) /\ Got = Now - Len(q)
    BY <1>1, <1>4 DEF Got
  <2> HIDE DEF q
  <2>2. t = Got + 1
    BY <1>4, <2>1
  <2> QED BY <1>3, <1>4, <2>1, <2>2
<1>6. /\ stream' \in [st : {"down", "up", "subscribed"}, queue : Seq(1 .. Now)]
      /\ stream'.st = "subscribed" /\ stream'.queue = Tail(q)
  <2>1. stream \in [st : {"down", "up", "subscribed"}, queue : Seq(1 .. Now)]
    BY <1>1 DEF TradesTypeOK
  <2> DEFINE p == Tail(q)
  <2>2. p \in Seq(1 .. Now) /\ stream' = [stream EXCEPT !.queue = p]
    <3>1. stream' = [stream EXCEPT !.queue = p]
      BY <1>1
    <3> HIDE DEF q
    <3> QED BY <1>1, <1>4, <3>1
  <2> HIDE DEF p, q
  <2>3. stream'.st = stream.st /\ stream'.queue = p
    BY <2>1, <2>2
  <2>4. stream' \in [st : {"down", "up", "subscribed"}, queue : Seq(1 .. Now)]
    BY <2>1, <2>2
  <2> QED BY <1>4, <2>3, <2>4 DEF p
<1>7. Len(Tail(q)) = Len(q) - 1 /\ \A i \in 1 .. Len(Tail(q)) : Tail(q)[i] = q[i + 1]
  BY <1>1, <1>4
<1> HIDE DEF q
<1>8. Got' = t
  <2>1. Got' = Now' - Len(Tail(q))
    BY <1>6 DEF Got
  <2> QED BY <1>3, <1>4, <1>5, <1>7, <2>1
<1>9. QueueFits'
  <2>1. \A i \in 1 .. Len(q) - 1 : i + 1 \in 1 .. Len(q)
    BY <1>4
  <2>2. \A i \in 1 .. Len(q) - 1 : Tail(q)[i] = t + i
    <3>1. \A i \in 1 .. Len(q) - 1 : Tail(q)[i] = Got + (i + 1)
      BY <1>4, <1>7, <2>1
    <3>2. \A i \in 1 .. Len(q) - 1 : i \in Int /\ Got + (i + 1) = t + i
      <4>1. Got \in Int /\ t = Got + 1 /\ Len(q) \in Int
        BY <1>3, <1>4, <1>5
      <4> QED BY <4>1
    <3> QED BY <3>1, <3>2
  <2>3. Len(q) - 1 <= Now
    BY <1>3, <1>4
  <2> QED BY <1>3, <1>6, <1>7, <1>8, <2>2, <2>3 DEF QueueFits
<1>10. /\ Delta(t) \in Int /\ HeldAt(t) = HeldAt(t - 1) + Delta(t) /\ t - 1 = Got
  BY <1>1, <1>3, <1>5, HeldInt
<1>11. /\ szi' \in [known : BOOLEAN, size : Int, ms : 0 .. Now] /\ szi'.ms = szi.ms /\ szi'.known = szi.known
       /\ szi' = szi \/ szi'.size = szi.size + Delta(t)
       /\ posDue' \in BOOLEAN /\ blur' \subseteq {"sizes", "read"}
  <2>1. szi \in [known : BOOLEAN, size : Int, ms : 0 .. Now] /\ posDue \in BOOLEAN /\ blur \subseteq {"sizes", "read"}
    BY <1>1 DEF TradesTypeOK
  <2>2. blur' \subseteq {"sizes", "read"}
    BY <1>2, <2>1
  <2>3. szi' = szi \/ szi' = [szi EXCEPT !.size = @ + Delta(t)]
    BY <1>2, <2>1
  <2>4. posDue' \in BOOLEAN
    <3>1. CASE szi' = szi /\ (posRead.pc # "idle" \/ ~szi.known \/ t <= szi.ms)
      BY <1>2, <2>1, <3>1
    <3>2. CASE posRead.pc = "idle" /\ szi.known /\ ~ (t <= szi.ms)
      BY <1>2, <3>2
    <3> QED BY <1>2, <3>1, <3>2
  <2>5. szi.size + Delta(t) \in Int
    BY <1>3, <1>10
  <2> DEFINE n == szi.size + Delta(t)
  <2>6. szi' = szi \/ szi' = [szi EXCEPT !.size = n]
    BY <2>3
  <2> HIDE DEF n
  <2>7. n \in Int
    BY <2>5 DEF n
  <2>8. /\ szi' \in [known : BOOLEAN, size : Int, ms : 0 .. Now] /\ szi'.ms = szi.ms /\ szi'.known = szi.known
        /\ szi' = szi \/ szi'.size = n
    BY <2>1, <2>6, <2>7
  <2> QED BY <2>2, <2>4, <2>8 DEF n
<1>12. TradesTypeOK'
  <2>1. posBuf' \in Seq(1 .. Now)
    <3>1. 0 \in Nat
      OBVIOUS
    <3> QED BY <1>1, <1>5, <3>1, BufferedOK
  <2> QED BY <1>1, <1>3, <1>6, <1>11, <2>1 DEF TradesTypeOK, tripVars
<1>13. SizeFits'
  <2> SUFFICES ASSUME szi'.known, "sizes" \notin blur', posRead.pc \in {"idle", "writing"}
               PROVE  szi'.size = HeldAt(Latest(szi.ms, Got))'
    BY <1>1, <1>6 DEF SizeFits
  <2>1. posRead.pc = "idle" /\ szi.known /\ "sizes" \notin blur
    BY <1>2, <1>11
  <2>2. szi.size = HeldAt(Latest(szi.ms, Got))
    BY <1>4, <2>1 DEF TradesInv, SizeFits
  <2>3. Latest(szi.ms, Got)' = IF szi.ms < t THEN t ELSE szi.ms
    BY <1>8, <1>11 DEF Latest
  <2>4. CASE t <= szi.ms
    <3>1. szi' = szi /\ Latest(szi.ms, Got)' = szi.ms /\ Latest(szi.ms, Got) = szi.ms
      BY <1>2, <1>3, <1>5, <2>1, <2>3, <2>4 DEF Latest
    <3>2. HeldAt(Latest(szi.ms, Got))' = HeldAt(szi.ms)
      <4>1. HeldAt(Latest(szi.ms, Got))' = HeldAt(szi.ms)'
        BY <3>1 DEF HeldAt
      <4> QED BY <1>1, <3>1, <4>1 DEF HeldAt
    <3> QED BY <2>2, <3>1, <3>2
  <2>5. CASE ~ (t <= szi.ms)
    <3>1. Latest(szi.ms, Got) = Got /\ Latest(szi.ms, Got)' = t
      BY <1>3, <1>5, <2>3, <2>5 DEF Latest
    <3>2. szi'.size = szi.size + Delta(t)
      <4>1. szi' = [szi EXCEPT !.size = @ + Delta(t)] /\ szi \in [known : BOOLEAN, size : Int, ms : 0 .. Now]
        BY <1>1, <1>2, <2>1, <2>5 DEF TradesTypeOK
      <4> QED BY <4>1
    <3>3. HeldAt(Latest(szi.ms, Got))' = HeldAt(t)
      <4>1. HeldAt(Latest(szi.ms, Got))' = HeldAt(t)'
        BY <3>1 DEF HeldAt
      <4> QED BY <1>3, <4>1
    <3> QED BY <1>10, <2>2, <3>1, <3>2, <3>3
  <2> QED BY <2>4, <2>5
<1>14. ReadFits'
  <2> SUFFICES ASSUME posRead.pc = "answered", "read" \notin blur', Now - posRead.ms <= BufTrades
               PROVE  SizeAfter(posRead.ms, Len(posBuf))' = HeldAt(Latest(posRead.ms, Got))'
    BY <1>1, <1>3, <1>6 DEF ReadFits
  <2> PICK m \in 0 .. Now : m = posRead.ms
    BY <1>3
  <2> PICK b : b = posBuf'
    OBVIOUS
  <2>1. "read" \notin blur
    BY <1>2
  <2>2. SizeAfter(m, Len(posBuf)) = HeldAt(Latest(m, Got))
    BY <1>4, <2>1 DEF TradesInv, ReadFits
  <2>3. SizeAfter(posRead.ms, Len(posBuf))' = SizeAfter(m, Len(posBuf))'
    BY <1>1 DEF SizeAfter
  <2>4. /\ SizeAfter(m, Len(posBuf)) = HeldAt(m) + Gain(posBuf, m)
        /\ SizeAfter(m, Len(posBuf))' = HeldAt(m)' + Gain(posBuf, m)'
    BY SizeAfterIs
  <2>5. Gain(posBuf, m)' = Gain(b, m)
    <3>1. Gains(posBuf, m)' = Gains(b, m)
      BY <1>3 DEF Gains
    <3> QED BY <3>1 DEF Gain
  <2>6. Gain(b, m) = Gain(posBuf, m) + (IF t > m THEN Delta(t) ELSE 0)
    <3>1. m \in Nat /\ t - BufTrades <= m + 1
      BY <1>3, <1>5, TradesBounds
    <3> QED BY <1>1, <1>5, <3>1, BufferedOK
  <2>7. Gain(posBuf, m) \in Int /\ HeldAt(m) \in Int /\ HeldAt(m)' = HeldAt(m)
    <3>1. m \in Nat /\ posBuf \in Seq(1 .. Now)
      BY <1>1, <1>3 DEF TradesTypeOK
    <3> QED BY <1>1, <1>3, <3>1, GainTyped, HeldInt
  <2>8. SizeAfter(m, Len(posBuf))' = HeldAt(Latest(m, Got)) + (IF t > m THEN Delta(t) ELSE 0)
    BY <1>10, <2>2, <2>4, <2>5, <2>6, <2>7
  <2>9. HeldAt(Latest(posRead.ms, Got))' = HeldAt(IF m < t THEN t ELSE m)
    <3>1. Latest(posRead.ms, Got)' = IF m < t THEN t ELSE m
      BY <1>1, <1>8 DEF Latest
    <3>2. HeldAt(Latest(posRead.ms, Got))' = HeldAt(IF m < t THEN t ELSE m)'
      BY <3>1 DEF HeldAt
    <3> QED BY <1>1, <3>2 DEF HeldAt
  <2>10. CASE t > m
    <3>1. Latest(m, Got) = Got /\ (IF m < t THEN t ELSE m) = t
      BY <1>3, <1>5, <2>10 DEF Latest
    <3> QED BY <1>10, <2>3, <2>8, <2>9, <2>10, <3>1
  <2>11. CASE ~ (t > m)
    <3>1. Latest(m, Got) = m /\ (IF m < t THEN t ELSE m) = m
      BY <1>3, <1>5, <2>11 DEF Latest
    <3> QED BY <2>3, <2>7, <2>8, <2>9, <2>11, <3>1
  <2> QED BY <2>10, <2>11
<1>15. ShownFits' /\ EndsAreClosed'
  <2>1. posRead'.pc = "answered" => shown.ms <= posRead'.ms
    BY <1>1 DEF TradesInv, ShownFits
  <2> QED BY <1>1, <1>3, <2>1, TripsStand
<1> QED BY <1>9, <1>12, <1>13, <1>14, <1>15 DEF TradesInv

(* Where a position has ended, the state of its coin shows it. *)
LEMMA EndShows ==
  ASSUME NEW a \in Int, NEW b \in Int, a # 0, a * b <= 0
  PROVE  b = 0 \/ a * b < 0
OBVIOUS

(* A state taken over, and the buffer replayed on it. *)
LEMMA AdoptOK ==
  ASSUME TradesInv, Adopt
  PROVE  TradesInv'
<1> PICK ms : ms = posRead.ms
  OBVIOUS
<1>1. /\ TradesTypeOK /\ posRead.pc = "answered" /\ Now - ms <= ReadTrades /\ FeaturedPositions(ms)
      /\ szi' = [known |-> TRUE, size |-> SizeAfter(ms, Len(posBuf)), ms |-> ms]
      /\ posRead' = [pc |-> "writing", ms |-> 0,
                     again |-> \E i \in 1 .. Len(posBuf) : /\ Replayed(posBuf[i], ms)
                                                          /\ Tells(SizeAfter(ms, i - 1), Delta(posBuf[i]))]
      /\ blur' = IF "read" \in blur THEN {"sizes"} ELSE {}
      /\ UNCHANGED <<book, stream, lost, posBuf, posDue>>
  BY DEF Adopt, TradesInv
<1>2. /\ Now' = Now /\ Now \in Nat /\ \A u : HeldAt(u)' = HeldAt(u) /\ Ended(u)' = Ended(u)
      /\ ms \in 0 .. Now /\ ms \in Nat /\ shown.ms \in 0 .. Now /\ shown.ended \in 0 .. Now
      /\ HeldAt(ms) \in Int /\ HeldAt(shown.ms) \in Int
  <2>1. Now' = Now /\ \A u : HeldAt(u)' = HeldAt(u) /\ Ended(u)' = Ended(u)
    BY <1>1, SameBook
  <2>2. Now \in Nat /\ ms \in 0 .. Now /\ shown.ms \in 0 .. Now /\ shown.ended \in 0 .. Now
    BY <1>1, TradesFields
  <2>3. HeldAt(ms) \in Int /\ HeldAt(shown.ms) \in Int
    BY <1>1, <2>2, HeldInt
  <2> QED BY <2>1, <2>2, <2>3
<1>3. /\ closeQ' = IF FlatSeen(HeldAt(ms)) /\ closing.pc = "idle" THEN Append(closeQ, ms) ELSE closeQ
      /\ featSzi' = [known |-> TRUE, size |-> HeldAt(ms)]
      /\ shown' = [ms |-> ms, ended |-> IF HeldAt(shown.ms) # 0 /\ HeldAt(shown.ms) * HeldAt(ms) <= 0
                                        THEN Ended(ms) ELSE shown.ended]
      /\ forgiven' = IF closing.pc = "idle" THEN forgiven ELSE Ended(ms)
      /\ UNCHANGED <<closing, trips>>
  BY <1>1 DEF FeaturedPositions
<1>4. shown.ms <= ms /\ shown.ended <= Ended(shown.ms) /\ (~featSzi.known => shown.ms = 0)
      /\ (featSzi.known => featSzi.size = HeldAt(shown.ms))
  BY <1>1 DEF TradesInv, ShownFits
<1>5. Ended(ms) \in 0 .. Now /\ shown.ended <= Ended(ms)
  <2>1. /\ Ended(ms) \in Nat /\ Ended(ms) <= ms /\ Ended(shown.ms) \in Nat /\ Ended(shown.ms) <= Ended(ms)
    BY <1>1, <1>2, <1>4, EndedFits
  <2> QED BY <1>2, <1>4, <2>1
<1>6. /\ shown'.ms = ms /\ shown'.ended \in {Ended(ms), shown.ended}
      /\ shown'.ended # shown.ended => HeldAt(shown.ms) # 0 /\ HeldAt(shown.ms) * HeldAt(ms) <= 0
  BY <1>3
<1>7. SizeAfter(ms, Len(posBuf)) \in Int
  <2>1. SizeAfter(ms, Len(posBuf)) = HeldAt(ms) + Gain(posBuf, ms)
    BY SizeAfterIs
  <2>2. Gain(posBuf, ms) \in Int
    <3>1. posBuf \in Seq(1 .. Now)
      BY <1>1 DEF TradesTypeOK
    <3> QED BY <1>1, <1>2, <3>1, GainTyped
  <2> QED BY <1>2, <2>1, <2>2
<1>8. FlatSeen(HeldAt(ms)) => ms \in 1 .. Now
  <2>1. FlatSeen(HeldAt(ms)) => HeldAt(shown.ms) # 0
    BY <1>4 DEF FlatSeen
  <2>2. HeldAt(shown.ms) # 0 => shown.ms # 0
    BY DEF HeldAt
  <2> QED BY <1>2, <1>4, <2>1, <2>2
<1>9. TradesTypeOK'
  <2>1. szi' \in [known : BOOLEAN, size : Int, ms : 0 .. Now]
    BY <1>1, <1>2, <1>7
  <2>2. posRead' \in [pc : {"idle", "asked", "answered", "writing"}, ms : 0 .. Now, again : BOOLEAN]
    <3> DEFINE g == \E i \in 1 .. Len(posBuf) : /\ Replayed(posBuf[i], ms)
                                                /\ Tells(SizeAfter(ms, i - 1), Delta(posBuf[i]))
    <3>1. g \in BOOLEAN /\ 0 \in 0 .. Now
      BY <1>2
    <3>2. posRead' = [pc |-> "writing", ms |-> 0, again |-> g]
      BY <1>1
    <3> HIDE DEF g
    <3> QED BY <3>1, <3>2
  <2>3. closeQ' \in Seq(1 .. Now)
    <3>1. closeQ \in Seq(1 .. Now)
      BY <1>1 DEF TradesTypeOK
    <3>2. ms \in 1 .. Now => Append(closeQ, ms) \in Seq(1 .. Now)
      BY <3>1
    <3> QED BY <1>3, <1>8, <3>1, <3>2
  <2>4. featSzi' \in [known : BOOLEAN, size : Int]
    BY <1>2, <1>3
  <2>5. shown' \in [ms : 0 .. Now, ended : 0 .. Now]
    <3> DEFINE e == IF HeldAt(shown.ms) # 0 /\ HeldAt(shown.ms) * HeldAt(ms) <= 0 THEN Ended(ms) ELSE shown.ended
    <3>1. e \in 0 .. Now /\ shown' = [ms |-> ms, ended |-> e]
      BY <1>2, <1>3, <1>5
    <3> HIDE DEF e
    <3> QED BY <1>2, <3>1
  <2>6. forgiven' \in 0 .. Now
    BY <1>1, <1>3, <1>5 DEF TradesTypeOK
  <2>7. blur' \subseteq {"sizes", "read"}
    BY <1>1
  <2> QED BY <1>1, <1>2, <1>3, <2>1, <2>2, <2>3, <2>4, <2>5, <2>6, <2>7 DEF TradesTypeOK
<1>10. QueueFits' /\ Got' = Got
  BY <1>1, QueueStands
<1>11. SizeFits'
  <2> SUFFICES ASSUME "sizes" \notin blur'
               PROVE  /\ stream.st = "up" => szi'.size = HeldAt(szi.ms)'
                      /\ stream.st = "subscribed" => szi'.size = HeldAt(Latest(szi.ms, Got))'
    BY <1>1 DEF SizeFits
  <2>1. "read" \notin blur /\ szi'.size = SizeAfter(ms, Len(posBuf)) /\ szi'.ms = ms
    BY <1>1
  <2>2. ReadFits
    BY DEF TradesInv
  <2>3. CASE stream.st = "up"
    <3>1. \A i \in 1 .. Len(posBuf) : posBuf[i] <= ms
      BY <1>1, <2>1, <2>2, <2>3 DEF ReadFits
    <3>2. szi'.size = HeldAt(ms)
      BY <1>1, <1>2, <2>1, <3>1, NothingNewer
    <3>3. HeldAt(szi.ms)' = HeldAt(ms)
      <4>1. HeldAt(szi.ms)' = HeldAt(ms)'
        BY <2>1 DEF HeldAt
      <4> QED BY <1>2, <4>1
    <3> QED BY <2>3, <3>2, <3>3
  <2>4. CASE stream.st = "subscribed"
    <3>1. Now - ms <= BufTrades
      BY <1>1, <1>2, TradesBounds
    <3>2. szi'.size = HeldAt(Latest(ms, Got))
      BY <1>1, <2>1, <2>2, <2>4, <3>1 DEF ReadFits
    <3>3. HeldAt(Latest(szi.ms, Got))' = HeldAt(Latest(ms, Got))
      <4>1. Latest(szi.ms, Got)' = Latest(ms, Got)
        BY <1>10, <2>1 DEF Latest
      <4>2. HeldAt(Latest(szi.ms, Got))' = HeldAt(Latest(ms, Got))'
        BY <1>1, <1>10, <2>1 DEF HeldAt, Latest
      <4> QED BY <1>1, <1>10, <4>2 DEF HeldAt, Latest
    <3> QED BY <2>4, <3>2, <3>3
  <2> QED BY <2>3, <2>4
<1>12. ReadFits'
  BY <1>1 DEF ReadFits
<1>13. ShownFits'
  <2>1. featSzi'.known /\ featSzi'.size = HeldAt(ms) /\ HeldAt(shown.ms)' = HeldAt(ms)
    <3>1. HeldAt(shown.ms)' = HeldAt(ms)'
      BY <1>6 DEF HeldAt
    <3> QED BY <1>2, <1>3, <3>1
  <2>2. shown'.ended <= Ended(ms)
    BY <1>2, <1>5, <1>6
  <2>3. Ended(shown.ms)' = Ended(ms)
    <3>1. Ended(shown.ms)' = Ended(ms)'
      BY <1>6 DEF Ended
    <3> QED BY <1>2, <3>1
  <2>4. closing'.pc = "read" => shown'.ended <= forgiven'
    BY <1>3, <2>2
  <2>5. posRead'.pc # "answered"
    BY <1>1
  <2> QED BY <2>1, <2>2, <2>3, <2>4, <2>5 DEF ShownFits
<1>14. EndsAreClosed'
  <2>1. CASE closing.pc # "idle"
    BY <1>3, <2>1 DEF EndsAreClosed
  <2>2. CASE closing.pc = "idle" /\ shown'.ended # shown.ended
    <3>1. featSzi.known /\ featSzi.size # 0 /\ featSzi.size = HeldAt(shown.ms)
      <4>1. HeldAt(shown.ms) # 0
        BY <1>6, <2>2
      <4>2. shown.ms # 0
        BY <4>1 DEF HeldAt
      <4> QED BY <1>4, <4>1, <4>2
    <3>2. HeldAt(ms) = 0 \/ HeldAt(shown.ms) * HeldAt(ms) < 0
      BY <1>2, <1>6, <2>2, EndShows
    <3>3. FlatSeen(HeldAt(ms))
      BY <3>1, <3>2 DEF FlatSeen
    <3>4. closeQ' = Append(closeQ, ms) /\ closeQ \in Seq(1 .. Now)
      BY <1>1, <1>3, <2>2, <3>3 DEF TradesTypeOK
    <3>5. closeQ' # <<>>
      BY <3>4
    <3> QED BY <3>5 DEF EndsAreClosed
  <2>3. CASE closing.pc = "idle" /\ shown'.ended = shown.ended
    <3>1. closeQ # <<>> => closeQ' # <<>>
      <4>1. closeQ \in Seq(1 .. Now)
        BY <1>1 DEF TradesTypeOK
      <4>2. Append(closeQ, ms) # <<>>
        BY <4>1
      <4> QED BY <1>3, <4>2
    <3>2. forgiven' = forgiven /\ trips' = trips
      BY <1>3, <2>3
    <3> QED BY <2>3, <3>1, <3>2 DEF TradesInv, EndsAreClosed
  <2> QED BY <2>1, <2>2, <2>3
<1> QED BY <1>9, <1>10, <1>11, <1>12, <1>13, <1>14 DEF TradesInv

-----------------------------------------------------------------------------
(* The closes. *)
LEMMA BookOnly ==
  ASSUME TradesInv, UNCHANGED <<book, stream, posVars, blur>>
  PROVE  QueueFits' /\ SizeFits' /\ ReadFits'
BY QueueStands, SizeStands, ReadStands DEF posVars

(* A close starts. *)
LEMMA CloseTakeOK ==
  ASSUME TradesInv, CloseTake
  PROVE  TradesInv'
<1>1. /\ TradesTypeOK /\ closeQ # <<>> /\ closeQ' = Tail(closeQ) /\ closing' = [NoClose EXCEPT !.pc = "waiting"]
      /\ UNCHANGED <<book, stream, lost, posVars, szi, posBuf, posDue, posRead, featSzi, trips, shown, forgiven, blur>>
  BY DEF CloseTake, TradesInv, posVars
<1>2. Now' = Now /\ Now \in Nat /\ \A t : HeldAt(t)' = HeldAt(t) /\ Ended(t)' = Ended(t)
  BY <1>1, SameBook, HeldInt
<1>3. closing'.pc = "waiting" /\ closing' \in [pc : {"idle", "waiting", "read"}, upTo : 0 .. Now]
  <2>1. NoClose \in [pc : {"idle", "waiting", "read"}, upTo : 0 .. Now]
    BY <1>2 DEF NoClose
  <2> QED BY <1>1, <2>1
<1>4. closeQ' \in Seq(1 .. Now)
  BY <1>1 DEF TradesTypeOK
<1>5. TradesTypeOK'
  BY <1>1, <1>2, <1>3, <1>4 DEF TradesTypeOK
<1>6. ShownFits'
  <2>1. HeldAt(shown.ms)' = HeldAt(shown.ms) /\ Ended(shown.ms)' = Ended(shown.ms)
    BY <1>1 DEF HeldAt, Ended, Ends
  <2> QED BY <1>1, <1>3, <2>1 DEF TradesInv, ShownFits
<1> QED BY <1>1, <1>3, <1>5, <1>6, BookOnly DEF TradesInv, EndsAreClosed

(* The fills read are all those made. *)
LEMMA CloseReadOK ==
  ASSUME TradesInv, CloseRead
  PROVE  TradesInv'
<1>1. /\ TradesTypeOK /\ closing' = [pc |-> "read", upTo |-> Now]
      /\ UNCHANGED <<book, stream, lost, posVars, szi, posBuf, posDue, posRead, featSzi, closeQ, trips, shown, forgiven, blur>>
  BY DEF CloseRead, TradesInv, posVars
<1>2. Now' = Now /\ Now \in Nat /\ \A t : HeldAt(t)' = HeldAt(t) /\ Ended(t)' = Ended(t)
  BY <1>1, SameBook, HeldInt
<1>3. /\ closing'.pc = "read" /\ closing'.upTo = Now
      /\ closing' \in [pc : {"idle", "waiting", "read"}, upTo : 0 .. Now]
  BY <1>1, <1>2
<1>4. TradesTypeOK'
  BY <1>1, <1>2, <1>3 DEF TradesTypeOK
<1>5. ShownFits'
  <2>1. HeldAt(shown.ms)' = HeldAt(shown.ms) /\ Ended(shown.ms)' = Ended(shown.ms)
    BY <1>1 DEF HeldAt, Ended, Ends
  <2>2. shown.ended <= Ended(Now)
    <3>1. shown.ended <= Ended(shown.ms) /\ shown.ms \in 0 .. Now /\ shown.ended \in 0 .. Now
      BY <1>1, TradesFields DEF TradesInv, ShownFits
    <3>2. Ended(shown.ms) <= Ended(Now) /\ Ended(shown.ms) \in Nat /\ Ended(Now) \in Nat
      BY <1>1, <1>2, <3>1, EndedFits
    <3> QED BY <1>2, <3>1, <3>2
  <2>3. Ended(closing.upTo)' = Ended(Now)
    <3>1. Ended(closing.upTo)' = Ended(Now)'
      BY <1>2, <1>3 DEF Ended
    <3> QED BY <1>1, <3>1 DEF Ended, Ends, HeldAt, Now
  <2> QED BY <1>1, <1>3, <2>1, <2>2, <2>3 DEF TradesInv, ShownFits
<1> QED BY <1>1, <1>3, <1>4, <1>5, BookOnly DEF TradesInv, EndsAreClosed

(* What ended by then has its rows. *)
LEMMA CloseStoreOK ==
  ASSUME TradesInv, CloseStore
  PROVE  TradesInv'
<1>1. /\ TradesTypeOK /\ closing.pc = "read" /\ closing' = NoClose
      /\ trips' = (IF Ended(closing.upTo) > trips THEN Ended(closing.upTo) ELSE trips)
      /\ UNCHANGED <<book, stream, lost, posVars, szi, posBuf, posDue, posRead, featSzi, closeQ, shown, forgiven, blur>>
  BY DEF CloseStore, TradesInv, posVars
<1>2. Now' = Now /\ Now \in Nat /\ \A t : HeldAt(t)' = HeldAt(t) /\ Ended(t)' = Ended(t)
  BY <1>1, SameBook, HeldInt
<1>3. /\ closing'.pc = "idle" /\ closing' \in [pc : {"idle", "waiting", "read"}, upTo : 0 .. Now]
  BY <1>1, <1>2 DEF NoClose
<1>4. Ended(closing.upTo) \in 0 .. Now /\ trips \in 0 .. Now /\ shown.ended \in 0 .. Now
  <2>1. closing.upTo \in 0 .. Now /\ trips \in 0 .. Now /\ shown.ended \in 0 .. Now
    BY <1>1, TradesFields DEF TradesTypeOK
  <2>2. Ended(closing.upTo) \in Nat /\ Ended(closing.upTo) <= closing.upTo
    BY <1>1, <2>1, EndedFits
  <2> QED BY <1>2, <2>1, <2>2
<1>5. trips' \in 0 .. Now /\ trips <= trips' /\ Ended(closing.upTo) <= trips'
  <2> DEFINE e == Ended(closing.upTo)
  <2>1. e \in 0 .. Now /\ trips' = IF e > trips THEN e ELSE trips
    BY <1>1, <1>4
  <2> HIDE DEF e
  <2>2. trips' \in 0 .. Now /\ trips <= trips' /\ e <= trips'
    BY <1>2, <1>4, <2>1
  <2> QED BY <2>2 DEF e
<1>6. TradesTypeOK'
  BY <1>1, <1>2, <1>3, <1>5 DEF TradesTypeOK
<1>7. ShownFits'
  <2>1. HeldAt(shown.ms)' = HeldAt(shown.ms) /\ Ended(shown.ms)' = Ended(shown.ms)
    BY <1>1 DEF HeldAt, Ended, Ends
  <2> QED BY <1>1, <1>3, <2>1 DEF TradesInv, ShownFits
<1>8. EndsAreClosed'
  <2>1. shown.ended <= Ended(closing.upTo) \/ shown.ended <= forgiven
    BY <1>1 DEF TradesInv, ShownFits
  <2>2. shown.ended <= Ended(closing.upTo) => shown.ended <= trips'
    <3> DEFINE e == Ended(closing.upTo)
               d == shown.ended
    <3>1. e \in Int /\ d \in Int /\ trips' \in Int /\ e <= trips'
      BY <1>2, <1>4, <1>5
    <3> HIDE DEF e, d
    <3>2. d <= e => d <= trips'
      BY <3>1
    <3> QED BY <3>2 DEF e, d
  <2> QED BY <1>1, <2>1, <2>2 DEF EndsAreClosed
<1> QED BY <1>1, <1>6, <1>7, <1>8, BookOnly DEF TradesInv

(* A close that fails is forgiven. *)
LEMMA CloseFailsOK ==
  ASSUME TradesInv, CloseFails
  PROVE  TradesInv'
<1>1. /\ TradesTypeOK /\ closing' = NoClose /\ forgiven' = shown.ended
      /\ UNCHANGED <<book, stream, lost, posVars, szi, posBuf, posDue, posRead, featSzi, closeQ, trips, shown, blur>>
  BY DEF CloseFails, TradesInv, posVars
<1>2. Now' = Now /\ Now \in Nat /\ shown.ended \in 0 .. Now
  BY <1>1, SameBook, TradesFields
<1>3. /\ closing'.pc = "idle" /\ closing' \in [pc : {"idle", "waiting", "read"}, upTo : 0 .. Now]
  BY <1>1, <1>2 DEF NoClose
<1>4. TradesTypeOK'
  BY <1>1, <1>2, <1>3 DEF TradesTypeOK
<1>5. ShownFits' /\ EndsAreClosed'
  <2>1. HeldAt(shown.ms)' = HeldAt(shown.ms) /\ Ended(shown.ms)' = Ended(shown.ms)
    BY <1>1 DEF HeldAt, Ended, Ends
  <2>2. shown.ended <= forgiven'
    BY <1>1, <1>2
  <2> QED BY <1>1, <1>3, <2>1, <2>2 DEF TradesInv, ShownFits, EndsAreClosed
<1> QED BY <1>1, <1>4, <1>5, BookOnly DEF TradesInv

-----------------------------------------------------------------------------
(* Every step keeps the invariant. *)
LEMMA TradesStepOK ==
  ASSUME TradesInv, [TradesNext]_tradesVars
  PROVE  TradesInv'
<1>1. CASE UNCHANGED tradesVars
  <2>1. /\ TradesTypeOK
        /\ UNCHANGED <<book, stream, lost, posVars, szi, posBuf, posDue, posRead, tripVars, featSzi, closeQ, closing,
                       trips, shown, forgiven, blur>>
    BY <1>1 DEF tradesVars, posVars, tripVars, TradesInv
  <2>2. Now' = Now /\ \A t : HeldAt(t)' = HeldAt(t) /\ Ended(t)' = Ended(t)
    BY <2>1, SameBook
  <2>3. TradesTypeOK'
    BY <2>1, <2>2 DEF TradesTypeOK
  <2>4. QueueFits' /\ SizeFits' /\ ReadFits'
    BY <2>1, BookOnly
  <2>5. ShownFits' /\ EndsAreClosed'
    <3>1. posRead'.pc = "answered" => shown.ms <= posRead'.ms
      BY <2>1 DEF TradesInv, ShownFits
    <3> QED BY <2>1, <2>2, <3>1, TripsStand
  <2> QED BY <2>3, <2>4, <2>5 DEF TradesInv
<1>2. CASE TradesNext
  BY <1>2, TradeMadeOK, StreamDropOK, StreamUpOK, SubscribeOK, PosTradeOK, PosSweepOK, PosTakeOK, StateReadOK,
     StateReadFailsOK, AdoptOK, PosDoneOK, CloseTakeOK, CloseReadOK, CloseStoreOK, CloseFailsOK DEF TradesNext
<1> QED BY <1>1, <1>2

(* So it holds at all times. *)
LEMMA TradesInvHolds == TradesSpec => []TradesInv
<1>1. TradesInit => TradesInv
  BY TradesInitOK
<1>2. TradesInv /\ [TradesNext]_tradesVars => TradesInv'
  BY TradesStepOK
<1> QED BY <1>1, <1>2, PTL DEF TradesSpec

(* Every variable of the feed stays in its type. *)
THEOREM TradesTyped == TradesSpec => []TradesTypeOK
<1>1. TradesInv => TradesTypeOK
  BY DEF TradesInv
<1> QED BY <1>1, TradesInvHolds, PTL

(* The feed follows the account: its size, whatever order trades, states    *)
(* and connections come in, and the end of each position it was shown.      *)
THEOREM FollowsTheAccount == TradesSpec => []FeedFollows
<1>1. TradesInv => FeedFollows
  <2> SUFFICES ASSUME TradesInv PROVE FeedFollows
    OBVIOUS
  <2>1. SizesFollowed
    <3> SUFFICES ASSUME stream.st = "subscribed", stream.queue = <<>>, posRead.pc = "idle", szi.known,
                        "sizes" \notin blur
                 PROVE  szi.size = HeldAt(Now)
      BY DEF SizesFollowed
    <3>1. Now \in Nat /\ szi.ms \in 0 .. Now
      BY TradesFields DEF TradesInv
    <3>2. Got = Now
      BY <3>1 DEF Got
    <3>3. Latest(szi.ms, Got) = Now
      BY <3>1, <3>2 DEF Latest
    <3> QED BY <3>3 DEF TradesInv, SizeFits
  <2> QED BY <2>1 DEF TradesInv, FeedFollows
<1> QED BY <1>1, TradesInvHolds, PTL
=============================================================================
