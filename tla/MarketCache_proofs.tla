------------------------- MODULE MarketCache_proofs -------------------------
(***************************************************************************)
(* One flight per key and data that never goes back, for any number of     *)
(* keys, callers and lock objects, any lifetimes and any budget.           *)
(***************************************************************************)
EXTENDS MarketCache, TLAPS

At == {"idle", "waits", "asked", "read"}
Caller == [at : At, key : Keys \cup {NoKey}, lock : Locks \cup {NoLock}, data : Versions]
Entry == [data : Versions, age : Int]
Flying(c) == caller[c].at \in {"asked", "read"}

\* A caller that is not idle is after a key that is fetched, with a lock; while
\* it fetches it holds that lock.
CallersSound == \A c \in Callers :
    \/ caller[c] = Idle
    \/ /\ caller[c].at # "idle"
       /\ caller[c].key \in Keys \ Streamed /\ caller[c].lock \in Locks
       /\ Flying(c) => holder[caller[c].lock] = c

\* Unless it was dropped, the lock of a key is the lock of all who are after it.
SameLock == \A c \in Callers : \A k \in Keys :
    caller[c].key = k /\ k \notin dropped => caller[c].lock = lockOf[k]

\* Nothing shows what the exchange does not have yet; and what a caller has read
\* is no older than what is cached meanwhile.
NothingAhead ==
    /\ \A k \in Keys : entry[k].data <= world[k]
    /\ \A c \in Callers : \A k \in Keys :
         caller[c].key = k /\ caller[c].at = "read" => caller[c].data <= world[k]
ReadIsNewer == \A c \in Callers : \A k \in Keys :
    caller[c].key = k /\ caller[c].at = "read" /\ k \notin dropped /\ Present(k)
        => entry[k].data <= caller[c].data

CacheInv == TypeOK /\ CallersSound /\ SameLock /\ NothingAhead /\ ReadIsNewer
LEMMA CacheTypes ==
  ASSUME CacheInv
  PROVE  /\ world \in [Keys -> Nat] /\ entry \in [Keys -> Entry]
         /\ \A k \in Keys : entry[k].age \in -1 .. TTL[k]
         /\ lockOf \in [Keys -> Locks \cup {NoLock}]
         /\ holder \in [Locks -> Callers \cup {NoCaller}]
         /\ caller \in [Callers -> Caller] /\ dropped \subseteq Keys
         /\ TTL \in [Keys -> Nat \ {0}]
         /\ NoKey \notin Keys /\ NoLock \notin Locks /\ NoCaller \notin Callers
  BY CacheAssumption DEF CacheInv, TypeOK, Caller, At, Entry, Versions

LEMMA InitCache == Init => CacheInv
<1> SUFFICES ASSUME Init PROVE CacheInv
  OBVIOUS
<1>1. \A k \in Keys : entry[k] = None /\ world[k] = 0
  BY DEF Init
<1>2. \A c \in Callers : caller[c] = Idle
  BY DEF Init
<1>3. None \in Entry /\ None.data = 0 /\ None.age = -1
  BY DEF None, Entry, Versions
<1>4. Idle \in Caller /\ Idle.key = NoKey /\ Idle.at = "idle" /\ Idle.lock = NoLock
  BY DEF Idle, Caller, At, Versions
<1>5. TypeOK
  <2>1. \A k \in Keys : entry[k].age \in -1 .. TTL[k]
    BY <1>1, <1>3, CacheAssumption
  <2>2. entry \in [Keys -> [data : Versions, age : Int]]
    BY <1>3 DEF Init, Entry
  <2>3. caller \in [Callers -> Caller]
    BY <1>4 DEF Init
  <2> QED BY <2>1, <2>2, <2>3 DEF Init, TypeOK, Caller, At, Versions
<1>6. CallersSound /\ SameLock
  BY <1>2, <1>4, CacheAssumption DEF CallersSound, SameLock
<1>7. NothingAhead /\ ReadIsNewer
  BY <1>1, <1>2, <1>3, <1>4 DEF NothingAhead, ReadIsNewer
<1> QED BY <1>5, <1>6, <1>7 DEF CacheInv

-----------------------------------------------------------------------------
(* What the marks of dropped locks are good for *)

\* A key that somebody is after and that is not marked keeps its lock.
LEMMA Unmarked ==
  ASSUME CacheInv, Witness, NEW k \in Keys, k \notin dropped', NEW c \in Callers,
         caller'[c].key = k
  PROVE  k \notin dropped /\ lockOf[k] \in {NoLock, lockOf'[k]}
<1>1. After(k)' # {}
  BY DEF After
<1> QED BY <1>1 DEF Witness

\* The lock of a key stays the lock of all who are after it, when those who are
\* new have taken it.
LEMMA SameLockKept ==
  ASSUME CacheInv, Witness,
         \A c \in Callers : caller'[c].key \in Keys =>
             \/ caller'[c].key = caller[c].key /\ caller'[c].lock = caller[c].lock
             \/ caller'[c].lock = lockOf'[caller'[c].key]
  PROVE  SameLock' /\ dropped' \subseteq Keys
<1> SUFFICES ASSUME NEW c \in Callers, NEW k \in Keys, caller'[c].key = k, k \notin dropped'
             PROVE  caller'[c].lock = lockOf'[k]
  BY DEF SameLock, Witness
<1>1. k \notin dropped /\ lockOf[k] \in {NoLock, lockOf'[k]}
  BY Unmarked
<1>2. CASE caller[c].key = k /\ caller'[c].lock = caller[c].lock
  <2>1. caller[c].lock = lockOf[k]
    BY <1>1, <1>2 DEF CacheInv, SameLock
  <2>2. caller[c].lock \in Locks /\ NoLock \notin Locks
    BY <1>2, CacheAssumption DEF CacheInv, CallersSound, Idle
  <2> QED BY <1>1, <1>2, <2>1, <2>2
<1> QED BY <1>2

\* Of those who are after an unmarked key, one fetches.
LEMMA OneFlight ==
  ASSUME CacheInv, NEW k \in Keys, k \notin dropped, NEW c \in Callers, NEW d \in Callers,
         caller[c].key = k, caller[d].key = k, Flying(c), Flying(d)
  PROVE  c = d
<1>1. caller[c].lock = caller[d].lock
  BY DEF CacheInv, SameLock
<1>2. caller[c] # Idle /\ caller[d] # Idle
  BY CacheAssumption DEF Idle
<1>3. holder[caller[c].lock] = c /\ holder[caller[d].lock] = d
  BY <1>2 DEF CacheInv, CallersSound
<1> QED BY <1>1, <1>3

-----------------------------------------------------------------------------
(* Every step keeps the invariant *)

\* What is left to show for a step that leaves the callers and their locks.
LEMMA CallersKept ==
  ASSUME CacheInv, Witness, UNCHANGED <<lockOf, holder, caller>>
  PROVE  CallersSound' /\ SameLock' /\ dropped' \subseteq Keys
         /\ \A c \in Callers : \A k \in Keys :
              caller[c].key = k /\ k \notin dropped' => k \notin dropped
<1>1. CallersSound'
  BY DEF CacheInv, CallersSound, Flying
<1>2. SameLock' /\ dropped' \subseteq Keys
  BY SameLockKept
<1>3. \A c \in Callers : \A k \in Keys :
              caller[c].key = k /\ k \notin dropped' => k \notin dropped
  BY Unmarked
<1> QED BY <1>1, <1>2, <1>3

LEMMA FeedKeeps ==
  ASSUME CacheInv, Witness, NEW f \in Streamed, Feed(f)
  PROVE  CacheInv'
<1>1. UNCHANGED <<world, lockOf, holder, caller>> /\ f \in Keys
  BY CacheAssumption DEF Feed
<1>2. CallersSound' /\ SameLock' /\ dropped' \subseteq Keys
      /\ \A c \in Callers : \A k \in Keys :
           caller[c].key = k /\ k \notin dropped' => k \notin dropped
  BY <1>1, CallersKept
<1>3. \A k \in Keys : entry'[k] = IF k = f THEN [data |-> world[f], age |-> 0] ELSE entry[k]
  BY CacheTypes DEF Feed
<1>4. entry' \in [Keys -> Entry] /\ \A k \in Keys : entry'[k].age \in -1 .. TTL[k]
  <2>1. [data |-> world[f], age |-> 0] \in Entry
    BY <1>1, CacheTypes DEF Entry, Versions
  <2>2. entry' \in [Keys -> Entry]
    BY <2>1, CacheTypes DEF Feed
  <2>3. ASSUME NEW k \in Keys PROVE entry'[k].age \in -1 .. TTL[k]
    BY <1>3, CacheTypes
  <2> QED BY <2>2, <2>3
<1>5. TypeOK'
  BY <1>1, <1>2, <1>4 DEF CacheInv, TypeOK, Entry
<1>6. NothingAhead'
  BY <1>1, <1>3, CacheTypes DEF CacheInv, NothingAhead
<1>7. ReadIsNewer'
  <2> SUFFICES ASSUME NEW c \in Callers, NEW k \in Keys, caller[c].key = k,
                      caller[c].at = "read", k \notin dropped', entry'[k] # None
               PROVE  entry'[k].data <= caller[c].data
    BY <1>1 DEF ReadIsNewer, Present
  <2>1. k # f
    BY DEF CacheInv, CallersSound, Idle
  <2> QED BY <1>2, <1>3, <2>1 DEF CacheInv, ReadIsNewer, Present
<1> QED BY <1>2, <1>5, <1>6, <1>7 DEF CacheInv

LEMMA ChangeKeeps ==
  ASSUME CacheInv, Witness, NEW x \in Keys, Change(x)
  PROVE  CacheInv'
<1>1. UNCHANGED <<entry, lockOf, holder, caller>>
  BY DEF Change
<1>2. CallersSound' /\ SameLock' /\ dropped' \subseteq Keys
      /\ \A c \in Callers : \A k \in Keys :
           caller[c].key = k /\ k \notin dropped' => k \notin dropped
  BY <1>1, CallersKept
<1>3. world' \in [Keys -> Nat] /\ \A k \in Keys : world[k] <= world'[k]
  BY CacheTypes DEF Change
<1>4. TypeOK'
  BY <1>1, <1>2, <1>3 DEF CacheInv, TypeOK, Versions
<1>5. NothingAhead'
  <2>1. \A k \in Keys : entry[k].data \in Nat /\ world[k] \in Nat /\ world'[k] \in Nat
    BY <1>3, CacheTypes DEF Entry, Versions
  <2>2. \A c \in Callers : caller[c].data \in Nat
    BY CacheTypes DEF Caller, Versions
  <2>3. \A k \in Keys : entry[k].data <= world'[k]
    BY <1>3, <2>1 DEF CacheInv, NothingAhead
  <2>4. ASSUME NEW c \in Callers, NEW k \in Keys, caller[c].key = k, caller[c].at = "read"
        PROVE  caller[c].data <= world'[k]
    BY <1>3, <2>1, <2>2, <2>4 DEF CacheInv, NothingAhead
  <2> QED BY <1>1, <2>3, <2>4 DEF NothingAhead
<1>6. ReadIsNewer'
  BY <1>1, <1>2 DEF CacheInv, ReadIsNewer, Present
<1> QED BY <1>2, <1>4, <1>5, <1>6 DEF CacheInv

\* An entry that is removed or gets older.
LEMMA EntriesFade ==
  ASSUME CacheInv, Witness, UNCHANGED <<world, lockOf, holder, caller>>,
         entry' \in [Keys -> Entry],
         \A k \in Keys : entry'[k].age \in -1 .. TTL[k],
         \A k \in Keys : entry'[k] = None \/ (Present(k) /\ entry'[k].data = entry[k].data)
  PROVE  CacheInv'
<1>1. CallersSound' /\ SameLock' /\ dropped' \subseteq Keys
      /\ \A c \in Callers : \A k \in Keys :
           caller[c].key = k /\ k \notin dropped' => k \notin dropped
  BY CallersKept
<1>2. TypeOK'
  BY <1>1 DEF CacheInv, TypeOK, Entry
<1>3. NothingAhead'
  <2>1. ASSUME NEW k \in Keys PROVE entry'[k].data <= world[k]
    BY CacheTypes DEF CacheInv, NothingAhead, None
  <2> QED BY <2>1 DEF CacheInv, NothingAhead
<1>4. ReadIsNewer'
  BY <1>1 DEF CacheInv, ReadIsNewer, Present
<1> QED BY <1>1, <1>2, <1>3, <1>4 DEF CacheInv

LEMMA InvalidateKeeps ==
  ASSUME CacheInv, Witness, NEW S \in SUBSET Keys, Invalidate(S)
  PROVE  CacheInv'
<1>1. UNCHANGED <<world, lockOf, holder, caller>>
      /\ entry' = [k \in Keys |-> IF k \in S THEN None ELSE entry[k]]
  BY DEF Invalidate
<1>2. None \in Entry /\ None.age = -1
  BY DEF None, Entry, Versions
<1>3. entry' \in [Keys -> Entry]
  BY <1>1, <1>2, CacheTypes
<1>4. ASSUME NEW k \in Keys
      PROVE  entry'[k].age \in -1 .. TTL[k]
             /\ (entry'[k] = None \/ (Present(k) /\ entry'[k].data = entry[k].data))
  BY <1>1, <1>2, CacheTypes DEF Present
<1> QED BY <1>1, <1>3, <1>4, EntriesFade

LEMMA TickKeeps ==
  ASSUME CacheInv, Witness, Tick
  PROVE  CacheInv'
<1>1. UNCHANGED <<world, lockOf, holder, caller>> /\ entry' = [k \in Keys |-> Older(k)]
  BY DEF Tick
<1>2. ASSUME NEW k \in Keys
      PROVE  Older(k) \in Entry /\ Older(k).age \in -1 .. TTL[k]
             /\ (Older(k) = None \/ (Present(k) /\ Older(k).data = entry[k].data))
  <2>1. entry[k] \in Entry /\ entry[k].age \in -1 .. TTL[k] /\ TTL[k] \in Nat
    BY CacheTypes
  <2>2. CASE Hit(k)
    <3>1. Older(k) = [entry[k] EXCEPT !.age = entry[k].age + 1]
      BY <2>2 DEF Older
    <3>2. Older(k) = [data |-> entry[k].data, age |-> entry[k].age + 1]
      BY <2>1, <3>1 DEF Entry
    <3> QED BY <2>1, <2>2, <3>2 DEF Hit, Entry
  <2>3. CASE ~ Hit(k)
    BY <2>1, <2>3 DEF Older, Present
  <2> QED BY <2>2, <2>3
<1>3. entry' \in [Keys -> Entry]
  BY <1>1, <1>2
<1> QED BY <1>1, <1>2, <1>3, EntriesFade
\* A step of one caller that leaves what is cached: the others stay as they are
\* and hold what they held.
LEMMA CallerStep ==
  ASSUME CacheInv, Witness, UNCHANGED <<world, entry>>,
         NEW c \in Callers, NEW r \in Caller, caller' = [caller EXCEPT ![c] = r],
         lockOf' \in [Keys -> Locks \cup {NoLock}],
         holder' \in [Locks -> Callers \cup {NoCaller}],
         \/ r = Idle
         \/ /\ r.at # "idle" /\ r.key \in Keys \ Streamed /\ r.lock \in Locks
            /\ r.at \in {"asked", "read"} => holder'[r.lock] = c,
         r.key \in Keys => \/ r.key = caller[c].key /\ r.lock = caller[c].lock
                           \/ r.lock = lockOf'[r.key],
         r.at = "read" => r.data = world[r.key],
         \A d \in Callers \ {c} : Flying(d) => holder'[caller[d].lock] = d
  PROVE  CacheInv'
<1>1. caller'[c] = r /\ \A d \in Callers : d # c => caller'[d] = caller[d]
  BY CacheTypes
<1>2. CallersSound'
  <2>1. ASSUME NEW d \in Callers, d # c
        PROVE  \/ caller'[d] = Idle
               \/ /\ caller'[d].at # "idle"
                  /\ caller'[d].key \in Keys \ Streamed /\ caller'[d].lock \in Locks
                  /\ caller'[d].at \in {"asked", "read"} => holder'[caller'[d].lock] = d
    BY <1>1, <2>1 DEF CacheInv, CallersSound, Flying
  <2> QED BY <1>1, <2>1 DEF CallersSound, Flying
<1>3. SameLock' /\ dropped' \subseteq Keys
  <2>1. \A d \in Callers : caller'[d].key \in Keys =>
             \/ caller'[d].key = caller[d].key /\ caller'[d].lock = caller[d].lock
             \/ caller'[d].lock = lockOf'[caller'[d].key]
    BY <1>1
  <2> QED BY <2>1, SameLockKept
<1>4. TypeOK'
  <2>1. caller' \in [Callers -> Caller]
    BY CacheTypes
  <2> QED BY <1>3, <2>1 DEF CacheInv, TypeOK, Caller, At
<1>5. \A k \in Keys : world[k] \in Nat /\ entry[k].data <= world[k]
  BY CacheTypes DEF CacheInv, NothingAhead
<1>6. NothingAhead'
  <2>1. ASSUME NEW d \in Callers, NEW k \in Keys, caller'[d].key = k, caller'[d].at = "read"
        PROVE  caller'[d].data <= world[k]
    <3>1. CASE d = c
      BY <1>1, <1>5, <2>1, <3>1
    <3>2. CASE d # c
      BY <1>1, <2>1, <3>2 DEF CacheInv, NothingAhead
    <3> QED BY <3>1, <3>2
  <2> QED BY <1>5, <2>1 DEF NothingAhead
<1>7. ReadIsNewer'
  <2> SUFFICES ASSUME NEW d \in Callers, NEW k \in Keys, caller'[d].key = k,
                      caller'[d].at = "read", k \notin dropped', entry[k] # None
               PROVE  entry[k].data <= caller'[d].data
    BY DEF ReadIsNewer, Present
  <2>1. CASE d = c
    BY <1>1, <1>5, <2>1
  <2>2. CASE d # c
    <3>1. k \notin dropped
      BY Unmarked
    <3> QED BY <1>1, <2>2, <3>1 DEF CacheInv, ReadIsNewer, Present
  <2> QED BY <2>1, <2>2
<1> QED BY <1>2, <1>3, <1>4, <1>6, <1>7 DEF CacheInv

LEMMA IdleIs ==
  /\ Idle \in Caller /\ Idle.at = "idle" /\ Idle.key = NoKey
  /\ Idle.lock = NoLock /\ Idle.key \notin Keys
  BY CacheAssumption DEF Idle, Caller, At, Versions

\* Those who fetch are not idle, and hold their locks.
LEMMA Holders ==
  ASSUME CacheInv, NEW d \in Callers, Flying(d)
  PROVE  holder[caller[d].lock] = d /\ caller[d].lock \in Locks
         /\ caller[d].key \in Keys \ Streamed
  BY IdleIs DEF CacheInv, CallersSound, Flying

LEMMA MissKeeps ==
  ASSUME CacheInv, Witness, NEW c \in Callers, NEW k \in Keys \ Streamed, Miss(c, k)
  PROVE  CacheInv'
<1>1. PICK l \in Locks :
        /\ lockOf' = [lockOf EXCEPT ![k] = l]
        /\ IF Taken(l) THEN Waits(c, k, l) ELSE Fetches(c, k, l)
  <2> DEFINE new == IF lockOf[k] = NoLock THEN CHOOSE u \in Unused : TRUE ELSE lockOf[k]
  <2>1. lockOf' = [lockOf EXCEPT ![k] = new]
        /\ IF Taken(new) THEN Waits(c, k, new) ELSE Fetches(c, k, new)
    BY DEF Miss
  <2>2. new \in Locks
    <3>1. CASE lockOf[k] = NoLock
      <4>1. (CHOOSE u \in Unused : TRUE) \in Unused
        BY <3>1 DEF Miss
      <4> QED BY <3>1, <4>1 DEF Unused
    <3>2. CASE lockOf[k] # NoLock
      BY <3>2, CacheTypes
    <3> QED BY <3>1, <3>2
  <2> HIDE DEF new
  <2> QED BY <2>1, <2>2
<1>2. UNCHANGED <<world, entry>>
  BY DEF Miss
<1>3. lockOf' \in [Keys -> Locks \cup {NoLock}] /\ lockOf'[k] = l
  BY <1>1, CacheTypes
<1>4. CASE Taken(l)
  <2> DEFINE r == [Idle EXCEPT !.at = "waits", !.key = k, !.lock = l]
  <2>1. k \in Keys \cup {NoKey} /\ l \in Locks \cup {NoLock} /\ "waits" \in At
    BY DEF At
  <2>2. r \in Caller /\ r.at = "waits" /\ r.key = k /\ r.lock = l
    BY <2>1, IdleIs DEF Caller
  <2>3. caller' = [caller EXCEPT ![c] = r] /\ UNCHANGED holder
    BY <1>1, <1>4 DEF Waits
  <2>4. \A d \in Callers \ {c} : Flying(d) => holder'[caller[d].lock] = d
    BY <2>3, Holders
  <2>5. holder' \in [Locks -> Callers \cup {NoCaller}]
    BY <2>3, CacheTypes
  <2> HIDE DEF r
  <2> QED BY <1>2, <1>3, <2>2, <2>3, <2>4, <2>5, CallerStep
<1>5. CASE ~ Taken(l)
  <2> DEFINE r == [at |-> "asked", key |-> k, lock |-> l, data |-> 0]
  <2>1. r \in Caller /\ r.at = "asked" /\ r.key = k /\ r.lock = l
    BY DEF Caller, At, Versions
  <2>2. caller' = [caller EXCEPT ![c] = r] /\ holder' = [holder EXCEPT ![l] = c]
    BY <1>1, <1>5 DEF Fetches
  <2>3. holder' \in [Locks -> Callers \cup {NoCaller}] /\ holder'[l] = c
    BY <2>2, CacheTypes
  <2>4. ASSUME NEW d \in Callers \ {c}, Flying(d) PROVE holder'[caller[d].lock] = d
    <3>1. caller[d].lock # l
      BY <1>5 DEF Taken
    <3> QED BY <2>2, <2>4, <3>1, Holders, CacheTypes
  <2> HIDE DEF r
  <2> QED BY <1>2, <1>3, <2>1, <2>2, <2>3, <2>4, CallerStep
<1> QED BY <1>4, <1>5

\* What a release does to the locks.
LEMMA Released ==
  ASSUME CacheInv, NEW c \in Callers, Release(c)
  PROVE  /\ caller' = [caller EXCEPT ![c] = Idle]
         /\ holder' \in [Locks -> Callers \cup {NoCaller}]
         /\ \A d \in Callers \ {c} : Flying(d) => holder'[caller[d].lock] = d
<1>1. holder' = [l \in Locks |-> IF holder[l] = c THEN NoCaller ELSE holder[l]]
      /\ caller' = [caller EXCEPT ![c] = Idle]
  BY DEF Release
<1>2. holder' \in [Locks -> Callers \cup {NoCaller}]
  BY <1>1, CacheTypes
<1>3. ASSUME NEW d \in Callers \ {c}, Flying(d) PROVE holder'[caller[d].lock] = d
  BY <1>1, <1>3, Holders
<1> QED BY <1>1, <1>2, <1>3

LEMMA EndKeeps ==
  ASSUME CacheInv, Witness, NEW c \in Callers, FetchFails(c) \/ Cancelled(c)
  PROVE  CacheInv'
<1>1. Release(c) /\ UNCHANGED <<world, entry, lockOf>>
  BY DEF FetchFails, Cancelled
<1>2. lockOf' \in [Keys -> Locks \cup {NoLock}]
  BY <1>1, CacheTypes
<1> QED BY <1>1, <1>2, IdleIs, Released, CallerStep

LEMMA AcquireKeeps ==
  ASSUME CacheInv, Witness, NEW c \in Callers, Acquire(c)
  PROVE  CacheInv'
<1> DEFINE k == caller[c].key
           l == caller[c].lock
<1>1. UNCHANGED <<world, entry, lockOf>> /\ caller[c].at = "waits" /\ holder[l] = NoCaller
  BY DEF Acquire
<1>2. k \in Keys \ Streamed /\ l \in Locks
  BY <1>1, IdleIs DEF CacheInv, CallersSound
<1>3. lockOf' \in [Keys -> Locks \cup {NoLock}]
  BY <1>1, CacheTypes
<1>4. CASE caller' = [caller EXCEPT ![c] = Idle] /\ UNCHANGED holder
  <2>1. \A d \in Callers \ {c} : Flying(d) => holder'[caller[d].lock] = d
    BY <1>4, Holders
  <2>2. holder' \in [Locks -> Callers \cup {NoCaller}]
    BY <1>4, CacheTypes
  <2> QED BY <1>1, <1>3, <1>4, <2>1, <2>2, IdleIs, CallerStep
<1>5. CASE Fetches(c, k, l)
  <2> DEFINE r == [at |-> "asked", key |-> k, lock |-> l, data |-> 0]
  <2>1. r \in Caller /\ r.at = "asked" /\ r.key = k /\ r.lock = l
    BY <1>2 DEF Caller, At, Versions
  <2>2. caller' = [caller EXCEPT ![c] = r] /\ holder' = [holder EXCEPT ![l] = c]
    BY <1>5 DEF Fetches
  <2>3. holder' \in [Locks -> Callers \cup {NoCaller}] /\ holder'[l] = c
    BY <1>2, <2>2, CacheTypes
  <2>4. ASSUME NEW d \in Callers \ {c}, Flying(d) PROVE holder'[caller[d].lock] = d
    <3>1. holder[caller[d].lock] = d /\ d # NoCaller
      BY <2>4, Holders, CacheAssumption
    <3>2. caller[d].lock # l /\ caller[d].lock \in Locks
      BY <1>1, <2>4, <3>1, Holders
    <3> QED BY <2>2, <3>1, <3>2, CacheTypes
  <2> HIDE DEF r
  <2> QED BY <1>1, <1>2, <1>3, <2>1, <2>2, <2>3, <2>4, CallerStep
<1> QED BY <1>4, <1>5 DEF Acquire

LEMMA ReadKeeps ==
  ASSUME CacheInv, Witness, NEW c \in Callers, ExchangeReads(c)
  PROVE  CacheInv'
<1> DEFINE k == caller[c].key
           l == caller[c].lock
           r == [caller[c] EXCEPT !.at = "read", !.data = world[k]]
<1>1. UNCHANGED <<world, entry, lockOf, holder>> /\ Flying(c)
      /\ caller' = [caller EXCEPT ![c].at = "read", ![c].data = world[k]]
  BY DEF ExchangeReads, Flying
<1>2. k \in Keys \ Streamed /\ l \in Locks /\ holder[l] = c
  BY <1>1, Holders
<1>3. caller[c] \in Caller /\ world[k] \in Nat
  BY <1>2, CacheTypes
<1>4. caller' = [caller EXCEPT ![c] = r]
  BY <1>1, CacheTypes
<1>5. r \in Caller /\ r.at = "read" /\ r.key = k /\ r.lock = l /\ r.data = world[k]
  <2>1. "read" \in At /\ world[k] \in Versions
    BY <1>3 DEF At, Versions
  <2> QED BY <1>3, <2>1 DEF Caller
<1>6. lockOf' \in [Keys -> Locks \cup {NoLock}] /\ holder' \in [Locks -> Callers \cup {NoCaller}]
  BY <1>1, CacheTypes
<1>7. \A d \in Callers \ {c} : Flying(d) => holder'[caller[d].lock] = d
  BY <1>1, Holders
<1>8. /\ r.at # "idle" /\ r.key \in Keys \ Streamed /\ r.lock \in Locks
      /\ holder'[r.lock] = c /\ r.data = world[r.key]
      /\ r.key = caller[c].key /\ r.lock = caller[c].lock
  BY <1>1, <1>2, <1>5
<1>9. UNCHANGED <<world, entry>> /\ r \in Caller
  BY <1>1, <1>5
<1> HIDE DEF r, k, l
<1> QED BY <1>4, <1>6, <1>7, <1>8, <1>9, CallerStep
\* What is kept of the entries, and of the locks, when an answer is stored.
LEMMA Storing ==
  ASSUME CacheInv, NEW c \in Callers, FetchReturns(c)
  PROVE  LET k == caller[c].key IN
         /\ k \in Keys \ Streamed /\ Flying(c) /\ caller[c].at = "read"
         /\ caller[c].data \in Nat
         /\ entry' \in [Keys -> Entry]
         /\ lockOf' \in [Keys -> Locks \cup {NoLock}]
         /\ entry'[k] = None \/ entry'[k] = NewEntry(c)
         /\ \A x \in Keys \ {k} : entry'[x] = None \/ entry'[x] = entry[x]
<1> DEFINE k == caller[c].key
           e == [entry EXCEPT ![k] = NewEntry(c)]
<1>1. caller[c].at = "read" /\ Flying(c) /\ k \in Keys \ Streamed
  BY Holders DEF FetchReturns, Flying
<1>2. PICK S \in Kept(e) : /\ entry' = [x \in Keys |-> IF x \in S THEN e[x] ELSE None]
                           /\ DropsLocks(e, S)
  BY DEF FetchReturns
<1>3. None \in Entry /\ NewEntry(c) \in Entry /\ caller[c].data \in Nat
  BY CacheTypes DEF None, NewEntry, Entry, Versions, Caller
<1>4. e \in [Keys -> Entry] /\ e[k] = NewEntry(c) /\ \A x \in Keys \ {k} : e[x] = entry[x]
  BY <1>1, <1>3, CacheTypes
<1> HIDE DEF e
<1>5. entry' \in [Keys -> Entry]
  BY <1>2, <1>3, <1>4
<1>6. lockOf' \in [Keys -> Locks \cup {NoLock}]
  BY <1>2, CacheTypes DEF DropsLocks
<1>7. \A x \in Keys : entry'[x] = None \/ entry'[x] = e[x]
  BY <1>2
<1> QED BY <1>1, <1>3, <1>4, <1>5, <1>6, <1>7

LEMMA ReturnKeeps ==
  ASSUME CacheInv, Witness, NEW c \in Callers, FetchReturns(c)
  PROVE  CacheInv'
<1> DEFINE k == caller[c].key
<1>1. /\ k \in Keys \ Streamed /\ Flying(c) /\ caller[c].at = "read"
      /\ caller[c].data \in Nat
      /\ entry' \in [Keys -> Entry]
      /\ lockOf' \in [Keys -> Locks \cup {NoLock}]
      /\ entry'[k] = None \/ entry'[k] = NewEntry(c)
      /\ \A x \in Keys \ {k} : entry'[x] = None \/ entry'[x] = entry[x]
  BY Storing
<1>2. UNCHANGED world /\ caller' = [caller EXCEPT ![c] = Idle]
      /\ holder' \in [Locks -> Callers \cup {NoCaller}]
      /\ \A d \in Callers \ {c} : Flying(d) => holder'[caller[d].lock] = d
  BY Released DEF FetchReturns
<1>3. caller'[c] = Idle /\ \A d \in Callers : d # c => caller'[d] = caller[d]
  BY <1>2, CacheTypes
<1>4. CallersSound'
  <2>1. ASSUME NEW d \in Callers, d # c
        PROVE  \/ caller'[d] = Idle
               \/ /\ caller'[d].at # "idle"
                  /\ caller'[d].key \in Keys \ Streamed /\ caller'[d].lock \in Locks
                  /\ caller'[d].at \in {"asked", "read"} => holder'[caller'[d].lock] = d
    BY <1>2, <1>3, <2>1 DEF CacheInv, CallersSound, Flying
  <2> QED BY <1>3, <2>1 DEF CallersSound, Flying
<1>5. SameLock' /\ dropped' \subseteq Keys
  <2>1. \A d \in Callers : caller'[d].key \in Keys =>
             caller'[d].key = caller[d].key /\ caller'[d].lock = caller[d].lock
    BY <1>3, IdleIs
  <2> QED BY <2>1, SameLockKept
<1>6. None.data = 0 /\ None.age = -1 /\ NewEntry(c).data = caller[c].data /\ NewEntry(c).age = 0
  BY DEF None, NewEntry
<1>7. TypeOK'
  <2>1. caller' \in [Callers -> Caller]
    BY <1>2, CacheTypes, IdleIs
  <2>2. ASSUME NEW x \in Keys PROVE entry'[x].age \in -1 .. TTL[x]
    BY <1>1, <1>6, CacheTypes
  <2> QED BY <1>1, <1>2, <1>5, <2>1, <2>2 DEF CacheInv, TypeOK, Caller, At, Entry
<1>8. NothingAhead'
  <2>1. ASSUME NEW x \in Keys PROVE entry'[x].data <= world[x]
    <3>1. world[x] \in Nat /\ entry[x].data <= world[x]
      BY CacheTypes DEF CacheInv, NothingAhead
    <3>2. caller[c].data <= world[k]
      BY <1>1 DEF CacheInv, NothingAhead
    <3> QED BY <1>1, <1>6, <3>1, <3>2
  <2>2. \A d \in Callers : caller'[d].at = "read" => d # c
    BY <1>3, IdleIs
  <2> QED BY <1>2, <1>3, <2>1, <2>2 DEF CacheInv, NothingAhead
<1>9. ReadIsNewer'
  <2> SUFFICES ASSUME NEW d \in Callers, NEW x \in Keys, caller'[d].key = x,
                      caller'[d].at = "read", x \notin dropped', entry'[x] # None
               PROVE  entry'[x].data <= caller'[d].data
    BY DEF ReadIsNewer, Present
  <2>1. d # c /\ caller'[d] = caller[d] /\ Flying(d)
    BY <1>3, IdleIs DEF Flying
  <2>2. x \notin dropped
    BY Unmarked
  <2>3. x # k
    BY <1>1, <2>1, <2>2, OneFlight
  <2>4. entry'[x] = entry[x] /\ Present(x)
    BY <1>1, <2>3 DEF Present
  <2> QED BY <2>1, <2>2, <2>4 DEF CacheInv, ReadIsNewer
<1> QED BY <1>4, <1>5, <1>7, <1>8, <1>9 DEF CacheInv

-----------------------------------------------------------------------------
LEMMA NextKeeps == CacheInv /\ [Next]_vars => CacheInv'
<1>1. ASSUME CacheInv, UNCHANGED vars PROVE CacheInv'
  BY <1>1 DEF vars, CacheInv, TypeOK, CallersSound, Flying, SameLock, NothingAhead,
     ReadIsNewer, Present
<1>2. ASSUME CacheInv, Next PROVE CacheInv'
  <2>1. Witness
    BY <1>2 DEF Next
  <2>2. ASSUME NEW c \in Callers, Call(c) PROVE CacheInv'
    BY <1>2, <2>1, <2>2, AcquireKeeps, ReadKeeps, ReturnKeeps, EndKeeps, MissKeeps DEF Call
  <2> QED BY <1>2, <2>1, <2>2, FeedKeeps, ChangeKeeps, InvalidateKeeps, TickKeeps DEF Next, Step
<1> QED BY <1>1, <1>2

LEMMA CacheInvariant == Spec => []CacheInv
  BY InitCache, NextKeeps, PTL DEF Spec

\* The types of the cache's dictionaries and of the local variables of its callers.
THEOREM CacheTypesHold == Spec => []TypeOK
<1>1. CacheInv => TypeOK
  BY DEF CacheInv
<1> QED BY <1>1, CacheInvariant, PTL

\* Two callers fetch a key at a time only when an eviction has dropped its lock
\* under one who is still after it (get_or_fetch, _evict_if_needed).
THEOREM MissesShareAFlight == Spec => []OneFlightPerLock
<1>1. CacheInv => OneFlightPerLock
  <2> SUFFICES ASSUME CacheInv, NEW k \in Keys, NEW c \in Fetching(k), NEW d \in Fetching(k),
                      c # d
               PROVE  k \in dropped
    BY DEF OneFlightPerLock
  <2> QED BY OneFlight DEF Fetching, After, Flying
<1> QED BY <1>1, CacheInvariant, PTL

\* As long as the lock of a key is not dropped, no fetch, feed or eviction takes
\* its cached data back to what the exchange said earlier (get_or_fetch).
THEOREM CacheNeverGoesBack == Spec => NeverBackwards
<1> DEFINE Back == \A k \in Keys :
               Present(k) /\ Present(k)' /\ entry'[k].data < entry[k].data => k \in dropped
<1>1. ASSUME CacheInv, [Next]_vars PROVE [Back]_vars
  <2> SUFFICES ASSUME Next, NEW k \in Keys, Present(k), entry'[k] # None,
                      entry'[k].data < entry[k].data, k \notin dropped
               PROVE  FALSE
    BY <1>1 DEF Present
  <2>1. entry[k].data \in Nat /\ world[k] \in Nat /\ entry[k].data <= world[k]
    BY <1>1, CacheTypes DEF CacheInv, NothingAhead, Entry, Versions
  <2>2. CASE entry'[k] = entry[k]
    BY <2>1, <2>2
  <2>3. ASSUME NEW f \in Streamed, Feed(f) PROVE FALSE
    <3>1. f \in Keys
      BY CacheAssumption
    <3>2. entry'[k] = entry[k] \/ entry'[k] = [data |-> world[k], age |-> 0]
      BY <1>1, <2>3, <3>1, CacheTypes DEF Feed
    <3> QED BY <2>1, <2>2, <3>2
  <2>4. ASSUME NEW S \in SUBSET Keys, Invalidate(S) PROVE FALSE
    BY <1>1, <2>2, <2>4, CacheTypes DEF Invalidate
  <2>5. CASE Tick
    <3>1. entry'[k] = Older(k) /\ entry[k] \in Entry
      BY <1>1, <2>5, CacheTypes DEF Tick
    <3>2. entry'[k].data = entry[k].data
      BY <3>1 DEF Older, Entry
    <3> QED BY <2>1, <3>2
  <2>6. ASSUME NEW c \in Callers, FetchReturns(c) PROVE FALSE
    <3>1. CASE caller[c].key = k
      <4>1. entry'[k] = NewEntry(c) /\ caller[c].at = "read" /\ caller[c].data \in Nat
        BY <1>1, <2>6, <3>1, Storing
      <4>2. entry[k].data <= caller[c].data
        BY <1>1, <3>1, <4>1 DEF CacheInv, ReadIsNewer
      <4> QED BY <2>1, <4>1, <4>2 DEF NewEntry
    <3>2. CASE caller[c].key # k
      <4>1. entry'[k] = entry[k]
        BY <1>1, <2>6, <3>2, Storing
      <4> QED BY <2>2, <4>1
    <3> QED BY <3>1, <3>2
  <2>7. CASE UNCHANGED entry
    BY <2>2, <2>7
  <2> QED BY <2>3, <2>4, <2>5, <2>6, <2>7
          DEF Next, Step, Call, Acquire, ExchangeReads, FetchFails, Cancelled, Miss, Change
<1>2. [][Next]_vars /\ []CacheInv => [][Back]_vars
  BY <1>1, PTL
<1> QED BY <1>2, CacheInvariant, PTL DEF Spec, NeverBackwards
=============================================================================
