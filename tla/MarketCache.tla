---------------------------- MODULE MarketCache ----------------------------
(***************************************************************************)
(* The shared cache of exchange data, core/market_cache.py.  get_or_fetch  *)
(* answers from an entry that has not expired; otherwise it fetches under  *)
(* a lock of the key, so that callers who miss together fetch once.  But   *)
(* eviction drops an entry together with the key's lock, whoever holds     *)
(* it, and an invalidation removes an entry under a fetch.                 *)
(*                                                                         *)
(* Neither _get_lock nor a free lock makes a caller wait, so a caller      *)
(* waits in two places: for a lock that is taken, and for its fetch.       *)
(* Time is kept as ages.  A datum is the version of the exchange's state   *)
(* that it shows.  Price feeds set keys of their own, which nobody         *)
(* fetches: their entries matter to the memory budget.                     *)
(***************************************************************************)
EXTENDS Integers, FiniteSets

CONSTANTS
    Keys, Callers,
    Streamed,     \* the keys price feeds set; the others are fetched
    Locks,        \* lock objects, of which at least one is always unused
    NoKey, NoLock, NoCaller,
    TTL,          \* lifetime of an entry of each key
    MaxEntries,   \* the memory budget, in entries
    MaxVersion    \* bound: changes of each key at the exchange

ASSUME CacheAssumption ==
    /\ TTL \in [Keys -> Nat \ {0}]
    /\ Streamed \subseteq Keys /\ MaxEntries \in Nat /\ MaxVersion \in [Keys -> Nat]
    /\ NoKey \notin Keys /\ NoLock \notin Locks /\ NoCaller \notin Callers

VARIABLES
    world,     \* the exchange: version of each key's data
    entry,     \* _entries, with the time since each was stored
    lockOf,    \* _locks
    holder,    \* who holds each lock object
    caller,    \* the callers of get_or_fetch
    dropped    \* history: keys whose lock was dropped under callers that are
               \* still after them

vars == <<world, entry, lockOf, holder, caller, dropped>>

Versions == Nat
None == [data |-> 0, age |-> -1]
Idle == [at |-> "idle", key |-> NoKey, lock |-> NoLock, data |-> 0]

Present(k) == entry[k] # None
HitEver(k) == Present(k)                                            \* mutant
Hit(k) == Present(k) /\ entry[k].age < TTL[k]

After(k) == {c \in Callers : caller[c].key = k}
Fetching(k) == {c \in After(k) : caller[c].at \in {"asked", "read"}}

\* Lock objects nobody refers to any more.
Unused == {l \in Locks :
    holder[l] = NoCaller /\ (\A k \in Keys : lockOf[k] # l) /\ \A c \in Callers : caller[c].lock # l}

TakenIfHeld(l) == FALSE                                             \* mutant
Taken(l) == holder[l] # NoCaller \/ \E c \in Callers : caller[c].lock = l

-----------------------------------------------------------------------------
(* get_or_fetch *)

Fetches(c, k, l) ==
    /\ holder' = [holder EXCEPT ![l] = c]
    /\ caller' = [caller EXCEPT ![c] =
         [at |-> "asked", key |-> k, lock |-> l, data |-> 0]]

Waits(c, k, l) ==
    /\ caller' = [caller EXCEPT ![c] = [Idle EXCEPT !.at = "waits", !.key = k, !.lock = l]]
    /\ UNCHANGED holder

\* A miss takes the key's lock, made now if it has none, or queues for it.
Miss(c, k) ==
    /\ caller[c] = Idle /\ ~Hit(k)
    /\ lockOf[k] = NoLock => Unused # {}
    /\ LET l == IF lockOf[k] = NoLock THEN CHOOSE u \in Unused : TRUE ELSE lockOf[k] IN
         /\ lockOf' = [lockOf EXCEPT ![k] = l]
         /\ IF Taken(l) THEN Waits(c, k, l) ELSE Fetches(c, k, l)
    /\ UNCHANGED <<world, entry>>

\* The lock is free: look again, and fetch if nobody has filled the entry.
Acquire(c) ==
    /\ caller[c].at = "waits" /\ holder[caller[c].lock] = NoCaller
    /\ IF Hit(caller[c].key)
       THEN caller' = [caller EXCEPT ![c] = Idle] /\ UNCHANGED holder
       ELSE Fetches(c, caller[c].key, caller[c].lock)
    /\ UNCHANGED <<world, entry, lockOf>>

\* The exchange reads what the answer will carry.
ExchangeReads(c) ==
    /\ caller[c].at = "asked"
    /\ caller' = [caller EXCEPT ![c].at = "read", ![c].data = world[caller[c].key]]
    /\ UNCHANGED <<world, entry, lockOf, holder>>

LeavesLocked(c) == caller' = [caller EXCEPT ![c] = Idle] /\ UNCHANGED holder    \* mutant
Release(c) ==
    /\ holder' = [l \in Locks |-> IF holder[l] = c THEN NoCaller ELSE holder[l]]
    /\ caller' = [caller EXCEPT ![c] = Idle]

\* An error ends the call, with the entry it saw before if there was one.
FetchFails(c) ==
    /\ caller[c].at \in {"asked", "read"}
    /\ Release(c)
    /\ UNCHANGED <<world, entry, lockOf>>

\* The caller's task is cancelled where it waits.
Cancelled(c) ==
    /\ caller[c].at # "idle"
    /\ Release(c)
    /\ UNCHANGED <<world, entry, lockOf>>

-----------------------------------------------------------------------------
(* Storing and evicting *)

\* What may be kept of the entries e: none that has expired, the youngest of
\* the others up to the budget.
Kept(e) ==
    LET live == {k \in Keys : e[k] # None /\ e[k].age < TTL[k]}
        room == IF Cardinality(live) <= MaxEntries THEN Cardinality(live) ELSE MaxEntries
    IN  {S \in SUBSET live :
           /\ Cardinality(S) = room
           /\ \A k \in S, x \in live \ S : e[k].age <= e[x].age}

\* A key that is evicted loses its lock; one without an entry keeps it.
DropsLocks(e, S) ==
    lockOf' = [k \in Keys |-> IF e[k] # None /\ k \notin S THEN NoLock ELSE lockOf[k]]

NewEntry(c) == [data |-> caller[c].data, age |-> 0]

FetchReturns(c) ==
    /\ caller[c].at = "read"
    /\ LET k == caller[c].key
           e == [entry EXCEPT ![k] = NewEntry(c)]
       IN  \E S \in Kept(e) :
             /\ entry' = [x \in Keys |-> IF x \in S THEN e[x] ELSE None]
             /\ DropsLocks(e, S)
    /\ Release(c)
    /\ UNCHANGED world

-----------------------------------------------------------------------------
(* The other operations, and the exchange *)

\* set_ticker.
Feed(k) ==
    /\ entry' = [entry EXCEPT ![k] = [data |-> world[k], age |-> 0]]
    /\ UNCHANGED <<world, lockOf, holder, caller>>

\* invalidate, invalidate_prefix and clear.
Invalidate(S) ==
    /\ \E k \in S : Present(k)
    /\ entry' = [k \in Keys |-> IF k \in S THEN None ELSE entry[k]]
    /\ UNCHANGED <<world, lockOf, holder, caller>>

Change(k) ==
    /\ world[k] < MaxVersion[k]
    /\ world' = [world EXCEPT ![k] = @ + 1]
    /\ UNCHANGED <<entry, lockOf, holder, caller>>

Older(k) == IF Hit(k) THEN [entry[k] EXCEPT !.age = @ + 1] ELSE entry[k]
Tick ==
    /\ entry' = [k \in Keys |-> Older(k)]
    /\ UNCHANGED <<world, lockOf, holder, caller>>

-----------------------------------------------------------------------------
Init ==
    /\ world = [k \in Keys |-> 0]
    /\ entry = [k \in Keys |-> None]
    /\ lockOf = [k \in Keys |-> NoLock]
    /\ holder = [l \in Locks |-> NoCaller]
    /\ caller = [c \in Callers |-> Idle]
    /\ dropped = {}

Call(c) ==
    \/ Acquire(c) \/ ExchangeReads(c) \/ FetchReturns(c) \/ FetchFails(c) \/ Cancelled(c)
    \/ \E k \in Keys \ Streamed : Miss(c, k)

Step ==
    \/ \E c \in Callers : Call(c)
    \/ \E k \in Streamed : Feed(k)
    \/ \E k \in Keys : Change(k)
    \/ \E S \in SUBSET Keys : Invalidate(S)
    \/ Tick

\* A key is marked until nobody is after it.
Witness == dropped' = {k \in Keys :
    After(k)' # {} /\ (k \in dropped \/ lockOf[k] \notin {NoLock, lockOf'[k]})}

Next == Step /\ Witness

\* asyncio wakes the waiters of a lock in turn, and a request ends by its timeout.
Fairness == \A c \in Callers :
    /\ SF_vars(Acquire(c) /\ Witness)
    /\ WF_vars((ExchangeReads(c) \/ FetchReturns(c) \/ FetchFails(c)) /\ Witness)

Spec == Init /\ [][Next]_vars /\ Fairness

-----------------------------------------------------------------------------
(* Properties *)

\* The types of the cache's dictionaries and of the local variables of its callers.
TypeOK ==
    /\ world \in [Keys -> Versions]
    /\ entry \in [Keys -> [data : Versions, age : Int]]
    /\ \A k \in Keys : entry[k].age \in -1 .. TTL[k]
    /\ lockOf \in [Keys -> Locks \cup {NoLock}]
    /\ holder \in [Locks -> Callers \cup {NoCaller}]
    /\ caller \in [Callers -> [at : {"idle", "waits", "asked", "read"}, key : Keys \cup {NoKey},
                               lock : Locks \cup {NoLock}, data : Versions]]
    /\ dropped \subseteq Keys

\* Callers that miss together fetch once: a key is fetched twice at a time only
\* after an eviction dropped its lock under a caller (get_or_fetch, _evict_if_needed).
OneFlightPerLock == \A k \in Keys : \A c, d \in Fetching(k) : c # d => k \in dropped

\* The cached data of a key never goes back in time, as long as its lock is not
\* dropped under those who fetch it: the slower of two fetches cannot overwrite
\* the newer answer (get_or_fetch).
NeverBackwards == [][\A k \in Keys :
    Present(k) /\ Present(k)' /\ entry'[k].data < entry[k].data => k \in dropped]_vars

\* Every call ends: also for a waiter whose lock was dropped, or whose holder
\* failed or was cancelled.
CallsEnd == \A c \in Callers : caller[c].at # "idle" ~> caller[c].at = "idle"
=============================================================================
