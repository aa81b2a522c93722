------------------------------ MODULE KVStore ------------------------------
(***************************************************************************)
(* The key-value store: a bounded cache in front of the table kv_store     *)
(* (classes KVStore and KVSQL, kv/kv.cpp, kv/kv.hpp, kv/kv_sql.cpp).       *)
(* One mutex guards the cache; every access to the database happens        *)
(* outside it, so an operation of another thread may come in between.      *)
(***************************************************************************)
EXTENDS Lists

CONSTANTS
    Threads, Keys, Values, NoValue,
    MaxSize,    \* MAX_SIZE, one million in the code
    KeysOf,     \* the keys each thread uses: its players' scopes
    Removable,  \* the keys that are ever removed
    Savers,     \* the threads that call saveAll
    Forced,     \* values of forceLoad given to get
    MayCrash

Deleted == "deleted"  \* ValueWrapper::deleted(), the marker of a removal

ASSUME KVAssumption ==
    /\ MaxSize \in Nat \ {0} /\ KeysOf \in [Threads -> SUBSET Keys]
    /\ Removable \subseteq Keys /\ Savers \subseteq Threads
    /\ Forced \subseteq BOOLEAN /\ MayCrash \in BOOLEAN
    /\ NoValue \notin Values /\ Deleted \notin Values \cup {NoValue}

VARIABLES
    store,     \* store_: the cached keys and their values
    lruQueue,  \* lruQueue_: the cached keys, the newest first
    db,        \* the table kv_store
    thr,       \* where each thread stands in its operation
    result,    \* what the last get of each thread returned
    recent, since  \* as in KVMap

vars == <<store, lruQueue, db, thr, result, recent, since>>
history == <<recent, since>>

Resting == [op |-> "rest", key |-> NoValue, value |-> NoValue,
            copy |-> <<>>]

Init ==
    /\ store = <<>> /\ lruQueue = <<>>
    /\ db = [k \in Keys |-> NoValue]
    /\ thr = [t \in Threads |-> Resting]
    /\ result = [t \in Threads |-> NoValue]
    /\ recent = [k \in Keys |-> {NoValue}]
    /\ since = [t \in Threads |-> [k \in Keys |-> {}]]

Row_KeepsMarker(v) == v
Row(v) == IF v = Deleted THEN NoValue ELSE v   \* prepareSave: DELETE or upsert
At(t, op) == thr[t].op = op
MoveToFront_KeepsOld(q, k) == <<k>> \o q
MoveToFront(q, k) == <<k>> \o Dropping(q, k)

\* The value a key has for the callers: cached, on its way to the database
\* after an eviction, or in the database.
View ==
    [k \in Keys |->
        IF k \in DOMAIN store THEN Row(store[k])
        ELSE IF \E t \in Threads : At(t, "evict") /\ thr[t].key = k
        THEN Row(thr[CHOOSE t \in Threads : At(t, "evict") /\ thr[t].key = k].value)
        ELSE db[k]]

\* setLocked, up to the unlock: a full cache evicts its oldest key first.
Full == Cardinality(DOMAIN store) >= MaxSize
setLocked(t, k, v) ==
    LET last == lruQueue[Len(lruQueue)]
        kept == IF Full THEN DOMAIN store \ {last} ELSE DOMAIN store
    IN /\ store' = [j \in kept \cup {k} |-> IF j = k THEN v ELSE store[j]]
       /\ lruQueue' = MoveToFront(IF Full THEN Front(lruQueue) ELSE lruQueue, k)
       /\ thr' = [thr EXCEPT ![t] =
                    IF Full THEN [Resting EXCEPT !.op = "evict", !.key = last,
                                                 !.value = store[last]]
                    ELSE Resting]

Record(k, v) ==
    /\ recent' = [recent EXCEPT ![k] = @ \cup {v}]
    /\ since' = [t \in Threads |-> [since[t] EXCEPT ![k] = @ \cup {v}]]

set(t, k, v) ==
    /\ At(t, "rest") /\ k \in KeysOf[t]
    /\ setLocked(t, k, v) /\ Record(k, v)
    /\ UNCHANGED <<db, result>>

remove(t, k) ==
    /\ At(t, "rest") /\ k \in KeysOf[t] \cap Removable
    /\ setLocked(t, k, Deleted) /\ Record(k, NoValue)
    /\ UNCHANGED <<db, result>>

saveEvicted_Dropped(t) ==
    /\ At(t, "evict")
    /\ thr' = [thr EXCEPT ![t] = Resting]
    /\ UNCHANGED <<store, lruQueue, db, result, history>>

\* save of the evicted pair, after the unlock.
saveEvicted(t) ==
    /\ At(t, "evict")
    /\ db' = [db EXCEPT ![thr[t].key] = Row(thr[t].value)]
    /\ thr' = [thr EXCEPT ![t] = Resting]
    /\ UNCHANGED <<store, lruQueue, result, history>>

\* get: the cache if it holds the key and not a removal, the table otherwise.
get(t, k, forceLoad) ==
    /\ At(t, "rest") /\ k \in KeysOf[t]
    /\ IF ~forceLoad /\ k \in DOMAIN store /\ store[k] # Deleted
       THEN /\ result' = [result EXCEPT ![t] = store[k]]
            /\ UNCHANGED thr
       ELSE /\ thr' = [thr EXCEPT ![t] = [Resting EXCEPT !.op = "load", !.key = k]]
            /\ UNCHANGED result
    /\ UNCHANGED <<store, lruQueue, db, history>>

load(t) ==
    LET v == db[thr[t].key] IN
    /\ At(t, "load")
    /\ IF v = NoValue
       THEN /\ result' = [result EXCEPT ![t] = NoValue]
            /\ thr' = [thr EXCEPT ![t] = Resting]
       ELSE /\ thr' = [thr EXCEPT ![t].op = "fill", ![t].value = v]
            /\ UNCHANGED result
    /\ UNCHANGED <<store, lruQueue, db, history>>

fill(t) ==
    /\ At(t, "fill")
    /\ setLocked(t, thr[t].key, thr[t].value)
    /\ result' = [result EXCEPT ![t] = thr[t].value]
    /\ UNCHANGED <<db, history>>

\* saveAll: a copy of the cache under the mutex; removals are deleted one by
\* one, the rest is written by one statement.
saveAll(t) ==
    /\ t \in Savers /\ At(t, "rest")
    /\ thr' = [thr EXCEPT ![t] = [Resting EXCEPT !.op = "saveAll", !.copy = store]]
    /\ since' = [since EXCEPT ![t] = [k \in Keys |-> {View[k]}]]
    /\ UNCHANGED <<store, lruQueue, db, result, recent>>

saveDeleted(t, k) ==
    LET copy == thr[t].copy IN
    /\ At(t, "saveAll") /\ k \in DOMAIN copy /\ copy[k] = Deleted
    /\ db' = [db EXCEPT ![k] = NoValue]
    /\ thr' = [thr EXCEPT ![t].copy =
                 [j \in DOMAIN copy \ {k} |-> copy[j]]]
    /\ UNCHANGED <<store, lruQueue, result, history>>

saveRows(t) ==
    LET copy == thr[t].copy IN
    /\ At(t, "saveAll") /\ \A k \in DOMAIN copy : copy[k] # Deleted
    /\ db' = [k \in Keys |-> IF k \in DOMAIN copy THEN copy[k] ELSE db[k]]
    /\ thr' = [thr EXCEPT ![t] = Resting]
    /\ recent' = [k \in Keys |-> recent[k] \cap since[t][k]]
    /\ UNCHANGED <<store, lruQueue, result, since>>

Crash ==
    /\ MayCrash
    /\ store' = <<>> /\ lruQueue' = <<>>
    /\ thr' = [t \in Threads |-> Resting]
    /\ result' = [t \in Threads |-> NoValue]
    /\ recent' = [k \in Keys |-> {db[k]}]
    /\ since' = [t \in Threads |-> [k \in Keys |-> {}]]
    /\ UNCHANGED db

Next ==
    \/ \E t \in Threads :
         \/ saveEvicted(t) \/ load(t) \/ fill(t) \/ saveAll(t) \/ saveRows(t)
         \/ \E k \in Keys :
              \/ remove(t, k) \/ saveDeleted(t, k)
              \/ \E v \in Values : set(t, k, v)
              \/ \E force \in Forced : get(t, k, force)
    \/ Crash

Spec == Init /\ [][Next]_vars

-----------------------------------------------------------------------------
(* Properties *)

Cached == Values \cup {Deleted}
TypeOK ==
    /\ DOMAIN store \subseteq Keys /\ \A k \in DOMAIN store : store[k] \in Cached
    /\ lruQueue \in Seq(Keys)
    /\ db \in [Keys -> Values \cup {NoValue}]
    /\ result \in [Threads -> Values \cup {NoValue}]
    /\ \A t \in Threads :
          /\ thr[t].op \in {"rest", "evict", "load", "fill", "saveAll"}
          /\ thr[t].key \in Keys \cup {NoValue}
          /\ thr[t].value \in Cached \cup {NoValue}
          /\ DOMAIN thr[t].copy \subseteq Keys

\* The store is the map that KV promises, also across crashes: get returns
\* the last value set, evictions and reloads change nothing, and a crash loses
\* nothing older than the last saveAll.  The keys that are removed keep only
\* the weaker promise that KVMap gives to its volatile ones.
Map == INSTANCE KVMap WITH map <- View, Volatile <- Removable
ImplementsMap == Map!Spec

\* The two containers of the cache agree, whatever the threads do: the queue
\* names every cached key once, so an eviction finds a value to save, and the
\* cache never holds more than MAX_SIZE.
QueueMatchesStore ==
    /\ TypeOK
    /\ ToSet(lruQueue) = DOMAIN store
    /\ IsInjective(lruQueue)
    /\ Cardinality(DOMAIN store) <= MaxSize

\* A key that one thread uses changes only by what that thread sets, whatever
\* other threads do with their keys (kv/README.md: thread-safe operations).
OwnKeysStable ==
    [][\A k \in Keys : View'[k] # View[k] =>
          \/ Crash
          \/ \E t \in Threads : remove(t, k) \/ \E v \in Values : set(t, k, v)]_vars
=============================================================================
