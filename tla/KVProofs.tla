------------------------------ MODULE KVProofs ------------------------------
(***************************************************************************)
(* The key-value store, for any threads, keys, values and sizes.  Cache    *)
(* and queue always agree (QueueMatches).  With one thread the store, its  *)
(* evictions, its table and its crashes implement KVMap (StoreIsMap).  With*)
(* room for every key, threads do not disturb each other's (StableWithRoom)*)
(***************************************************************************)
EXTENDS KVStore, ListsProofs

(***************************************************************************)
(* What each thread keeps between its steps: a key and a value of the kind *)
(* its operation needs, and the copy that saveAll writes.                  *)
(***************************************************************************)
Caches == UNION {[D -> Cached] : D \in SUBSET Keys}

ThreadStates ==
    [op : {"rest", "evict", "load", "fill", "saveAll"}, key : Keys \cup {NoValue},
     value : Cached \cup {NoValue}, copy : Caches]

ThreadsOK ==
    /\ thr \in [Threads -> ThreadStates]
    /\ \A t \in Threads :
          /\ thr[t].op \in {"evict", "load", "fill"} => thr[t].key \in Keys
          /\ thr[t].op = "evict" => thr[t].value \in Cached
          /\ thr[t].op = "fill" => thr[t].value \in Values

TablesOK ==
    /\ store \in Caches
    /\ db \in [Keys -> Values \cup {NoValue}]
    /\ result \in [Threads -> Values \cup {NoValue}]

QueueOK ==
    /\ lruQueue \in Seq(Keys)
    /\ ToSet(lruQueue) = DOMAIN store
    /\ IsInjective(lruQueue)
    /\ Cardinality(DOMAIN store) <= MaxSize

CacheInv == ThreadsOK /\ TablesOK /\ QueueOK

LEMMA InvGivesMatch == CacheInv => QueueMatchesStore
BY DEF CacheInv, ThreadsOK, TablesOK, QueueOK, Caches, ThreadStates, QueueMatchesStore, TypeOK

LEMMA EmptyCache == <<>> \in Caches /\ Resting \in ThreadStates
<1>1. <<>> \in [{} -> Cached]
    OBVIOUS
<1> QED BY <1>1 DEF Caches, Resting, ThreadStates

LEMMA InitCache == Init => CacheInv
<1> SUFFICES ASSUME Init PROVE CacheInv
    OBVIOUS
<1>1. ThreadsOK
    BY EmptyCache DEF Init, ThreadsOK, Resting
<1>2. TablesOK
    BY EmptyCache DEF Init, TablesOK
<1>3. QueueOK
    <2>1. DOMAIN store = {} /\ lruQueue = <<>>
        BY DEF Init
    <2> QED BY <2>1, FS_EmptySet, KVAssumption DEF QueueOK, ToSet, IsInjective
<1> QED BY <1>1, <1>2, <1>3 DEF CacheInv

(***************************************************************************)
(* The critical section of set: an eviction finds a key that has a value,  *)
(* and queue and cache agree afterwards.                                   *)
(***************************************************************************)

LEMMA SettingKeeps ==
    ASSUME CacheInv, NEW t \in Threads, NEW k \in Keys, NEW v \in Cached, setLocked(t, k, v)
    PROVE  ThreadsOK' /\ store' \in Caches /\ QueueOK'
<1> DEFINE last == lruQueue[Len(lruQueue)]
           kept == IF Full THEN DOMAIN store \ {last} ELSE DOMAIN store
           rest == IF Full THEN Front(lruQueue) ELSE lruQueue
<1>0. /\ lruQueue \in Seq(Keys) /\ ToSet(lruQueue) = DOMAIN store /\ IsInjective(lruQueue)
      /\ Cardinality(DOMAIN store) <= MaxSize /\ MaxSize \in Nat /\ MaxSize > 0
    BY KVAssumption DEF CacheInv, QueueOK
<1>1. /\ IsFiniteSet(DOMAIN store) /\ Cardinality(DOMAIN store) \in Nat
      /\ DOMAIN store \subseteq Keys /\ \A j \in DOMAIN store : store[j] \in Cached
    BY <1>0, ToSetFinite, FS_CardinalityType DEF CacheInv, TablesOK, Caches
<1>2. ASSUME Full PROVE last \in DOMAIN store /\ last \in Keys /\ lruQueue # <<>>
    <2>1. DOMAIN store # {}
        BY <1>0, <1>1, <1>2, FS_EmptySet DEF Full
    <2>2. lruQueue # <<>>
        BY <1>0, <2>1 DEF ToSet
    <2> QED BY <1>0, <2>2, FrontProperties
<1>3. rest \in Seq(Keys) /\ ToSet(rest) = kept /\ IsInjective(rest)
    BY <1>0, <1>2, FrontProperties
<1>4. /\ store' = [j \in kept \cup {k} |-> IF j = k THEN v ELSE store[j]]
      /\ lruQueue' = <<k>> \o Dropping(rest, k)
      /\ thr' = [thr EXCEPT ![t] = IF Full THEN [Resting EXCEPT !.op = "evict", !.key = last,
                                                                !.value = store[last]]
                                   ELSE Resting]
    BY DEF setLocked, MoveToFront
<1> HIDE DEF last, kept, rest
<1>5. QueueOK'
    <2>1. /\ Dropping(rest, k) \in Seq(Keys) /\ ToSet(Dropping(rest, k)) = kept \ {k}
          /\ IsInjective(Dropping(rest, k))
        BY <1>3, DroppingProperties
    <2>2. lruQueue' \in Seq(Keys) /\ ToSet(lruQueue') = kept \cup {k} /\ IsInjective(lruQueue')
        BY <1>4, <2>1, PushFrontProperties
    <2>3. Cardinality(kept \cup {k}) <= MaxSize
        <3>1. CASE Full
            <4>1. IsFiniteSet(kept) /\ Cardinality(kept) = Cardinality(DOMAIN store) - 1
                BY <1>1, <1>2, <3>1, FS_RemoveElement DEF kept
            <4>2. Cardinality(kept \cup {k}) \in {Cardinality(kept), Cardinality(kept) + 1}
                BY <4>1, FS_AddElement, Zenon
            <4> QED BY <1>0, <1>1, <4>1, <4>2
        <3>2. CASE ~Full
            <4>1. kept = DOMAIN store /\ Cardinality(DOMAIN store) < MaxSize
                BY <1>0, <1>1, <3>2 DEF kept, Full
            <4>2. Cardinality(kept \cup {k}) \in {Cardinality(kept), Cardinality(kept) + 1}
                BY <1>1, <4>1, FS_AddElement, Zenon
            <4> QED BY <1>0, <1>1, <4>1, <4>2
        <3> QED BY <3>1, <3>2
    <2>4. DOMAIN store' = kept \cup {k}
        BY <1>4
    <2> QED BY <2>2, <2>3, <2>4 DEF QueueOK
<1>6. kept \cup {k} \in SUBSET Keys
    BY <1>1 DEF kept
<1>7. store' \in Caches
    <2>1. store' \in [kept \cup {k} -> Cached]
        BY <1>1, <1>4 DEF kept
    <2> QED BY <1>6, <2>1 DEF Caches
<1>8. ThreadsOK'
    <2> DEFINE new == IF Full THEN [Resting EXCEPT !.op = "evict", !.key = last, !.value = store[last]]
                      ELSE Resting
    <2>1. Full => store[last] \in Cached /\ last \in Keys
        BY <1>1, <1>2 DEF last
    <2>2. /\ new \in ThreadStates /\ new.op \in {"rest", "evict"}
          /\ new.op = "evict" => new.key \in Keys /\ new.value \in Cached
        BY <2>1, EmptyCache DEF Resting, ThreadStates
    <2>3. thr' = [thr EXCEPT ![t] = new]
        BY <1>4
    <2> HIDE DEF new
    <2> QED BY <2>2, <2>3 DEF CacheInv, ThreadsOK
<1> QED BY <1>5, <1>7, <1>8

\* A thread takes up a new state that fits its operation.
Fitting(new) ==
    /\ new \in ThreadStates
    /\ new.op \in {"evict", "load", "fill"} => new.key \in Keys
    /\ new.op = "evict" => new.value \in Cached
    /\ new.op = "fill" => new.value \in Values

LEMMA ThreadGoesOn ==
    ASSUME ThreadsOK, NEW t \in Threads, NEW new, Fitting(new), thr' = [thr EXCEPT ![t] = new]
    PROVE  ThreadsOK'
BY DEF ThreadsOK, Fitting

LEMMA RestingFits == Fitting(Resting)
BY EmptyCache DEF Fitting, Resting

LEMMA CacheStep == CacheInv /\ [Next]_vars => CacheInv'
<1> SUFFICES ASSUME CacheInv, [Next]_vars PROVE CacheInv'
    OBVIOUS
<1>0. /\ ThreadsOK /\ TablesOK /\ QueueOK
      /\ Values \subseteq Cached /\ Deleted \in Cached
    BY DEF CacheInv, Cached
<1>1. ASSUME NEW t \in Threads, NEW k \in Keys, NEW v \in Values, set(t, k, v) PROVE CacheInv'
    <2>1. setLocked(t, k, v) /\ UNCHANGED <<db, result>>
        BY <1>1 DEF set
    <2> QED BY <1>0, <2>1, SettingKeeps DEF CacheInv, TablesOK
<1>2. ASSUME NEW t \in Threads, NEW k \in Keys, remove(t, k) PROVE CacheInv'
    <2>1. setLocked(t, k, Deleted) /\ UNCHANGED <<db, result>>
        BY <1>2 DEF remove
    <2> QED BY <1>0, <2>1, SettingKeeps DEF CacheInv, TablesOK
<1>3. ASSUME NEW t \in Threads, saveEvicted(t) PROVE CacheInv'
    <2>1. ThreadsOK'
        BY <1>0, <1>3, RestingFits, ThreadGoesOn DEF saveEvicted
    <2>2. Row(thr[t].value) \in Values \cup {NoValue} /\ thr[t].key \in Keys
        BY <1>0, <1>3 DEF ThreadsOK, Row, saveEvicted, At, Cached
    <2> QED BY <1>0, <1>3, <2>1, <2>2 DEF saveEvicted, CacheInv, TablesOK, QueueOK
<1>4. ASSUME NEW t \in Threads, NEW k \in Keys, NEW force \in Forced, get(t, k, force)
      PROVE  CacheInv'
    <2>1. UNCHANGED <<store, lruQueue, db>>
        BY <1>4 DEF get
    <2>2. CASE ~force /\ k \in DOMAIN store /\ store[k] # Deleted
        <3>1. result' = [result EXCEPT ![t] = store[k]] /\ thr' = thr
            BY <1>4, <2>2 DEF get
        <3>2. store[k] \in Values
            BY <1>0, <2>2 DEF TablesOK, Caches, Cached
        <3> QED BY <1>0, <2>1, <3>1, <3>2 DEF CacheInv, ThreadsOK, TablesOK, QueueOK
    <2>3. CASE ~(~force /\ k \in DOMAIN store /\ store[k] # Deleted)
        <3> DEFINE new == [Resting EXCEPT !.op = "load", !.key = k]
        <3>1. result' = result /\ thr' = [thr EXCEPT ![t] = new]
            BY <1>4, <2>3 DEF get
        <3>2. Fitting(new)
            BY EmptyCache DEF Fitting, Resting, ThreadStates
        <3> HIDE DEF new
        <3> QED BY <1>0, <2>1, <3>1, <3>2, ThreadGoesOn DEF CacheInv, TablesOK, QueueOK
    <2> QED BY <2>2, <2>3
<1>5. ASSUME NEW t \in Threads, load(t) PROVE CacheInv'
    <2> DEFINE v == db[thr[t].key]
    <2>1. thr[t].op = "load" /\ thr[t].key \in Keys /\ v \in Values \cup {NoValue} /\ thr[t] \in ThreadStates
        BY <1>0, <1>5 DEF load, At, ThreadsOK, TablesOK
    <2>2. UNCHANGED <<store, lruQueue, db>>
        BY <1>5 DEF load
    <2>3. CASE v = NoValue
        <3>1. result' = [result EXCEPT ![t] = NoValue] /\ thr' = [thr EXCEPT ![t] = Resting]
            BY <1>5, <2>3 DEF load
        <3> QED BY <1>0, <2>2, <3>1, RestingFits, ThreadGoesOn DEF CacheInv, TablesOK, QueueOK
    <2>4. CASE v # NoValue
        <3> DEFINE new == [thr[t] EXCEPT !.op = "fill", !.value = v]
        <3>1. result' = result /\ thr' = [thr EXCEPT ![t] = new]
            BY <1>0, <1>5, <2>4 DEF load, ThreadsOK
        <3>2. Fitting(new)
            BY <1>0, <2>1, <2>4 DEF Fitting, ThreadStates
        <3> HIDE DEF new
        <3> QED BY <1>0, <2>2, <3>1, <3>2, ThreadGoesOn DEF CacheInv, TablesOK, QueueOK
    <2> QED BY <2>3, <2>4
<1>6. ASSUME NEW t \in Threads, fill(t) PROVE CacheInv'
    <2>1. thr[t].key \in Keys /\ thr[t].value \in Values
        BY <1>0, <1>6 DEF fill, At, ThreadsOK
    <2>2. /\ setLocked(t, thr[t].key, thr[t].value)
          /\ result' = [result EXCEPT ![t] = thr[t].value] /\ db' = db
        BY <1>6 DEF fill
    <2> QED BY <1>0, <2>1, <2>2, SettingKeeps DEF CacheInv, TablesOK
<1>7. ASSUME NEW t \in Threads, saveAll(t) PROVE CacheInv'
    <2> DEFINE new == [Resting EXCEPT !.op = "saveAll", !.copy = store]
    <2>1. thr' = [thr EXCEPT ![t] = new] /\ UNCHANGED <<store, lruQueue, db, result>>
        BY <1>7 DEF saveAll
    <2>2. Fitting(new)
        BY <1>0 DEF Fitting, Resting, ThreadStates, TablesOK
    <2> HIDE DEF new
    <2> QED BY <1>0, <2>1, <2>2, ThreadGoesOn DEF CacheInv, TablesOK, QueueOK
<1>8. ASSUME NEW t \in Threads, NEW k \in Keys, saveDeleted(t, k) PROVE CacheInv'
    <2> DEFINE shorter == [j \in DOMAIN thr[t].copy \ {k} |-> thr[t].copy[j]]
               new == [thr[t] EXCEPT !.copy = shorter]
    <2>1. thr[t] \in ThreadStates /\ thr[t].copy \in Caches /\ thr[t].op = "saveAll"
        BY <1>0, <1>8 DEF ThreadsOK, ThreadStates, saveDeleted, At
    <2>2. shorter \in Caches
        <3>1. PICK D \in SUBSET Keys : thr[t].copy \in [D -> Cached]
            BY <2>1 DEF Caches
        <3>2. shorter \in [D \ {k} -> Cached] /\ D \ {k} \in SUBSET Keys
            BY <3>1
        <3> QED BY <3>2 DEF Caches
    <2>3. /\ thr' = [thr EXCEPT ![t] = new] /\ UNCHANGED <<store, lruQueue, result>>
          /\ db' = [db EXCEPT ![k] = NoValue]
        BY <1>0, <1>8 DEF saveDeleted, ThreadsOK
    <2> HIDE DEF shorter
    <2>4. Fitting(new)
        BY <2>1, <2>2 DEF Fitting, ThreadStates
    <2> HIDE DEF new
    <2> QED BY <1>0, <2>3, <2>4, ThreadGoesOn DEF CacheInv, TablesOK, QueueOK
<1>9. ASSUME NEW t \in Threads, saveRows(t) PROVE CacheInv'
    <2> DEFINE copy == thr[t].copy
    <2>1. /\ thr' = [thr EXCEPT ![t] = Resting] /\ UNCHANGED <<store, lruQueue, result>>
          /\ db' = [k \in Keys |-> IF k \in DOMAIN copy THEN copy[k] ELSE db[k]]
          /\ \A k \in DOMAIN copy : copy[k] # Deleted
        BY <1>9 DEF saveRows
    <2>2. \A k \in DOMAIN copy : copy[k] \in Values
        BY <1>0, <2>1 DEF ThreadsOK, ThreadStates, Caches, Cached
    <2>3. db' \in [Keys -> Values \cup {NoValue}]
        BY <1>0, <2>1, <2>2 DEF TablesOK
    <2> QED BY <1>0, <2>1, <2>3, RestingFits, ThreadGoesOn DEF CacheInv, TablesOK, QueueOK
<1>10. ASSUME Crash PROVE CacheInv'
    <2>1. /\ store' = <<>> /\ lruQueue' = <<>> /\ thr' = [t \in Threads |-> Resting]
          /\ result' = [t \in Threads |-> NoValue] /\ db' = db
        BY <1>10 DEF Crash
    <2>2. ThreadsOK'
        BY <2>1, RestingFits DEF ThreadsOK, Fitting
    <2>3. TablesOK'
        BY <1>0, <2>1, EmptyCache DEF TablesOK
    <2>4. QueueOK'
        <3>1. DOMAIN store' = {} /\ lruQueue' = <<>>
            BY <2>1
        <3> QED BY <3>1, FS_EmptySet, KVAssumption DEF QueueOK, ToSet, IsInjective
    <2> QED BY <2>2, <2>3, <2>4 DEF CacheInv
<1>11. CASE UNCHANGED vars
    BY <1>0, <1>11 DEF vars, CacheInv, ThreadsOK, TablesOK, QueueOK
<1> QED
    BY <1>1, <1>2, <1>3, <1>4, <1>5, <1>6, <1>7, <1>8, <1>9, <1>10, <1>11 DEF Next

\* Queue and cache name the same keys, each once, and MAX_SIZE holds, whatever the
\* threads do between the critical sections of KVStore.
THEOREM QueueMatches == Spec => []QueueMatchesStore
<1>1. Spec => []CacheInv
    BY InitCache, CacheStep, PTL DEF Spec
<1> QED BY <1>1, InvGivesMatch, PTL

-----------------------------------------------------------------------------
(***************************************************************************)
(* With one thread that uses the store, and without forceLoad, it is the   *)
(* map that KVMap promises.  MapInv says which values may be anywhere: what*)
(* the table, the cache and an eviction hold is what a crash may leave;    *)
(* get reads the table only where the cache has nothing to say; and saveAll*)
(* knows the value of every key as long as it runs.                        *)
(***************************************************************************)
OneUser == (\E t : Threads = {t}) /\ Forced \subseteq {FALSE}

Silent(k) == k \in DOMAIN store => store[k] = Deleted
SavingKnows(t, k) ==
    /\ since[t][k] = {View[k]}
    /\ k \in DOMAIN thr[t].copy => k \in DOMAIN store /\ thr[t].copy[k] = store[k]
    /\ k \notin DOMAIN thr[t].copy => db[k] = View[k]

MapInv ==
    /\ recent \in [Keys -> SUBSET (Values \cup {NoValue})]
    /\ since \in [Threads -> [Keys -> SUBSET (Values \cup {NoValue})]]
    /\ \A k \in Keys : db[k] \in recent[k]
    /\ \A k \in DOMAIN store : /\ Row(store[k]) \in recent[k]
                               /\ store[k] = Deleted => k \in Removable
    /\ \A t \in Threads :
          /\ thr[t].op = "evict" => Row(thr[t].value) \in recent[thr[t].key]
          /\ thr[t].op \in {"load", "fill"} => Silent(thr[t].key)
          /\ thr[t].op = "fill" => thr[t].value = db[thr[t].key]
          /\ thr[t].op = "saveAll" => \A k \in Keys : SavingKnows(t, k)

LEMMA ViewOfOne ==
    ASSUME NEW u, Threads = {u}
    PROVE  View = [k \in Keys |->
              IF k \in DOMAIN store THEN Row(store[k])
              ELSE IF thr[u].op = "evict" /\ thr[u].key = k THEN Row(thr[u].value) ELSE db[k]]
<1>1. ASSUME NEW k, thr[u].op = "evict", thr[u].key = k
      PROVE  (CHOOSE t \in Threads : At(t, "evict") /\ thr[t].key = k) = u
    BY <1>1 DEF At
<1> QED BY <1>1 DEF View, At

LEMMA ViewOfOneAfter ==
    ASSUME NEW u, Threads = {u}
    PROVE  View' = [k \in Keys |->
              IF k \in DOMAIN store' THEN Row(store'[k])
              ELSE IF thr'[u].op = "evict" /\ thr'[u].key = k THEN Row(thr'[u].value) ELSE db'[k]]
<1>1. ASSUME NEW k, thr'[u].op = "evict", thr'[u].key = k
      PROVE  (CHOOSE t \in Threads : thr'[t].op = "evict" /\ thr'[t].key = k) = u
    BY <1>1
<1> QED BY <1>1 DEF View, At, Row

LEMMA ViewKnown ==
    ASSUME NEW u, Threads = {u}, CacheInv, MapInv
    PROVE  \A k \in Keys : View[k] \in recent[k] /\ View[k] \in Values \cup {NoValue}
BY ViewOfOne DEF CacheInv, TablesOK, MapInv

\* A critical section of set changes the value of its key and of no other.
LEMMA SettingView ==
    ASSUME NEW u, Threads = {u}, CacheInv, thr[u].op # "evict", NEW k \in Keys, NEW v \in Cached,
           setLocked(u, k, v), db' = db
    PROVE  /\ View' = [View EXCEPT ![k] = Row(v)]
           /\ \A j \in DOMAIN store' : IF j = k THEN store'[j] = v
                                       ELSE j \in DOMAIN store /\ store'[j] = store[j]
           /\ thr'[u].op \in {"rest", "evict"}
           /\ thr'[u].op = "evict" => /\ thr'[u].key \in DOMAIN store
                                      /\ thr'[u].value = store[thr'[u].key]
<1> DEFINE last == lruQueue[Len(lruQueue)]
           kept == IF Full THEN DOMAIN store \ {last} ELSE DOMAIN store
<1>1. /\ store' = [j \in kept \cup {k} |-> IF j = k THEN v ELSE store[j]]
      /\ thr' = [thr EXCEPT ![u] = IF Full THEN [Resting EXCEPT !.op = "evict", !.key = last,
                                                                !.value = store[last]]
                                   ELSE Resting]
    BY DEF setLocked
<1>2. ASSUME Full PROVE last \in DOMAIN store
    <2>1. /\ lruQueue \in Seq(Keys) /\ ToSet(lruQueue) = DOMAIN store /\ MaxSize \in Nat /\ MaxSize > 0
        BY KVAssumption DEF CacheInv, QueueOK
    <2>2. DOMAIN store # {}
        <3> SUFFICES ASSUME DOMAIN store = {} PROVE FALSE
            OBVIOUS
        <3>1. Cardinality(DOMAIN store) = 0
            BY FS_EmptySet, Zenon
        <3>2. ~(0 >= MaxSize)
            BY <2>1
        <3> QED BY <1>2, <3>1, <3>2 DEF Full
    <2>3. lruQueue # <<>>
        BY <2>1, <2>2 DEF ToSet
    <2> QED BY <2>1, <2>3, FrontProperties
<1>3. IF Full THEN thr'[u].op = "evict" /\ thr'[u].key = last /\ thr'[u].value = store[last]
      ELSE thr'[u].op = "rest"
    BY <1>1 DEF CacheInv, ThreadsOK, Resting
<1>4. DOMAIN store \subseteq Keys /\ DOMAIN store' = kept \cup {k}
    BY <1>1 DEF CacheInv, TablesOK, Caches
<1> HIDE DEF last
<1>5. ASSUME NEW j \in Keys PROVE View'[j] = IF j = k THEN Row(v) ELSE View[j]
    <2>1. CASE j = k
        BY <1>1, <1>4, <2>1, ViewOfOneAfter
    <2>2. CASE j # k /\ j \in kept
        BY <1>1, <1>4, <2>2, ViewOfOne, ViewOfOneAfter
    <2>3. CASE j # k /\ j \notin kept /\ j \in DOMAIN store
        <3>1. Full /\ j = last
            BY <2>3
        <3> QED BY <1>2, <1>3, <1>4, <2>3, <3>1, ViewOfOne, ViewOfOneAfter
    <2>4. CASE j # k /\ j \notin DOMAIN store
        <3>1. j \notin DOMAIN store' /\ ~(thr'[u].op = "evict" /\ thr'[u].key = j)
            BY <1>2, <1>3, <1>4, <2>4
        <3> QED BY <2>4, <3>1, ViewOfOne, ViewOfOneAfter
    <2> QED BY <2>1, <2>2, <2>3, <2>4
<1>6. View' = [View EXCEPT ![k] = Row(v)]
    <2>1. View = [j \in Keys |-> View[j]] /\ View' = [j \in Keys |-> View'[j]]
        BY ViewOfOne, ViewOfOneAfter
    <2> QED BY <1>5, <2>1
<1> QED BY <1>1, <1>2, <1>3, <1>4, <1>6

LEMMA InitMap == Init => MapInv
BY DEF Init, MapInv, Resting

\* set, remove, and get where it found the key in the table: the value that is
\* put is recorded, or in the table already.
LEMMA SettingMap ==
    ASSUME NEW u, Threads = {u}, CacheInv, MapInv, thr[u].op \in {"rest", "fill"},
           NEW k \in Keys, NEW v \in Cached, v = Deleted => k \in Removable,
           setLocked(u, k, v), db' = db,
           Record(k, Row(v)) \/ (Row(v) \in recent[k] /\ UNCHANGED history)
    PROVE  MapInv'
<1>1. /\ \A j \in DOMAIN store' : IF j = k THEN store'[j] = v
                                  ELSE j \in DOMAIN store /\ store'[j] = store[j]
      /\ thr'[u].op \in {"rest", "evict"}
      /\ thr'[u].op = "evict" => /\ thr'[u].key \in DOMAIN store
                                 /\ thr'[u].value = store[thr'[u].key]
    BY SettingView
<1>2. Row(v) \in Values \cup {NoValue} /\ DOMAIN store \subseteq Keys
    BY DEF Row, Cached, CacheInv, TablesOK, Caches
<1>3. /\ recent' \in [Keys -> SUBSET (Values \cup {NoValue})]
      /\ since' \in [Threads -> [Keys -> SUBSET (Values \cup {NoValue})]]
      /\ \A j \in Keys : recent[j] \subseteq recent'[j]
      /\ Row(v) \in recent'[k]
    <2>1. CASE Record(k, Row(v))
        BY <1>2, <2>1 DEF Record, MapInv
    <2>2. CASE Row(v) \in recent[k] /\ UNCHANGED history
        BY <2>2 DEF history, MapInv
    <2> QED BY <2>1, <2>2
<1>4. ASSUME NEW j \in DOMAIN store'
      PROVE  Row(store'[j]) \in recent'[j] /\ (store'[j] = Deleted => j \in Removable)
    BY <1>1, <1>2, <1>3, <1>4 DEF MapInv, Row
<1>5. thr'[u].op = "evict" => Row(thr'[u].value) \in recent'[thr'[u].key]
    BY <1>1, <1>2, <1>3 DEF MapInv, Row
<1> QED BY <1>1, <1>3, <1>4, <1>5 DEF MapInv, Row

LEMMA MapInvStep ==
    ASSUME NEW u, Threads = {u}, Forced \subseteq {FALSE}, CacheInv, MapInv, [Next]_vars
    PROVE  MapInv'
<1>0. /\ ThreadsOK /\ TablesOK /\ Values \subseteq Cached /\ Deleted \in Cached
      /\ thr[u] \in ThreadStates /\ DOMAIN store \subseteq Keys /\ NoValue \notin Values
      /\ Deleted \notin Values
    BY KVAssumption DEF CacheInv, Cached, ThreadsOK, TablesOK, Caches
<1>a. ASSUME NEW new, thr' = [thr EXCEPT ![u] = new] PROVE thr'[u] = new
    BY <1>0, <1>a DEF ThreadsOK
<1>1. ASSUME NEW k \in Keys, NEW v \in Values, set(u, k, v) PROVE MapInv'
    <2>1. setLocked(u, k, v) /\ Record(k, v) /\ db' = db /\ thr[u].op = "rest" /\ Row(v) = v
        BY <1>0, <1>1 DEF set, At, Row
    <2> QED BY <1>0, <2>1, SettingMap
<1>2. ASSUME NEW k \in Keys, remove(u, k) PROVE MapInv'
    <2>1. setLocked(u, k, Deleted) /\ Record(k, NoValue) /\ db' = db /\ thr[u].op = "rest"
          /\ Row(Deleted) = NoValue /\ k \in Removable
        BY <1>2 DEF remove, At, Row
    <2> QED BY <1>0, <2>1, SettingMap
<1>3. ASSUME saveEvicted(u) PROVE MapInv'
    <2>1. /\ db' = [db EXCEPT ![thr[u].key] = Row(thr[u].value)] /\ thr'[u] = Resting
          /\ UNCHANGED <<store, recent, since>> /\ thr[u].op = "evict"
        BY <1>3, <1>a DEF saveEvicted, At, history
    <2> QED BY <1>0, <2>1 DEF MapInv, TablesOK, ThreadsOK, Resting
<1>4. ASSUME NEW k \in Keys, NEW force \in Forced, get(u, k, force) PROVE MapInv'
    <2>1. UNCHANGED <<store, db, recent, since>> /\ ~force /\ thr[u].op = "rest"
        BY <1>4 DEF get, history, At
    <2>2. CASE thr' = thr
        BY <2>1, <2>2 DEF MapInv, Silent
    <2>3. CASE thr' # thr
        <3>1. ~(k \in DOMAIN store /\ store[k] # Deleted)
            BY <1>4, <2>1, <2>3 DEF get
        <3>2. thr' = [thr EXCEPT ![u] = [Resting EXCEPT !.op = "load", !.key = k]]
            BY <1>4, <2>1, <3>1 DEF get
        <3>3. thr'[u].op = "load" /\ thr'[u].key = k
            BY <1>a, <3>2 DEF Resting
        <3> QED BY <2>1, <3>1, <3>3 DEF MapInv, Silent
    <2> QED BY <2>2, <2>3
<1>5. ASSUME load(u) PROVE MapInv'
    <2>1. UNCHANGED <<store, db, recent, since>> /\ thr[u].op = "load"
        BY <1>5 DEF load, history, At
    <2>2. \/ thr'[u] = Resting
          \/ thr'[u].op = "fill" /\ thr'[u].key = thr[u].key /\ thr'[u].value = db[thr[u].key]
        BY <1>0, <1>5, <1>a DEF load, ThreadsOK, ThreadStates
    <2> QED BY <2>1, <2>2 DEF MapInv, Silent, Resting
<1>6. ASSUME fill(u) PROVE MapInv'
    <2>1. /\ setLocked(u, thr[u].key, thr[u].value) /\ db' = db /\ UNCHANGED history
          /\ thr[u].op = "fill"
        BY <1>6 DEF fill, At
    <2>2. thr[u].key \in Keys /\ thr[u].value \in Values /\ Row(thr[u].value) = thr[u].value
        BY <1>0, <2>1 DEF ThreadsOK, Row
    <2>3. Row(thr[u].value) \in recent[thr[u].key]
        BY <2>1, <2>2 DEF MapInv
    <2> QED BY <1>0, <2>1, <2>2, <2>3, SettingMap
<1>7. ASSUME saveAll(u) PROVE MapInv'
    <2>1. /\ thr' = [thr EXCEPT ![u] = [Resting EXCEPT !.op = "saveAll", !.copy = store]]
          /\ since' = [since EXCEPT ![u] = [k \in Keys |-> {View[k]}]]
          /\ UNCHANGED <<store, db, recent>> /\ thr[u].op = "rest"
        BY <1>7 DEF saveAll, At
    <2>2. thr'[u].op = "saveAll" /\ thr'[u].copy = store
        BY <1>a, <2>1 DEF Resting
    <2>3. View' = View
        BY <2>1, <2>2, ViewOfOne, ViewOfOneAfter
    <2>4. \A k \in Keys : since'[u][k] = {View'[k]}
        BY <2>1, <2>3 DEF MapInv
    <2>5. \A k \in Keys : k \notin DOMAIN store => db'[k] = View'[k]
        BY <2>1, <2>3, ViewOfOne
    <2>6. since' \in [Threads -> [Keys -> SUBSET (Values \cup {NoValue})]]
        BY <2>1, ViewKnown DEF MapInv
    <2> QED BY <2>1, <2>2, <2>4, <2>5, <2>6 DEF MapInv, SavingKnows
<1>8. ASSUME NEW k \in Keys, saveDeleted(u, k) PROVE MapInv'
    <2> DEFINE copy == thr[u].copy
               shorter == [j \in DOMAIN copy \ {k} |-> copy[j]]
    <2>1. /\ db' = [db EXCEPT ![k] = NoValue] /\ UNCHANGED <<store, recent, since>>
          /\ thr[u].op = "saveAll" /\ k \in DOMAIN copy /\ copy[k] = Deleted
        BY <1>8 DEF saveDeleted, At, history
    <2>2. thr'[u].op = "saveAll" /\ thr'[u].copy = shorter
        BY <1>0, <1>8 DEF saveDeleted, ThreadsOK, ThreadStates, At
    <2>3. k \in DOMAIN store /\ store[k] = Deleted
        BY <2>1 DEF MapInv, SavingKnows
    <2>4. View' = View /\ View[k] = NoValue
        BY <2>1, <2>2, <2>3, ViewOfOne, ViewOfOneAfter DEF TablesOK, Row
    <2>5. db'[k] = NoValue /\ \A j \in Keys : j # k => db'[j] = db[j]
        BY <1>0, <2>1 DEF TablesOK
    <2>6. NoValue \in recent[k]
        BY <2>3 DEF MapInv, Row
    <2>7. \A j \in Keys : db'[j] \in recent'[j]
        BY <2>1, <2>5, <2>6 DEF MapInv
    <2>8. ASSUME NEW j \in Keys PROVE SavingKnows(u, j)'
        BY <2>1, <2>2, <2>3, <2>4, <2>5 DEF MapInv, SavingKnows
    <2> QED BY <2>1, <2>2, <2>7, <2>8 DEF MapInv
<1>9. ASSUME saveRows(u) PROVE MapInv'
    <2> DEFINE copy == thr[u].copy
    <2>1. /\ thr'[u] = Resting /\ UNCHANGED <<store, since>> /\ thr[u].op = "saveAll"
          /\ db' = [k \in Keys |-> IF k \in DOMAIN copy THEN copy[k] ELSE db[k]]
          /\ \A k \in DOMAIN copy : copy[k] # Deleted
          /\ recent' = [k \in Keys |-> recent[k] \cap since[u][k]]
        BY <1>9, <1>a DEF saveRows, At
    <2>2. \A k \in Keys : recent'[k] = {View[k]}
        BY <2>1, ViewKnown DEF MapInv, SavingKnows
    <2>3. \A k \in DOMAIN store : Row(store[k]) = View[k]
        BY <1>0, ViewOfOne
    <2>4. \A k \in Keys : db'[k] = View[k]
        BY <1>0, <2>1, <2>3 DEF MapInv, SavingKnows, Row
    <2>5. recent' \in [Keys -> SUBSET (Values \cup {NoValue})]
        BY <2>1 DEF MapInv
    <2> QED BY <1>0, <2>1, <2>2, <2>3, <2>4, <2>5 DEF MapInv, Resting
<1>10. ASSUME Crash PROVE MapInv'
    <2>1. /\ DOMAIN store' = {} /\ thr'[u] = Resting /\ db' = db
          /\ recent' = [k \in Keys |-> {db[k]}]
          /\ since' = [t \in Threads |-> [k \in Keys |-> {}]]
        BY <1>10 DEF Crash
    <2> QED BY <1>0, <2>1 DEF MapInv, Resting, TablesOK
<1>11. CASE UNCHANGED vars
    <2>1. View' = View
        BY <1>11, ViewOfOne, ViewOfOneAfter DEF vars
    <2> QED BY <1>11, <2>1 DEF vars, MapInv, Silent, SavingKnows
<1> QED
    BY <1>1, <1>2, <1>3, <1>4, <1>5, <1>6, <1>7, <1>8, <1>9, <1>10, <1>11 DEF Next

LEMMA MapStep ==
    ASSUME NEW u, Threads = {u}, Forced \subseteq {FALSE}, CacheInv, MapInv, [Next]_vars
    PROVE  [Map!Next]_(Map!vars)
<1>0. /\ ThreadsOK /\ TablesOK /\ Values \subseteq Cached /\ Deleted \in Cached
      /\ thr[u] \in ThreadStates /\ DOMAIN store \subseteq Keys /\ NoValue \notin Values
      /\ Deleted \notin Values
    BY KVAssumption DEF CacheInv, Cached, ThreadsOK, TablesOK, Caches
<1>a. ASSUME NEW new, thr' = [thr EXCEPT ![u] = new] PROVE thr'[u] = new
    BY <1>0, <1>a DEF ThreadsOK
<1>1. ASSUME NEW k \in Keys, NEW v \in Values, set(u, k, v) PROVE Map!Set(k, v)
    <2>1. setLocked(u, k, v) /\ Record(k, v) /\ UNCHANGED <<db, result>> /\ thr[u].op = "rest"
          /\ Row(v) = v
        BY <1>0, <1>1 DEF set, At, Row
    <2>2. View' = [View EXCEPT ![k] = v]
        BY <1>0, <2>1, SettingView
    <2> QED BY <2>1, <2>2 DEF Map!Set, Map!Put, Record
<1>2. ASSUME NEW k \in Keys, remove(u, k) PROVE Map!Remove(k)
    <2>1. setLocked(u, k, Deleted) /\ Record(k, NoValue) /\ UNCHANGED <<db, result>>
          /\ thr[u].op = "rest" /\ Row(Deleted) = NoValue
        BY <1>2 DEF remove, At, Row
    <2>2. View' = [View EXCEPT ![k] = NoValue]
        BY <1>0, <2>1, SettingView
    <2> QED BY <2>1, <2>2 DEF Map!Remove, Map!Put, Record
<1>3. ASSUME saveEvicted(u) PROVE UNCHANGED Map!vars
    <2>1. /\ db' = [db EXCEPT ![thr[u].key] = Row(thr[u].value)] /\ thr'[u] = Resting
          /\ UNCHANGED <<store, result, recent, since>> /\ thr[u].op = "evict"
        BY <1>3, <1>a DEF saveEvicted, At, history
    <2>2. \A k \in Keys : db'[k] = IF k = thr[u].key THEN Row(thr[u].value) ELSE db[k]
        BY <1>0, <2>1 DEF TablesOK
    <2>3. View' = View
        BY <2>1, <2>2, ViewOfOne, ViewOfOneAfter DEF Resting
    <2> QED BY <2>1, <2>3 DEF Map!vars
<1>4. ASSUME NEW k \in Keys, NEW force \in Forced, get(u, k, force)
      PROVE  Map!Get(u, k) \/ UNCHANGED Map!vars
    <2>1. UNCHANGED <<store, db, recent, since>> /\ ~force /\ thr[u].op = "rest"
        BY <1>4 DEF get, history, At
    <2>2. CASE k \in DOMAIN store /\ store[k] # Deleted
        <3>1. thr' = thr /\ result' = [result EXCEPT ![u] = store[k]]
            BY <1>4, <2>1, <2>2 DEF get
        <3>2. View' = View /\ View[k] = store[k]
            BY <2>1, <2>2, <3>1, ViewOfOne, ViewOfOneAfter DEF Row
        <3> QED BY <2>1, <3>1, <3>2 DEF Map!Get
    <2>3. CASE ~(k \in DOMAIN store /\ store[k] # Deleted)
        <3>1. thr' = [thr EXCEPT ![u] = [Resting EXCEPT !.op = "load", !.key = k]] /\ result' = result
            BY <1>4, <2>1, <2>3 DEF get
        <3>2. thr'[u].op = "load"
            BY <1>a, <3>1 DEF Resting
        <3>3. View' = View
            BY <2>1, <3>2, ViewOfOne, ViewOfOneAfter
        <3> QED BY <2>1, <3>1, <3>3 DEF Map!vars
    <2> QED BY <2>2, <2>3
<1>5. ASSUME load(u) PROVE (\E k \in Keys : Map!Get(u, k)) \/ UNCHANGED Map!vars
    <2> DEFINE k == thr[u].key
    <2>1. UNCHANGED <<store, db, recent, since>> /\ thr[u].op = "load" /\ k \in Keys
        BY <1>0, <1>5 DEF load, history, At, ThreadsOK
    <2>2. thr'[u].op \in {"rest", "fill"}
        BY <1>0, <1>5, <1>a DEF load, ThreadsOK, ThreadStates, Resting
    <2>3. View' = View
        BY <2>1, <2>2, ViewOfOne, ViewOfOneAfter
    <2>4. CASE db[k] = NoValue
        <3>1. result' = [result EXCEPT ![u] = NoValue]
            BY <1>5, <2>4 DEF load
        <3>2. View[k] = NoValue
            BY <2>1, <2>4, ViewOfOne DEF MapInv, Silent, Row
        <3>3. Map!Get(u, k)
            BY <2>1, <2>3, <3>1, <3>2 DEF Map!Get
        <3> QED BY <2>1, <3>3
    <2>5. CASE db[k] # NoValue
        BY <1>5, <2>1, <2>3, <2>5 DEF load, Map!vars
    <2> QED BY <2>4, <2>5
<1>6. ASSUME fill(u) PROVE \E k \in Keys : Map!Get(u, k) \/ Map!GetStored(u, k)
    <2> DEFINE k == thr[u].key
               v == thr[u].value
    <2>1. /\ setLocked(u, k, v) /\ db' = db /\ UNCHANGED <<recent, since>> /\ thr[u].op = "fill"
          /\ result' = [result EXCEPT ![u] = v]
        BY <1>6 DEF fill, At, history
    <2>2. k \in Keys /\ v \in Values /\ Row(v) = v /\ v = db[k] /\ v # NoValue /\ v \in recent[k]
        BY <1>0, <2>1 DEF ThreadsOK, Row, MapInv
    <2>3. View' = [View EXCEPT ![k] = v]
        BY <1>0, <2>1, <2>2, SettingView
    <2>4. CASE k \in DOMAIN store
        <3>1. store[k] = Deleted /\ k \in Removable
            BY <2>1, <2>4 DEF MapInv, Silent
        <3>2. View[k] = NoValue
            BY <2>2, <2>4, <3>1, ViewOfOne DEF Row
        <3>3. Map!GetStored(u, k)
            BY <2>1, <2>2, <2>3, <3>1, <3>2 DEF Map!GetStored
        <3> QED BY <2>2, <3>3
    <2>5. CASE k \notin DOMAIN store
        <3>1. View[k] = v
            BY <2>1, <2>2, <2>5, ViewOfOne
        <3>2. View' = View
            BY <2>2, <2>3, <3>1, ViewOfOne
        <3>3. Map!Get(u, k)
            BY <2>1, <3>1, <3>2 DEF Map!Get
        <3> QED BY <2>2, <3>3
    <2> QED BY <2>4, <2>5
<1>7. ASSUME saveAll(u) PROVE Map!BeginSaveAll(u)
    <2>1. /\ thr' = [thr EXCEPT ![u] = [Resting EXCEPT !.op = "saveAll", !.copy = store]]
          /\ since' = [since EXCEPT ![u] = [k \in Keys |-> {View[k]}]]
          /\ UNCHANGED <<store, db, result, recent>> /\ thr[u].op = "rest"
        BY <1>7 DEF saveAll, At
    <2>2. thr'[u].op = "saveAll"
        BY <1>a, <2>1 DEF Resting
    <2>3. View' = View
        BY <2>1, <2>2, ViewOfOne, ViewOfOneAfter
    <2> QED BY <2>1, <2>3 DEF Map!BeginSaveAll
<1>8. ASSUME NEW k \in Keys, saveDeleted(u, k) PROVE UNCHANGED Map!vars
    <2>1. /\ db' = [db EXCEPT ![k] = NoValue] /\ UNCHANGED <<store, result, recent, since>>
          /\ thr[u].op = "saveAll" /\ k \in DOMAIN thr[u].copy
        BY <1>8 DEF saveDeleted, At, history
    <2>2. thr'[u].op = "saveAll"
        BY <1>0, <1>8 DEF saveDeleted, ThreadsOK, ThreadStates, At
    <2>3. k \in DOMAIN store
        BY <2>1 DEF MapInv, SavingKnows
    <2>4. \A j \in Keys : j # k => db'[j] = db[j]
        BY <1>0, <2>1 DEF TablesOK
    <2>5. View' = View
        BY <2>1, <2>2, <2>3, <2>4, ViewOfOne, ViewOfOneAfter
    <2> QED BY <2>1, <2>5 DEF Map!vars
<1>9. ASSUME saveRows(u) PROVE Map!EndSaveAll(u)
    <2> DEFINE copy == thr[u].copy
    <2>1. /\ thr'[u] = Resting /\ UNCHANGED <<store, result, since>> /\ thr[u].op = "saveAll"
          /\ db' = [k \in Keys |-> IF k \in DOMAIN copy THEN copy[k] ELSE db[k]]
          /\ recent' = [k \in Keys |-> recent[k] \cap since[u][k]]
        BY <1>9, <1>a DEF saveRows, At
    <2>2. \A k \in Keys : k \notin DOMAIN store => db'[k] = db[k]
        BY <1>0, <2>1 DEF MapInv, SavingKnows
    <2>3. View' = View
        BY <2>1, <2>2, ViewOfOne, ViewOfOneAfter DEF Resting
    <2> QED BY <2>1, <2>3 DEF Map!EndSaveAll
<1>10. ASSUME Crash PROVE Map!Crash
    <2>1. /\ DOMAIN store' = {} /\ thr'[u] = Resting /\ db' = db
          /\ recent' = [k \in Keys |-> {db[k]}]
          /\ result' = [t \in Threads |-> NoValue]
          /\ since' = [t \in Threads |-> [k \in Keys |-> {}]]
        BY <1>10 DEF Crash
    <2>2. View' = [k \in Keys |-> db[k]]
        BY <2>1, ViewOfOneAfter DEF Resting
    <2> QED BY <1>0, <2>1, <2>2 DEF Map!Crash, MapInv, TablesOK
<1>11. CASE UNCHANGED vars
    <2>1. View' = View
        BY <1>11, ViewOfOne, ViewOfOneAfter DEF vars
    <2> QED BY <1>11, <2>1 DEF vars, Map!vars
<1>12. u \in Threads
    OBVIOUS
<1> QED
    BY <1>1, <1>2, <1>3, <1>4, <1>5, <1>6, <1>7, <1>8, <1>9, <1>10, <1>11, <1>12 DEF Next, Map!Next

\* The store with its cache, its evictions and its table is the map that KV promises:
\* every step is one operation of the map, at once, or none.
THEOREM StoreIsMap == ASSUME OneUser PROVE Spec => ImplementsMap
<1> PICK u : Threads = {u}
    BY DEF OneUser
<1>1. Forced \subseteq {FALSE}
    BY DEF OneUser
<1>2. Init => Map!Init
    <2> SUFFICES ASSUME Init PROVE Map!Init
        OBVIOUS
    <2>1. View = [k \in Keys |-> NoValue]
        <3>1. thr[u].op = "rest" /\ DOMAIN store = {} /\ \A k \in Keys : db[k] = NoValue
            BY DEF Init, Resting
        <3> QED BY <3>1, ViewOfOne
    <2> QED BY <2>1 DEF Init, Map!Init
<1>3. CacheInv /\ MapInv /\ [Next]_vars => (CacheInv /\ MapInv)'
    BY <1>1, CacheStep, MapInvStep
<1>4. CacheInv /\ MapInv /\ [Next]_vars => [Map!Next]_(Map!vars)
    BY <1>1, MapStep
<1>5. Spec => Map!Spec
    BY <1>2, <1>3, <1>4, InitCache, InitMap, PTL DEF Spec, Map!Spec
<1> QED BY <1>5 DEF ImplementsMap

-----------------------------------------------------------------------------
(***************************************************************************)
(* With any number of threads, each with keys of its own, a key changes    *)
(* only by what its thread sets as long as nothing has to be evicted,      *)
(* removed or forced to load: what a thread loads is not cached before it  *)
(* is filled in, and no copy of saveAll has it.                            *)
(***************************************************************************)
RoomForAll ==
    /\ IsFiniteSet(Keys) /\ Cardinality(Keys) < MaxSize
    /\ Removable = {} /\ Forced \subseteq {FALSE}
    /\ \A t, u \in Threads : t # u => KeysOf[t] \cap KeysOf[u] = {}

RoomInv ==
    /\ \A k \in DOMAIN store : store[k] # Deleted
    /\ \A t \in Threads :
          /\ thr[t].op # "evict"
          /\ thr[t].op \in {"load", "fill"} =>
                thr[t].key \in KeysOf[t] /\ thr[t].key \notin DOMAIN store
          /\ thr[t].op = "fill" => thr[t].value = db[thr[t].key]
          /\ thr[t].op = "saveAll" => DOMAIN thr[t].copy \subseteq DOMAIN store

LEMMA NeverFull == ASSUME RoomForAll, CacheInv PROVE ~Full
<1>1. DOMAIN store \in SUBSET Keys
    BY DEF CacheInv, TablesOK, Caches
<1>2. Cardinality(DOMAIN store) <= Cardinality(Keys)
    BY <1>1, FS_Subset DEF RoomForAll
<1>3. Cardinality(DOMAIN store) \in Nat /\ Cardinality(Keys) \in Nat /\ MaxSize \in Nat
    BY <1>1, FS_Subset, FS_CardinalityType, KVAssumption DEF RoomForAll
<1> QED BY <1>2, <1>3 DEF RoomForAll, Full

LEMMA ViewWithRoom ==
    ASSUME RoomInv
    PROVE  View = [k \in Keys |-> IF k \in DOMAIN store THEN Row(store[k]) ELSE db[k]]
BY DEF RoomInv, View, At

LEMMA ViewWithRoomAfter ==
    ASSUME RoomInv'
    PROVE  View' = [k \in Keys |-> IF k \in DOMAIN store' THEN Row(store'[k]) ELSE db'[k]]
BY DEF RoomInv, View, At, Row

LEMMA SettingWithRoom ==
    ASSUME RoomForAll, CacheInv, RoomInv, NEW t \in Threads, NEW k \in KeysOf[t], NEW v \in Values,
           thr[t].op \in {"rest", "fill"} , setLocked(t, k, v), db' = db,
           thr[t].op = "fill" => thr[t].key = k
    PROVE  /\ store' = [j \in DOMAIN store \cup {k} |-> IF j = k THEN v ELSE store[j]]
           /\ RoomInv'
<1>1. /\ store' = [j \in DOMAIN store \cup {k} |-> IF j = k THEN v ELSE store[j]]
      /\ thr' = [thr EXCEPT ![t] = Resting]
    BY NeverFull DEF setLocked
<1>2. \A u \in Threads : thr'[u] = IF u = t THEN Resting ELSE thr[u]
    BY <1>1 DEF CacheInv, ThreadsOK
<1>3. v # Deleted
    BY KVAssumption
<1>4. ASSUME NEW u \in Threads, u # t PROVE k \notin KeysOf[u]
    BY <1>4 DEF RoomForAll
<1>5. \A j \in DOMAIN store' : store'[j] # Deleted
    BY <1>1, <1>3 DEF RoomInv
<1>6. DOMAIN store' = DOMAIN store \cup {k}
    BY <1>1
<1>7. ASSUME NEW u \in Threads
      PROVE  /\ thr'[u].op # "evict"
             /\ thr'[u].op \in {"load", "fill"} =>
                   thr'[u].key \in KeysOf[u] /\ thr'[u].key \notin DOMAIN store'
             /\ thr'[u].op = "fill" => thr'[u].value = db'[thr'[u].key]
             /\ thr'[u].op = "saveAll" => DOMAIN thr'[u].copy \subseteq DOMAIN store'
    <2>1. CASE u = t
        BY <1>2, <2>1 DEF Resting
    <2>2. CASE u # t
        BY <1>2, <1>4, <1>6, <2>2 DEF RoomInv
    <2> QED BY <2>1, <2>2
<1> QED BY <1>1, <1>5, <1>7 DEF RoomInv

Changes(k) ==
    Crash \/ \E t \in Threads : remove(t, k) \/ \E v \in Values : set(t, k, v)

LEMMA RoomStep ==
    ASSUME RoomForAll, CacheInv, RoomInv, [Next]_vars
    PROVE  RoomInv' /\ \A k \in Keys : View'[k] # View[k] => Changes(k)
<1>0. /\ ThreadsOK /\ TablesOK /\ Values \subseteq Cached /\ DOMAIN store \subseteq Keys
      /\ Deleted \notin Values
    BY KVAssumption DEF CacheInv, Cached, TablesOK, Caches
<1>a. ASSUME NEW t \in Threads, NEW new, thr' = [thr EXCEPT ![t] = new]
      PROVE  \A u \in Threads : thr'[u] = IF u = t THEN new ELSE thr[u]
    BY <1>0, <1>a DEF ThreadsOK
<1>b. ASSUME RoomInv', UNCHANGED <<store, db>> PROVE View' = View
    BY <1>b, ViewWithRoom, ViewWithRoomAfter
<1>1. ASSUME NEW t \in Threads, NEW k \in Keys, NEW v \in Values, set(t, k, v)
      PROVE  RoomInv' /\ \A j \in Keys : View'[j] # View[j] => Changes(j)
    <2>1. setLocked(t, k, v) /\ db' = db /\ thr[t].op = "rest" /\ k \in KeysOf[t]
        BY <1>1 DEF set, At
    <2>2. RoomInv' /\ store' = [j \in DOMAIN store \cup {k} |-> IF j = k THEN v ELSE store[j]]
        BY <2>1, SettingWithRoom
    <2>3. \A j \in Keys : j # k => View'[j] = View[j]
        BY <2>1, <2>2, ViewWithRoom, ViewWithRoomAfter
    <2> QED BY <1>1, <2>2, <2>3 DEF Changes
<1>2. ASSUME NEW t \in Threads, NEW k \in Keys, remove(t, k) PROVE FALSE
    BY <1>2 DEF remove, RoomForAll
<1>3. ASSUME NEW t \in Threads, saveEvicted(t) PROVE FALSE
    BY <1>3 DEF saveEvicted, At, RoomInv
<1>4. ASSUME NEW t \in Threads, NEW k \in Keys, NEW force \in Forced, get(t, k, force)
      PROVE  RoomInv' /\ View' = View
    <2>1. UNCHANGED <<store, db>> /\ ~force /\ k \in KeysOf[t]
        BY <1>4 DEF get, RoomForAll
    <2>2. CASE thr' = thr
        <3>1. RoomInv'
            BY <2>1, <2>2 DEF RoomInv
        <3> QED BY <1>b, <2>1, <3>1
    <2>3. CASE thr' # thr
        <3>1. k \notin DOMAIN store
            BY <1>4, <2>1, <2>3 DEF get, RoomInv
        <3>2. thr' = [thr EXCEPT ![t] = [Resting EXCEPT !.op = "load", !.key = k]]
            BY <1>4, <2>1, <3>1 DEF get
        <3>3. /\ \A u \in Threads : u # t => thr'[u] = thr[u]
              /\ thr'[t].op = "load" /\ thr'[t].key = k
            <4>1. \A u \in Threads : thr'[u] = IF u = t THEN [Resting EXCEPT !.op = "load", !.key = k]
                                               ELSE thr[u]
                BY <1>a, <3>2
            <4> QED BY <4>1 DEF Resting
        <3>4. RoomInv'
            BY <2>1, <3>1, <3>3 DEF RoomInv
        <3> QED BY <1>b, <2>1, <3>4
    <2> QED BY <2>2, <2>3
<1>5. ASSUME NEW t \in Threads, load(t) PROVE RoomInv' /\ View' = View
    <2>1. UNCHANGED <<store, db>> /\ thr[t].op = "load"
        BY <1>5 DEF load, At
    <2>2. /\ \A u \in Threads : u # t => thr'[u] = thr[u]
          /\ \/ thr'[t] = Resting
             \/ thr'[t].op = "fill" /\ thr'[t].key = thr[t].key /\ thr'[t].value = db[thr[t].key]
        BY <1>0, <1>5 DEF load, ThreadsOK, ThreadStates
    <2>3. RoomInv'
        BY <2>1, <2>2 DEF RoomInv, Resting
    <2> QED BY <1>b, <2>1, <2>3
<1>6. ASSUME NEW t \in Threads, fill(t) PROVE RoomInv' /\ View' = View
    <2> DEFINE k == thr[t].key
               v == thr[t].value
    <2>1. setLocked(t, k, v) /\ db' = db /\ thr[t].op = "fill"
        BY <1>6 DEF fill, At
    <2>2. k \in Keys /\ v \in Values /\ k \in KeysOf[t] /\ k \notin DOMAIN store /\ v = db[k]
        BY <1>0, <2>1 DEF ThreadsOK, RoomInv
    <2>3. RoomInv' /\ store' = [j \in DOMAIN store \cup {k} |-> IF j = k THEN v ELSE store[j]]
        BY <2>1, <2>2, SettingWithRoom
    <2>4. View' = View
        BY <1>0, <2>1, <2>2, <2>3, ViewWithRoom, ViewWithRoomAfter DEF Row
    <2> QED BY <2>3, <2>4
<1>7. ASSUME NEW t \in Threads, saveAll(t) PROVE RoomInv' /\ View' = View
    <2>1. /\ thr' = [thr EXCEPT ![t] = [Resting EXCEPT !.op = "saveAll", !.copy = store]]
          /\ UNCHANGED <<store, db>>
        BY <1>7 DEF saveAll
    <2>2. /\ \A u \in Threads : u # t => thr'[u] = thr[u]
          /\ thr'[t].op = "saveAll" /\ thr'[t].copy = store
        <3>1. \A u \in Threads : thr'[u] = IF u = t THEN [Resting EXCEPT !.op = "saveAll", !.copy = store]
                                           ELSE thr[u]
            BY <1>a, <2>1
        <3> QED BY <3>1 DEF Resting
    <2>3. RoomInv'
        BY <2>1, <2>2 DEF RoomInv
    <2> QED BY <1>b, <2>1, <2>3
<1>8. ASSUME NEW t \in Threads, NEW k \in Keys, saveDeleted(t, k) PROVE RoomInv' /\ View' = View
    <2>1. /\ db' = [db EXCEPT ![k] = NoValue] /\ store' = store
          /\ thr[t].op = "saveAll" /\ k \in DOMAIN thr[t].copy
        BY <1>8 DEF saveDeleted, At
    <2>2. /\ \A u \in Threads : u # t => thr'[u] = thr[u]
          /\ thr'[t].op = "saveAll" /\ DOMAIN thr'[t].copy \subseteq DOMAIN thr[t].copy
        BY <1>0, <1>8, <2>1 DEF saveDeleted, ThreadsOK, ThreadStates
    <2>3. k \in DOMAIN store /\ \A j \in Keys : j # k => db'[j] = db[j]
        BY <1>0, <2>1 DEF RoomInv, TablesOK
    <2>4. RoomInv'
        BY <1>0, <2>1, <2>2, <2>3 DEF RoomInv, ThreadsOK
    <2> QED BY <2>1, <2>3, <2>4, ViewWithRoom, ViewWithRoomAfter
<1>9. ASSUME NEW t \in Threads, saveRows(t) PROVE RoomInv' /\ View' = View
    <2>1. /\ db' = [k \in Keys |-> IF k \in DOMAIN thr[t].copy THEN thr[t].copy[k] ELSE db[k]]
          /\ store' = store /\ thr[t].op = "saveAll" /\ thr' = [thr EXCEPT ![t] = Resting]
        BY <1>9 DEF saveRows, At
    <2>2. \A k \in Keys : k \notin DOMAIN store => db'[k] = db[k]
        BY <2>1 DEF RoomInv
    <2>3. \A u \in Threads : thr'[u] = IF u = t THEN Resting ELSE thr[u]
        BY <1>a, <2>1
    <2>4. RoomInv'
        BY <1>0, <2>1, <2>2, <2>3 DEF RoomInv, Resting, ThreadsOK
    <2> QED BY <2>1, <2>2, <2>4, ViewWithRoom, ViewWithRoomAfter
<1>10. ASSUME Crash PROVE RoomInv' /\ \A k \in Keys : Changes(k)
    <2>1. DOMAIN store' = {} /\ \A t \in Threads : thr'[t] = Resting
        BY <1>10 DEF Crash
    <2> QED BY <1>10, <2>1 DEF RoomInv, Resting, Changes
<1>11. CASE UNCHANGED vars
    <2>1. RoomInv'
        BY <1>11 DEF vars, RoomInv
    <2> QED BY <1>11, <1>b, <2>1 DEF vars
<1> QED
    BY <1>1, <1>2, <1>3, <1>4, <1>5, <1>6, <1>7, <1>8, <1>9, <1>10, <1>11 DEF Next

\* Nobody but its thread changes a key while there is room for all of them: what the
\* run kv_race shows of OwnKeysStable takes an eviction.
THEOREM StableWithRoom == ASSUME RoomForAll PROVE Spec => OwnKeysStable
<1>1. Init => RoomInv
    BY DEF Init, RoomInv, Resting
<1>2. CacheInv /\ RoomInv /\ [Next]_vars => (CacheInv /\ RoomInv)'
    BY CacheStep, RoomStep
<1>3. ASSUME CacheInv, RoomInv, [Next]_vars
      PROVE  [\A k \in Keys : View'[k] # View[k] =>
                 \/ Crash
                 \/ \E t \in Threads : remove(t, k) \/ \E v \in Values : set(t, k, v)]_vars
    BY <1>3, RoomStep DEF Changes
<1> QED BY <1>1, <1>2, <1>3, InitCache, PTL DEF Spec, OwnKeysStable
=============================================================================
