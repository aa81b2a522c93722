------------------------------- MODULE KVMap -------------------------------
(***************************************************************************)
(* What the key-value library promises its callers (class KV, kv/kv.hpp,   *)
(* and kv/README.md): a map whose operations are atomic, and whose         *)
(* contents a crash takes back no further than to the last saveAll.        *)
(***************************************************************************)
CONSTANTS
    Threads, Keys, Values, NoValue,
    Volatile  \* the keys whose removal may be undone by the next get

VARIABLES
    map,     \* the value of each key
    result,  \* what the last get of each thread returned
    recent,  \* the values each key may have after a crash
    since    \* per thread, the values of each key since its saveAll began

vars == <<map, result, recent, since>>

Init ==
    /\ map = [k \in Keys |-> NoValue]
    /\ result = [t \in Threads |-> NoValue]
    /\ recent = [k \in Keys |-> {NoValue}]
    /\ since = [t \in Threads |-> [k \in Keys |-> {}]]

Put(k, v) ==
    /\ map' = [map EXCEPT ![k] = v]
    /\ recent' = [recent EXCEPT ![k] = @ \cup {v}]
    /\ since' = [t \in Threads |-> [since[t] EXCEPT ![k] = @ \cup {v}]]
    /\ UNCHANGED result

Set(k, v) == v \in Values /\ Put(k, v)
Remove(k) == Put(k, NoValue)

Get(t, k) ==
    /\ result' = [result EXCEPT ![t] = map[k]]
    /\ UNCHANGED <<map, recent, since>>

\* A removal not yet saved: get may bring back a value that is still stored.
GetStored(t, k) ==
    /\ k \in Volatile /\ map[k] = NoValue
    /\ \E v \in recent[k] \ {NoValue} :
          /\ map' = [map EXCEPT ![k] = v]
          /\ result' = [result EXCEPT ![t] = v]
    /\ UNCHANGED <<recent, since>>

BeginSaveAll(t) ==
    /\ since' = [since EXCEPT ![t] = [k \in Keys |-> {map[k]}]]
    /\ UNCHANGED <<map, result, recent>>

EndSaveAll(t) ==
    /\ recent' = [k \in Keys |-> recent[k] \cap since[t][k]]
    /\ UNCHANGED <<map, result, since>>

Crash ==
    /\ map' \in [Keys -> Values \cup {NoValue}]
    /\ \A k \in Keys : map'[k] \in recent[k]
    /\ recent' = [k \in Keys |-> {map'[k]}]
    /\ result' = [t \in Threads |-> NoValue]
    /\ since' = [t \in Threads |-> [k \in Keys |-> {}]]

Next ==
    \/ \E k \in Keys : Remove(k) \/ \E v \in Values : Set(k, v)
    \/ \E t \in Threads : \/ BeginSaveAll(t) \/ EndSaveAll(t)
                          \/ \E k \in Keys : Get(t, k) \/ GetStored(t, k)
    \/ Crash

Spec == Init /\ [][Next]_vars
=============================================================================
