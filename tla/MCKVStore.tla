------------------------------ MODULE MCKVStore ------------------------------
\* Instances of KVStore for TLC: which keys each thread uses.
EXTENDS KVStore
CONSTANTS t1, t2, k1, k2, k3

OneThread == [t \in {t1} |-> {k1, k2, k3}]
EachItsOwn == (t1 :> {k1, k2}) @@ (t2 :> {k3})

\* The values, and the keys that are never removed, are interchangeable.
Symmetry == Permutations(Values) \cup Permutations(Keys \ Removable)
=============================================================================
