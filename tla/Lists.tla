------------------------------- MODULE Lists -------------------------------
(***************************************************************************)
(* Filtering and counting in lists.                                        *)
(***************************************************************************)
EXTENDS Integers, FiniteSets, SequencesExt

\* s without what is not in S, in the same order.
Only(s, S) ==
    LET kept[i \in 0 .. Len(s)] ==
            IF i = 0 THEN <<>>
            ELSE IF s[i] \in S THEN Append(kept[i - 1], s[i]) ELSE kept[i - 1]
    IN  kept[Len(s)]

Dropping(s, x) == Only(s, ToSet(s) \ {x})

\* How many positions of s hold one of S.
Count(s, S) == Len(Only(s, S))
=============================================================================
