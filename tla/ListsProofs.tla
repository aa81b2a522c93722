----------------------------- MODULE ListsProofs -----------------------------
(***************************************************************************)
(* Facts about lists that the proofs of the components cite: what Append,  *)
(* \o, Tail, Front, RemoveAt and filtering do to the elements of a list,   *)
(* and how many of a kind it holds; and the first and the last of a set of *)
(* numbers.                                                                *)
(*                                                                         *)
(* Only is a recursive function, so what it does to every list needs       *)
(* induction.  The induction principles of the libraries take a predicate  *)
(* as a parameter; here they are stated of a set, and come from the least  *)
(* element of a set of naturals, which NatLessThanWellFounded gives.       *)
(***************************************************************************)
EXTENDS Lists, SequenceTheorems, FiniteSetTheorems, WellFoundedInduction, TLAPS

\* A set of naturals has a least element.
LEMMA LeastNat ==
    ASSUME NEW T \in SUBSET Nat, T # {}
    PROVE  \E n \in T : \A m \in T : n <= m
<1> DEFINE Below == {ss \in Nat \X Nat : ss[1] < ss[2]}
<1>1. IsWellFoundedOn(Below, Nat)
    BY NatLessThanWellFounded DEF OpToRel
<1> HIDE DEF Below
<1>2. PICK n \in T : \A m \in T : <<m, n>> \notin Below
    BY <1>1, WFMin, Zenon
<1>3. ASSUME NEW m \in T PROVE n <= m
    <2>1. ~(m < n)
        BY <1>2 DEF Below
    <2> QED BY <2>1
<1> QED BY <1>3

\* Induction over the naturals.
LEMMA NatSetInduction ==
    ASSUME NEW S, 0 \in S, \A n \in Nat : n \in S => n + 1 \in S
    PROVE  Nat \subseteq S
<1> SUFFICES ASSUME Nat \ S # {} PROVE FALSE
    OBVIOUS
<1>1. PICK n \in Nat \ S : \A m \in Nat \ S : n <= m
    BY LeastNat
<1>2. n # 0 /\ n - 1 \in Nat
    BY <1>1
<1>3. n - 1 \in S
    BY <1>1, <1>2
<1> QED BY <1>1, <1>2, <1>3

\* Induction over lists: what holds of the empty list and survives Append holds
\* of every list.
LEMMA AppendInduction ==
    ASSUME NEW A, NEW P, <<>> \in P,
           \A s \in Seq(A), x \in A : s \in P => Append(s, x) \in P
    PROVE  Seq(A) \subseteq P
<1> DEFINE N == {n \in Nat : \A s \in Seq(A) : Len(s) = n => s \in P}
<1>1. 0 \in N
    BY EmptySeq
<1>2. ASSUME NEW n \in Nat, n \in N PROVE n + 1 \in N
    <2> SUFFICES ASSUME NEW s \in Seq(A), Len(s) = n + 1 PROVE s \in P
        OBVIOUS
    <2> DEFINE t == SubSeq(s, 1, n)
    <2>1. t \in Seq(A) /\ Len(t) = n /\ s[n + 1] \in A
        OBVIOUS
    <2>2. s = Append(t, s[n + 1])
        OBVIOUS
    <2> HIDE DEF t
    <2> QED BY <1>2, <2>1, <2>2
<1>3. Nat \subseteq N
    <2> HIDE DEF N
    <2> QED BY <1>1, <1>2, NatSetInduction
<1> QED BY <1>3

Keeping(s, S, f) ==
    f = [i \in 0 .. Len(s) |->
            IF i = 0 THEN <<>>
            ELSE IF s[i] \in S THEN Append(f[i - 1], s[i]) ELSE f[i - 1]]

\* The function that Only reads off exists, and is the one its definition says.
LEMMA OnlyDef ==
    ASSUME NEW A, NEW S, NEW s \in Seq(A)
    PROVE  /\ \E f : Keeping(s, S, f)
           /\ \A f : Keeping(s, S, f) => f[Len(s)] = Only(s, S)
<1> DEFINE P == {t \in Seq(A) : \E f : Keeping(t, S, f)}
<1>1. <<>> \in P
    <2> DEFINE f == [i \in 0 .. 0 |-> <<>>]
    <2>1. Keeping(<<>>, S, f)
        BY DEF Keeping
    <2> QED BY <2>1
<1>2. ASSUME NEW t \in Seq(A), NEW x \in A, t \in P PROVE Append(t, x) \in P
    <2>1. PICK f : Keeping(t, S, f)
        BY <1>2
    <2> DEFINE u == Append(t, x)
               g == [i \in 0 .. Len(u) |-> IF i <= Len(t) THEN f[i]
                        ELSE IF x \in S THEN Append(f[Len(t)], x) ELSE f[Len(t)]]
    <2>2. Len(u) = Len(t) + 1 /\ u[Len(u)] = x /\ u \in Seq(A)
          /\ \A i \in 1 .. Len(t) : u[i] = t[i]
        OBVIOUS
    <2>3. \A i \in 0 .. Len(t) : f[i] = IF i = 0 THEN <<>>
            ELSE IF t[i] \in S THEN Append(f[i - 1], t[i]) ELSE f[i - 1]
        BY <2>1 DEF Keeping
    <2> HIDE DEF u
    <2>4. Keeping(u, S, g)
        BY <2>2, <2>3 DEF Keeping
    <2> HIDE DEF g
    <2> QED BY <2>2, <2>4 DEF u
<1>3. s \in P
    <2> HIDE DEF P
    <2> QED BY <1>1, <1>2, AppendInduction
<1>4. ASSUME NEW f, NEW g, Keeping(s, S, f), Keeping(s, S, g)
      PROVE  f[Len(s)] = g[Len(s)]
    <2> DEFINE N == {n \in Nat : n <= Len(s) => f[n] = g[n]}
    <2>0. ASSUME NEW h, Keeping(s, S, h)
          PROVE  \A i \in 0 .. Len(s) : h[i] = IF i = 0 THEN <<>>
                    ELSE IF s[i] \in S THEN Append(h[i - 1], s[i]) ELSE h[i - 1]
        BY <2>0 DEF Keeping
    <2>1. 0 \in N
        BY <1>4, <2>0
    <2>2. ASSUME NEW n \in Nat, n \in N PROVE n + 1 \in N
        <3> SUFFICES ASSUME n + 1 <= Len(s) PROVE f[n + 1] = g[n + 1]
            OBVIOUS
        <3>1. f[n] = g[n] /\ n + 1 \in 0 .. Len(s) /\ n + 1 # 0 /\ (n + 1) - 1 = n
            BY <2>2
        <3> QED BY <1>4, <2>0, <3>1
    <2>3. Nat \subseteq N
        <3> HIDE DEF N
        <3> QED BY <2>1, <2>2, NatSetInduction
    <2> QED BY <2>3
<1>5. Only(s, S) = (CHOOSE f : Keeping(s, S, f))[Len(s)]
    BY DEF Only, Keeping
<1> QED BY <1>3, <1>4, <1>5

\* What Only keeps of the empty list, and of a list with one more element.
LEMMA OnlyEmpty == ASSUME NEW S PROVE Only(<<>>, S) = <<>>
<1>1. <<>> \in Seq({}) /\ Len(<<>>) = 0
    BY EmptySeq
<1>2. PICK f : Keeping(<<>>, S, f)
    BY <1>1, OnlyDef
<1>3. f[0] = Only(<<>>, S)
    BY <1>1, <1>2, OnlyDef
<1> QED BY <1>1, <1>2, <1>3 DEF Keeping

LEMMA OnlyAppend ==
    ASSUME NEW A, NEW S, NEW s \in Seq(A), NEW x \in A
    PROVE  Only(Append(s, x), S) = IF x \in S THEN Append(Only(s, S), x) ELSE Only(s, S)
<1> DEFINE u == Append(s, x)
<1>1. u \in Seq(A) /\ Len(u) = Len(s) + 1 /\ Len(s) \in Nat /\ u[Len(u)] = x
      /\ \A i \in 1 .. Len(s) : u[i] = s[i]
    OBVIOUS
<1> HIDE DEF u
<1>2. PICK f : Keeping(u, S, f)
    BY <1>1, OnlyDef
<1>3. f[Len(u)] = Only(u, S)
    BY <1>1, <1>2, OnlyDef
<1>4. \A i \in 0 .. Len(u) : f[i] = IF i = 0 THEN <<>>
            ELSE IF u[i] \in S THEN Append(f[i - 1], u[i]) ELSE f[i - 1]
    BY <1>2 DEF Keeping
<1> DEFINE g == [i \in 0 .. Len(s) |-> f[i]]
<1>5. Keeping(s, S, g)
    BY <1>1, <1>4 DEF Keeping
<1>6. g[Len(s)] = Only(s, S)
    <2> HIDE DEF g
    <2> QED BY <1>5, OnlyDef
<1>7. f[Len(u)] = IF x \in S THEN Append(f[Len(s)], x) ELSE f[Len(s)]
    BY <1>1, <1>4
<1> QED BY <1>1, <1>3, <1>6, <1>7 DEF u

\* The elements of a list, and whether it repeats one, when an element is put last.
LEMMA AppendSet ==
    ASSUME NEW A, NEW s \in Seq(A), NEW x \in A
    PROVE  /\ Append(s, x) \in Seq(A)
           /\ ToSet(Append(s, x)) = ToSet(s) \cup {x}
           /\ IsInjective(Append(s, x)) <=> IsInjective(s) /\ x \notin ToSet(s)
<1> DEFINE u == Append(s, x)
           n == Len(s)
<1>1. /\ u \in Seq(A) /\ n \in Nat /\ DOMAIN s = 1 .. n /\ DOMAIN u = 1 .. n + 1
      /\ u[n + 1] = x /\ \A i \in 1 .. n : u[i] = s[i]
    OBVIOUS
<1>2. \A i \in 1 .. n + 1 : i \in 1 .. n \/ i = n + 1
    BY <1>1
<1> HIDE DEF u, n
<1>3. ToSet(u) = ToSet(s) \cup {x}
    <2>1. ASSUME NEW i \in 1 .. n + 1 PROVE u[i] \in ToSet(s) \cup {x}
        BY <1>1, <1>2 DEF ToSet
    <2>2. ASSUME NEW i \in 1 .. n PROVE s[i] \in ToSet(u)
        BY <1>1 DEF ToSet
    <2>3. x \in ToSet(u)
        BY <1>1 DEF ToSet
    <2> QED BY <1>1, <2>1, <2>2, <2>3 DEF ToSet
<1>4. ASSUME IsInjective(u) PROVE IsInjective(s) /\ x \notin ToSet(s)
    <2>1. IsInjective(s)
        BY <1>1, <1>4 DEF IsInjective
    <2>2. ASSUME NEW i \in 1 .. n PROVE s[i] # x
        BY <1>1, <1>4 DEF IsInjective
    <2> QED BY <1>1, <2>1, <2>2 DEF ToSet
<1>5. ASSUME IsInjective(s), x \notin ToSet(s) PROVE IsInjective(u)
    <2>1. \A i \in 1 .. n : s[i] # x
        BY <1>1, <1>5 DEF ToSet
    <2>2. \A i, j \in 1 .. n : s[i] = s[j] => i = j
        BY <1>1, <1>5 DEF IsInjective
    <2>3. \A i, j \in 1 .. n + 1 : u[i] = u[j] => i = j
        BY <1>1, <1>2, <2>1, <2>2
    <2> QED BY <1>1, <2>3 DEF IsInjective
<1> QED BY <1>1, <1>3, <1>4, <1>5 DEF u

\* The same when a list is put behind another.
LEMMA ConcatSet ==
    ASSUME NEW A, NEW s \in Seq(A), NEW u \in Seq(A)
    PROVE  /\ s \o u \in Seq(A)
           /\ ToSet(s \o u) = ToSet(s) \cup ToSet(u)
           /\ IsInjective(s) /\ IsInjective(u) /\ ToSet(s) \cap ToSet(u) = {}
                => IsInjective(s \o u)
<1> DEFINE w == s \o u
           n == Len(s)
           m == Len(u)
<1>1. /\ w \in Seq(A) /\ n \in Nat /\ m \in Nat
      /\ DOMAIN s = 1 .. n /\ DOMAIN u = 1 .. m /\ DOMAIN w = 1 .. n + m
      /\ \A i \in 1 .. n : w[i] = s[i]
      /\ \A i \in n + 1 .. n + m : w[i] = u[i - n]
    OBVIOUS
<1> HIDE DEF w, n, m
<1>2. ASSUME NEW i \in 1 .. n + m
      PROVE  \/ i \in 1 .. n /\ w[i] = s[i]
             \/ i - n \in 1 .. m /\ w[i] = u[i - n]
    BY <1>1
<1>3. ToSet(w) = ToSet(s) \cup ToSet(u)
    <2>1. ASSUME NEW i \in 1 .. n + m PROVE w[i] \in ToSet(s) \cup ToSet(u)
        BY <1>1, <1>2 DEF ToSet
    <2>2. ASSUME NEW i \in 1 .. n PROVE s[i] \in ToSet(w)
        <3>1. i \in 1 .. n + m /\ w[i] = s[i]
            BY <1>1
        <3> QED BY <1>1, <3>1 DEF ToSet
    <2>3. ASSUME NEW i \in 1 .. m PROVE u[i] \in ToSet(w)
        <3>1. n + i \in n + 1 .. n + m /\ n + i \in 1 .. n + m /\ (n + i) - n = i
            BY <1>1
        <3>2. w[n + i] = u[i]
            BY <1>1, <3>1
        <3> QED BY <1>1, <3>1, <3>2 DEF ToSet
    <2> QED BY <1>1, <2>1, <2>2, <2>3 DEF ToSet
<1>4. ASSUME IsInjective(s), IsInjective(u), ToSet(s) \cap ToSet(u) = {}
      PROVE  IsInjective(w)
    <2>1. \A i \in 1 .. n, j \in 1 .. m : s[i] # u[j]
        BY <1>1, <1>4 DEF ToSet
    <2>2. \A i, j \in 1 .. n : s[i] = s[j] => i = j
        BY <1>1, <1>4 DEF IsInjective
    <2>3. \A i, j \in 1 .. m : u[i] = u[j] => i = j
        BY <1>1, <1>4 DEF IsInjective
    <2>4. ASSUME NEW i \in 1 .. n + m, NEW j \in 1 .. n + m, w[i] = w[j]
          PROVE  i = j
        <3>1. CASE i \in 1 .. n /\ w[i] = s[i]
            <4>1. CASE j \in 1 .. n /\ w[j] = s[j]
                BY <2>2, <2>4, <3>1, <4>1
            <4>2. CASE j - n \in 1 .. m /\ w[j] = u[j - n]
                BY <2>1, <2>4, <3>1, <4>2
            <4> QED BY <1>2, <4>1, <4>2
        <3>2. CASE i - n \in 1 .. m /\ w[i] = u[i - n]
            <4>1. CASE j \in 1 .. n /\ w[j] = s[j]
                BY <2>1, <2>4, <3>2, <4>1
            <4>2. CASE j - n \in 1 .. m /\ w[j] = u[j - n]
                <5>1. i - n = j - n
                    BY <2>3, <2>4, <3>2, <4>2
                <5> QED BY <1>1, <5>1
            <4> QED BY <1>2, <4>1, <4>2
        <3> QED BY <1>2, <3>1, <3>2
    <2> QED BY <1>1, <2>4 DEF IsInjective
<1> QED BY <1>1, <1>3, <1>4 DEF w

\* The same when the first element is taken.
LEMMA TailSet ==
    ASSUME NEW A, NEW s \in Seq(A), s # <<>>
    PROVE  /\ Head(s) \in A /\ Tail(s) \in Seq(A)
           /\ ToSet(s) = {Head(s)} \cup ToSet(Tail(s))
           /\ IsInjective(s) => IsInjective(Tail(s)) /\ Head(s) \notin ToSet(Tail(s))
<1> DEFINE w == Tail(s)
           n == Len(s)
<1>1. /\ w \in Seq(A) /\ n \in Nat /\ n >= 1 /\ Head(s) = s[1] /\ s[1] \in A
      /\ DOMAIN s = 1 .. n /\ DOMAIN w = 1 .. n - 1
      /\ \A i \in 1 .. n - 1 : w[i] = s[i + 1]
    OBVIOUS
<1> HIDE DEF w, n
<1>2. ToSet(s) = {s[1]} \cup ToSet(w)
    <2>1. ASSUME NEW i \in 1 .. n PROVE s[i] \in {s[1]} \cup ToSet(w)
        <3>1. CASE i # 1
            <4>1. i - 1 \in 1 .. n - 1 /\ w[i - 1] = s[i]
                BY <1>1, <3>1
            <4> QED BY <1>1, <4>1 DEF ToSet
        <3> QED BY <3>1
    <2>2. ASSUME NEW i \in 1 .. n - 1 PROVE w[i] \in ToSet(s)
        <3>1. i + 1 \in 1 .. n
            BY <1>1
        <3> QED BY <1>1, <3>1 DEF ToSet
    <2>3. s[1] \in ToSet(s)
        BY <1>1 DEF ToSet
    <2> QED BY <1>1, <2>1, <2>2, <2>3 DEF ToSet
<1>3. ASSUME IsInjective(s) PROVE IsInjective(w) /\ s[1] \notin ToSet(w)
    <2>1. \A i, j \in 1 .. n : s[i] = s[j] => i = j
        BY <1>1, <1>3 DEF IsInjective
    <2>2. \A i, j \in 1 .. n - 1 : w[i] = w[j] => i = j
        BY <1>1, <2>1
    <2>3. \A i \in 1 .. n - 1 : w[i] # s[1]
        BY <1>1, <2>1
    <2> QED BY <1>1, <2>2, <2>3 DEF IsInjective, ToSet
<1> QED BY <1>1, <1>2, <1>3 DEF w

\* The same when any element is taken.
LEMMA RemoveAtSet ==
    ASSUME NEW A, NEW s \in Seq(A), NEW k \in 1 .. Len(s)
    PROVE  /\ RemoveAt(s, k) \in Seq(A)
           /\ ToSet(s) = {s[k]} \cup ToSet(RemoveAt(s, k))
           /\ IsInjective(s) => /\ IsInjective(RemoveAt(s, k))
                                /\ s[k] \notin ToSet(RemoveAt(s, k))
<1> DEFINE n == Len(s)
           a == SubSeq(s, 1, k - 1)
           b == SubSeq(s, k + 1, n)
           w == RemoveAt(s, k)
<1>1. n \in Nat /\ k \in 1 .. n /\ DOMAIN s = 1 .. n /\ w = a \o b
    BY DEF RemoveAt
<1>2. a \in Seq(A) /\ Len(a) = k - 1 /\ DOMAIN a = 1 .. k - 1 /\ \A i \in 1 .. k - 1 : a[i] = s[i]
    BY SubSeqProperties
<1>3. /\ b \in Seq(A) /\ Len(b) = n - k /\ DOMAIN b = 1 .. n - k
      /\ \A i \in 1 .. n - k : b[i] = s[k + i]
    BY SubSeqProperties
<1> HIDE DEF n, a, b, w
<1>4. ToSet(s) = {s[k]} \cup (ToSet(a) \cup ToSet(b))
    <2>1. ASSUME NEW i \in 1 .. n PROVE s[i] \in {s[k]} \cup ToSet(a) \cup ToSet(b)
        <3>1. CASE i < k
            <4>1. i \in 1 .. k - 1 /\ a[i] = s[i]
                BY <1>1, <1>2, <3>1
            <4>2. a[i] \in ToSet(a)
                BY <1>2, <4>1 DEF ToSet
            <4> QED BY <4>1, <4>2
        <3>2. CASE i > k
            <4>1. i - k \in 1 .. n - k /\ k + (i - k) = i
                BY <1>1, <3>2
            <4>2. b[i - k] = s[i]
                BY <1>3, <4>1
            <4>3. b[i - k] \in ToSet(b)
                BY <1>3, <4>1 DEF ToSet
            <4> QED BY <4>2, <4>3
        <3>3. CASE i = k
            BY <3>3
        <3> QED BY <1>1, <3>1, <3>2, <3>3
    <2>2. ASSUME NEW i \in 1 .. k - 1 PROVE a[i] \in ToSet(s)
        <3>1. i \in 1 .. n /\ a[i] = s[i]
            BY <1>1, <1>2
        <3> QED BY <1>1, <3>1 DEF ToSet
    <2>3. ASSUME NEW i \in 1 .. n - k PROVE b[i] \in ToSet(s)
        <3>1. k + i \in 1 .. n
            BY <1>1
        <3> QED BY <1>1, <1>3, <3>1 DEF ToSet
    <2>4. s[k] \in ToSet(s)
        BY <1>1 DEF ToSet
    <2>5. ToSet(s) \subseteq {s[k]} \cup ToSet(a) \cup ToSet(b)
        BY <1>1, <2>1 DEF ToSet
    <2>6. ToSet(a) \subseteq ToSet(s)
        BY <1>2, <2>2 DEF ToSet
    <2>7. ToSet(b) \subseteq ToSet(s)
        BY <1>3, <2>3 DEF ToSet
    <2> QED BY <2>4, <2>5, <2>6, <2>7
<1>5. ASSUME IsInjective(s)
      PROVE  /\ IsInjective(a) /\ IsInjective(b) /\ ToSet(a) \cap ToSet(b) = {}
             /\ s[k] \notin ToSet(a) \cup ToSet(b)
    <2>1. \A i, j \in 1 .. n : s[i] = s[j] => i = j
        BY <1>1, <1>5 DEF IsInjective
    <2>2. \A i \in 1 .. k - 1 : i \in 1 .. n /\ i # k
        BY <1>1
    <2>3. \A i \in 1 .. n - k : k + i \in 1 .. n /\ k + i # k
        BY <1>1
    <2>4. \A i, j \in 1 .. k - 1 : a[i] = a[j] => i = j
        BY <1>2, <2>1, <2>2
    <2>5. \A i, j \in 1 .. n - k : b[i] = b[j] => i = j
        <3> TAKE i, j \in 1 .. n - k
        <3>1. b[i] = b[j] => k + i = k + j
            BY <1>3, <2>1, <2>3
        <3> QED BY <1>1, <3>1
    <2>6. \A i \in 1 .. k - 1, j \in 1 .. n - k : a[i] # b[j]
        <3> TAKE i \in 1 .. k - 1, j \in 1 .. n - k
        <3>1. a[i] = b[j] => i = k + j
            BY <1>2, <1>3, <2>1, <2>2, <2>3
        <3> QED BY <1>1, <3>1
    <2>7. /\ \A i \in 1 .. k - 1 : a[i] # s[k]
          /\ \A i \in 1 .. n - k : b[i] # s[k]
        BY <1>1, <1>2, <1>3, <2>1, <2>2, <2>3
    <2> QED BY <1>2, <1>3, <2>4, <2>5, <2>6, <2>7 DEF IsInjective, ToSet
<1>6. /\ w \in Seq(A) /\ ToSet(w) = ToSet(a) \cup ToSet(b)
      /\ IsInjective(s) => IsInjective(w)
    BY <1>1, <1>2, <1>3, <1>5, ConcatSet
<1> QED BY <1>4, <1>5, <1>6 DEF w

\* A filtered list has the elements asked for, and repeats none if the list did not.
LEMMA OnlyProperties ==
    ASSUME NEW A, NEW S, NEW s \in Seq(A)
    PROVE  /\ Only(s, S) \in Seq(A)
           /\ Len(Only(s, S)) <= Len(s)
           /\ ToSet(Only(s, S)) = ToSet(s) \cap S
           /\ IsInjective(s) => IsInjective(Only(s, S))
<1> DEFINE P == {t \in Seq(A) :
                   /\ Only(t, S) \in Seq(A) /\ Len(Only(t, S)) <= Len(t)
                   /\ ToSet(Only(t, S)) = ToSet(t) \cap S
                   /\ IsInjective(t) => IsInjective(Only(t, S))}
<1>1. <<>> \in P
    <2>1. <<>> \in Seq(A) /\ Len(<<>>) = 0 /\ ToSet(<<>>) = {} /\ Only(<<>>, S) = <<>>
        BY EmptySeq, OnlyEmpty DEF ToSet
    <2>2. IsInjective(<<>>) => IsInjective(Only(<<>>, S))
        BY <2>1, Zenon
    <2>3. ToSet(Only(<<>>, S)) = ToSet(<<>>) \cap S
        BY <2>1
    <2>4. Only(<<>>, S) \in Seq(A) /\ Len(Only(<<>>, S)) <= Len(<<>>)
        <3>1. Only(<<>>, S) \in Seq(A) /\ Len(Only(<<>>, S)) = 0
            BY <2>1, Zenon
        <3> QED BY <2>1, <3>1
    <2> QED BY <2>1, <2>2, <2>3, <2>4, Zenon
<1>2. ASSUME NEW t \in Seq(A), NEW x \in A, t \in P PROVE Append(t, x) \in P
    <2> DEFINE o == Only(t, S)
    <2>1. /\ o \in Seq(A) /\ Len(o) \in Nat /\ Len(o) <= Len(t) /\ ToSet(o) = ToSet(t) \cap S
          /\ IsInjective(t) => IsInjective(o)
        BY <1>2
    <2>2. Len(Append(o, x)) = Len(o) + 1 /\ Len(Append(t, x)) = Len(t) + 1 /\ Len(t) \in Nat
        BY <2>1
    <2>3. Only(Append(t, x), S) = IF x \in S THEN Append(o, x) ELSE o
        BY OnlyAppend
    <2> HIDE DEF o
    <2>4. /\ ToSet(Append(t, x)) = ToSet(t) \cup {x} /\ ToSet(Append(o, x)) = ToSet(o) \cup {x}
          /\ Append(t, x) \in Seq(A) /\ Append(o, x) \in Seq(A)
          /\ IsInjective(Append(t, x)) => IsInjective(t) /\ x \notin ToSet(t)
          /\ IsInjective(o) /\ x \notin ToSet(o) => IsInjective(Append(o, x))
        BY <2>1, AppendSet
    <2> DEFINE u == Append(t, x)
               w == Only(u, S)
    <2>5. w \in Seq(A) /\ Len(w) <= Len(u)
        BY <2>1, <2>2, <2>3, <2>4
    <2>6. ToSet(w) = ToSet(u) \cap S
        BY <2>1, <2>3, <2>4
    <2>7. IsInjective(u) => IsInjective(w)
        BY <2>1, <2>3, <2>4
    <2> QED BY <2>4, <2>5, <2>6, <2>7
<1>3. s \in P
    <2> HIDE DEF P
    <2> QED BY <1>1, <1>2, AppendInduction
<1> QED BY <1>3

\* A list without one of its elements.
LEMMA DroppingProperties ==
    ASSUME NEW A, NEW x, NEW s \in Seq(A)
    PROVE  /\ Dropping(s, x) \in Seq(A)
           /\ ToSet(Dropping(s, x)) = ToSet(s) \ {x}
           /\ IsInjective(s) => IsInjective(Dropping(s, x))
<1>1. ToSet(s) \cap (ToSet(s) \ {x}) = ToSet(s) \ {x}
    OBVIOUS
<1> QED BY <1>1, OnlyProperties DEF Dropping

\* The same as TailSet for the last element.
LEMMA FrontProperties ==
    ASSUME NEW A, NEW s \in Seq(A), s # <<>>
    PROVE  /\ Front(s) \in Seq(A) /\ s[Len(s)] \in ToSet(s) /\ s[Len(s)] \in A
           /\ IsInjective(s) => /\ ToSet(Front(s)) = ToSet(s) \ {s[Len(s)]}
                                /\ IsInjective(Front(s))
<1>1. /\ Len(s) \in Nat /\ Len(s) # 0 /\ DOMAIN s = 1 .. Len(s)
      /\ Front(s) \in Seq(A) /\ DOMAIN Front(s) = 1 .. Len(s) - 1
      /\ \A i \in 1 .. Len(s) - 1 : Front(s)[i] = s[i]
    BY DEF Front
<1>2. s[Len(s)] \in ToSet(s) /\ s[Len(s)] \in A
    BY <1>1 DEF ToSet
<1>3. ASSUME IsInjective(s) PROVE ToSet(Front(s)) = ToSet(s) \ {s[Len(s)]}
    <2>1. ASSUME NEW i \in 1 .. Len(s) - 1 PROVE s[i] # s[Len(s)]
        BY <1>1, <1>3 DEF IsInjective
    <2> QED BY <1>1, <2>1 DEF ToSet
<1>4. ASSUME IsInjective(s) PROVE IsInjective(Front(s))
    BY <1>1, <1>4 DEF IsInjective
<1> QED BY <1>1, <1>2, <1>3, <1>4

\* An element is put first.
LEMMA PushFrontProperties ==
    ASSUME NEW A, NEW x \in A, NEW s \in Seq(A)
    PROVE  /\ <<x>> \o s \in Seq(A) /\ ToSet(<<x>> \o s) = {x} \cup ToSet(s)
           /\ IsInjective(s) /\ x \notin ToSet(s) => IsInjective(<<x>> \o s)
<1> DEFINE t == <<x>> \o s
<1>1. /\ t \in Seq(A) /\ Len(s) \in Nat /\ DOMAIN s = 1 .. Len(s)
      /\ DOMAIN t = 1 .. Len(s) + 1 /\ t[1] = x
      /\ \A i \in 1 .. Len(s) : t[i + 1] = s[i]
    OBVIOUS
<1>2. \A i \in 2 .. Len(s) + 1 : i - 1 \in 1 .. Len(s) /\ t[i] = s[i - 1]
    OBVIOUS
<1> HIDE DEF t
<1>3. ToSet(t) = {x} \cup ToSet(s)
    <2>1. ASSUME NEW i \in 1 .. Len(s) + 1 PROVE t[i] \in {x} \cup ToSet(s)
        <3>1. i = 1 \/ i \in 2 .. Len(s) + 1
            BY <1>1
        <3>2. ASSUME i \in 2 .. Len(s) + 1 PROVE t[i] \in ToSet(s)
            BY <1>1, <1>2, <3>2 DEF ToSet
        <3> QED BY <1>1, <3>1, <3>2
    <2>2. {x} \cup ToSet(s) \subseteq ToSet(t)
        BY <1>1 DEF ToSet
    <2> QED BY <1>1, <2>1, <2>2 DEF ToSet
<1>4. ASSUME IsInjective(s), x \notin ToSet(s) PROVE IsInjective(t)
    <2> SUFFICES ASSUME NEW i \in 1 .. Len(s) + 1, NEW j \in 1 .. Len(s) + 1, t[i] = t[j]
                 PROVE  i = j
        BY <1>1 DEF IsInjective
    <2>1. \A k \in 1 .. Len(s) : s[k] # x
        BY <1>1, <1>4 DEF ToSet
    <2>2. \A k, l \in 1 .. Len(s) : s[k] = s[l] => k = l
        BY <1>1, <1>4 DEF IsInjective
    <2>3. \A k \in 1 .. Len(s) + 1 : k = 1 \/ k \in 2 .. Len(s) + 1
        BY <1>1
    <2>4. ASSUME i \in 2 .. Len(s) + 1, j \in 2 .. Len(s) + 1 PROVE i - 1 = j - 1
        BY <1>2, <2>2, <2>4
    <2> QED BY <1>1, <1>2, <2>1, <2>3, <2>4
<1> QED BY <1>1, <1>3, <1>4 DEF t

\* A list has finitely many elements.
LEMMA ToSetFinite ==
    ASSUME NEW A, NEW s \in Seq(A)
    PROVE  IsFiniteSet(ToSet(s)) /\ ToSet(s) \subseteq A
<1>1. IsFiniteSet(DOMAIN s)
    BY FS_Interval
<1>2. s \in Surjection(DOMAIN s, ToSet(s))
    BY DEF Surjection, ToSet
<1> QED BY <1>1, <1>2, FS_Surjection DEF ToSet

-----------------------------------------------------------------------------
(* Counting. *)

LEMMA CountEmpty == ASSUME NEW S PROVE Count(<<>>, S) = 0
BY OnlyEmpty DEF Count

\* A count is a natural number, at most the length.
LEMMA CountType ==
    ASSUME NEW A, NEW S, NEW s \in Seq(A)
    PROVE  Count(s, S) \in Nat /\ Count(s, S) <= Len(s)
<1>1. Only(s, S) \in Seq(A) /\ Len(Only(s, S)) <= Len(s)
    BY OnlyProperties
<1> QED BY <1>1 DEF Count

\* Counts of a list that grows or shrinks.
LEMMA CountAppend ==
    ASSUME NEW A, NEW S, NEW s \in Seq(A), NEW x \in A
    PROVE  Count(Append(s, x), S) = Count(s, S) + (IF x \in S THEN 1 ELSE 0)
<1>1. Only(s, S) \in Seq(A)
    BY OnlyProperties
<1>2. Only(Append(s, x), S) = IF x \in S THEN Append(Only(s, S), x) ELSE Only(s, S)
    BY OnlyAppend
<1>3. Len(Append(Only(s, S), x)) = Len(Only(s, S)) + 1 /\ Len(Only(s, S)) \in Nat
    BY <1>1
<1> QED BY <1>2, <1>3 DEF Count

LEMMA CountConcat ==
    ASSUME NEW A, NEW S, NEW s \in Seq(A), NEW t \in Seq(A)
    PROVE  Count(s \o t, S) = Count(s, S) + Count(t, S)
<1> DEFINE P == {u \in Seq(A) : Count(s \o u, S) = Count(s, S) + Count(u, S)}
<1>1. <<>> \in P
    <2>1. s \o <<>> = s /\ Count(<<>>, S) = 0 /\ Count(s, S) \in Nat
        BY CountEmpty, CountType, ConcatEmptySeq
    <2>2. Count(s \o <<>>, S) = Count(s, S) + Count(<<>>, S)
        BY <2>1
    <2> QED BY <2>2, EmptySeq
<1>2. ASSUME NEW u \in Seq(A), NEW x \in A, u \in P PROVE Append(u, x) \in P
    <2>1. Append(u, x) \in Seq(A) /\ s \o u \in Seq(A) /\ s \o Append(u, x) = Append(s \o u, x)
        OBVIOUS
    <2>2. /\ Count(s, S) \in Nat /\ Count(u, S) \in Nat
          /\ Count(s \o u, S) = Count(s, S) + Count(u, S)
        BY <1>2, CountType
    <2>3. Count(Append(u, x), S) = Count(u, S) + (IF x \in S THEN 1 ELSE 0)
        BY CountAppend
    <2> DEFINE w == s \o u
    <2>4. Count(Append(w, x), S) = Count(w, S) + (IF x \in S THEN 1 ELSE 0)
        <3>1. w \in Seq(A)
            BY <2>1
        <3> HIDE DEF w
        <3> QED BY <3>1, CountAppend
    <2>5. s \o Append(u, x) = Append(w, x) /\ Count(w, S) = Count(s, S) + Count(u, S)
        BY <2>1, <2>2
    <2> HIDE DEF w
    <2>6. Count(s \o Append(u, x), S) = Count(w, S) + (IF x \in S THEN 1 ELSE 0)
        BY <2>4, <2>5, Zenon
    <2>7. Count(s \o Append(u, x), S) = Count(s, S) + Count(Append(u, x), S)
        BY <2>2, <2>3, <2>5, <2>6
    <2> QED BY <2>1, <2>7
<1>3. t \in P
    <2> HIDE DEF P
    <2> QED BY <1>1, <1>2, AppendInduction
<1> QED BY <1>3

LEMMA CountOne ==
    ASSUME NEW S, NEW x PROVE Count(<<x>>, S) = IF x \in S THEN 1 ELSE 0
<1>1. <<>> \in Seq({x}) /\ Append(<<>>, x) = <<x>>
    BY EmptySeq
<1>2. Count(Append(<<>>, x), S) = Count(<<>>, S) + (IF x \in S THEN 1 ELSE 0)
    BY <1>1, CountAppend
<1> QED BY <1>1, <1>2, CountEmpty

LEMMA CountTail ==
    ASSUME NEW A, NEW S, NEW s \in Seq(A), s # <<>>
    PROVE  Count(s, S) = Count(Tail(s), S) + (IF Head(s) \in S THEN 1 ELSE 0)
<1> DEFINE h == <<Head(s)>>
           t == Tail(s)
<1>1. t \in Seq(A) /\ h \in Seq(A) /\ s = h \o t
    OBVIOUS
<1>2. Count(h, S) = IF Head(s) \in S THEN 1 ELSE 0
    BY CountOne
<1> HIDE DEF h, t
<1>3. Count(h \o t, S) = Count(h, S) + Count(t, S)
    BY <1>1, CountConcat
<1>4. Count(s, S) = Count(h, S) + Count(t, S)
    BY <1>1, <1>3, Zenon
<1>5. Count(t, S) \in Nat
    BY <1>1, CountType
<1>6. Count(s, S) = Count(t, S) + (IF Head(s) \in S THEN 1 ELSE 0)
    BY <1>2, <1>4, <1>5
<1> QED BY <1>6 DEF t

LEMMA CountRemoveAt ==
    ASSUME NEW A, NEW S, NEW s \in Seq(A), NEW i \in DOMAIN s
    PROVE  /\ RemoveAt(s, i) \in Seq(A)
           /\ Count(s, S) = Count(RemoveAt(s, i), S) + (IF s[i] \in S THEN 1 ELSE 0)
<1> DEFINE l == SubSeq(s, 1, i - 1)
           r == SubSeq(s, i + 1, Len(s))
<1>1. i \in 1 .. Len(s) /\ Len(s) \in Nat /\ s[i] \in A
    OBVIOUS
<1>2. l \in Seq(A) /\ r \in Seq(A) /\ <<s[i]>> \in Seq(A)
    BY <1>1
<1>3. Len(l) = i - 1 /\ Len(r) = Len(s) - i
    BY <1>1
<1> DEFINE m == Append(l, s[i])
<1>4. m \in Seq(A) /\ Len(m) = i /\ m[i] = s[i] /\ \A j \in 1 .. i - 1 : m[j] = s[j]
    BY <1>1, <1>2, <1>3
<1>5. \A j \in 1 .. Len(r) : r[j] = s[i + j]
    BY <1>1, <1>3
<1> HIDE DEF l, r, m
<1>6. s = m \o r
    <2> DEFINE w == m \o r
    <2>1. w \in Seq(A) /\ Len(w) = Len(s)
        BY <1>1, <1>2, <1>3, <1>4
    <2>2. \A j \in 1 .. Len(s) : w[j] = IF j <= i THEN m[j] ELSE r[j - i]
        BY <1>1, <1>2, <1>3, <1>4
    <2> HIDE DEF w
    <2>3. ASSUME NEW j \in 1 .. Len(s) PROVE s[j] = w[j]
        <3>1. CASE j <= i
            BY <1>1, <1>4, <2>2, <3>1
        <3>2. CASE ~(j <= i)
            <4>1. j - i \in 1 .. Len(r) /\ i + (j - i) = j
                BY <1>1, <1>3, <3>2
            <4>2. r[j - i] = s[j]
                BY <1>5, <4>1
            <4> QED BY <2>2, <3>2, <4>2
        <3> QED BY <3>1, <3>2
    <2>4. s = w
        BY <2>1, <2>3, SeqEqual
    <2> QED BY <2>4 DEF w
<1>7. Count(m \o r, S) = Count(m, S) + Count(r, S)
    BY <1>2, <1>4, CountConcat
<1>8. Count(m, S) = Count(l, S) + (IF s[i] \in S THEN 1 ELSE 0)
    BY <1>1, <1>2, CountAppend DEF m
<1>9. Count(l \o r, S) = Count(l, S) + Count(r, S) /\ l \o r \in Seq(A)
    BY <1>2, CountConcat
<1>10. Count(l, S) \in Nat /\ Count(r, S) \in Nat
    BY <1>2, CountType
<1>11. RemoveAt(s, i) = l \o r
    BY DEF RemoveAt, l, r
<1>12. Count(s, S) = Count(m, S) + Count(r, S)
    BY <1>6, <1>7, Zenon
<1>13. Count(RemoveAt(s, i), S) = Count(l, S) + Count(r, S) /\ RemoveAt(s, i) \in Seq(A)
    BY <1>9, <1>11, Zenon
<1> QED BY <1>8, <1>10, <1>12, <1>13

\* A list with nothing but elements of S, and one with none.
LEMMA CountAll ==
    ASSUME NEW A, NEW S, A \subseteq S, NEW s \in Seq(A) PROVE Count(s, S) = Len(s)
<1> DEFINE P == {u \in Seq(A) : Count(u, S) = Len(u)}
<1>1. <<>> \in P
    BY CountEmpty, EmptySeq
<1>2. ASSUME NEW u \in Seq(A), NEW x \in A, u \in P PROVE Append(u, x) \in P
    <2>1. Count(Append(u, x), S) = Count(u, S) + 1
        BY CountAppend
    <2>2. Len(Append(u, x)) = Len(u) + 1 /\ Append(u, x) \in Seq(A)
        OBVIOUS
    <2> QED BY <1>2, <2>1, <2>2
<1>3. s \in P
    <2> HIDE DEF P
    <2> QED BY <1>1, <1>2, AppendInduction
<1> QED BY <1>3

LEMMA CountNone ==
    ASSUME NEW A, NEW S, A \cap S = {}, NEW s \in Seq(A) PROVE Count(s, S) = 0
<1> DEFINE P == {u \in Seq(A) : Count(u, S) = 0}
<1>1. <<>> \in P
    BY CountEmpty, EmptySeq
<1>2. ASSUME NEW u \in Seq(A), NEW x \in A, u \in P PROVE Append(u, x) \in P
    <2>1. Count(Append(u, x), S) = Count(u, S) + 0
        BY CountAppend
    <2> QED BY <1>2, <2>1
<1>3. s \in P
    <2> HIDE DEF P
    <2> QED BY <1>1, <1>2, AppendInduction
<1> QED BY <1>3

\* Counting more kinds counts more.
LEMMA CountMore ==
    ASSUME NEW A, NEW S, NEW T, S \subseteq T, NEW s \in Seq(A)
    PROVE  Count(s, S) <= Count(s, T)
<1> DEFINE P == {u \in Seq(A) : Count(u, S) <= Count(u, T)}
<1>1. <<>> \in P
    BY CountEmpty, EmptySeq
<1>2. ASSUME NEW u \in Seq(A), NEW x \in A, u \in P PROVE Append(u, x) \in P
    <2>1. /\ Count(Append(u, x), S) = Count(u, S) + (IF x \in S THEN 1 ELSE 0)
          /\ Count(Append(u, x), T) = Count(u, T) + (IF x \in T THEN 1 ELSE 0)
        BY CountAppend
    <2>2. Count(u, S) \in Nat /\ Count(u, T) \in Nat
        BY CountType
    <2> QED BY <1>2, <2>1, <2>2
<1>3. s \in P
    <2> HIDE DEF P
    <2> QED BY <1>1, <1>2, AppendInduction
<1> QED BY <1>3

\* An element that is there is counted.
LEMMA CountPositive ==
    ASSUME NEW A, NEW S, NEW s \in Seq(A), NEW i \in DOMAIN s, s[i] \in S
    PROVE  Count(s, S) >= 1
<1>1. Count(s, S) = Count(RemoveAt(s, i), S) + 1 /\ RemoveAt(s, i) \in Seq(A)
    BY CountRemoveAt
<1>2. Count(RemoveAt(s, i), S) \in Nat
    BY <1>1, CountType
<1> QED BY <1>1, <1>2

\* The same when the last element takes the place of another.
LEMMA SwapOut ==
    ASSUME NEW A, NEW s \in Seq(A), IsInjective(s), NEW n \in DOMAIN s
    PROVE  LET u == Front([s EXCEPT ![n] = Last(s)])
           IN  u \in Seq(A) /\ IsInjective(u) /\ ToSet(u) = ToSet(s) \ {s[n]}
<1> DEFINE N == Len(s)
           w == [s EXCEPT ![n] = Last(s)]
           u == Front(w)
<1>1. /\ N \in Nat /\ n \in 1..N /\ DOMAIN s = 1..N /\ Last(s) = s[N] /\ N \in 1..N
      /\ \A k \in 1..N : s[k] \in A
    BY DEF Last
<1>2. /\ w \in Seq(A) /\ Len(w) = N /\ DOMAIN w = 1..N
      /\ \A k \in 1..N : w[k] = IF k = n THEN s[N] ELSE s[k]
    BY <1>1
<1> HIDE DEF w
<1>3. u \in Seq(A) /\ DOMAIN u = 1..(N - 1) /\ \A k \in 1..(N - 1) : u[k] = w[k]
    BY <1>1, <1>2 DEF Front
<1> HIDE DEF u, N
<1>4. \A k \in 1..(N - 1) : k \in 1..N /\ k # N
    BY <1>1
<1>5. \A k \in 1..(N - 1) : u[k] = IF k = n THEN s[N] ELSE s[k]
    BY <1>2, <1>3, <1>4
<1>6. \A j, k \in 1..N : s[j] = s[k] => j = k
    BY <1>1 DEF IsInjective
<1>7. IsInjective(u)
    BY <1>1, <1>3, <1>4, <1>5, <1>6 DEF IsInjective
<1>8. ToSet(u) = {u[k] : k \in 1..(N - 1)} /\ ToSet(s) = {s[k] : k \in 1..N}
    BY <1>1, <1>3 DEF ToSet
<1>9. ToSet(u) \subseteq ToSet(s) \ {s[n]}
    BY <1>1, <1>4, <1>5, <1>6, <1>8
<1>10. ASSUME NEW k \in 1..N, k # n PROVE s[k] \in ToSet(u)
    <2>1. CASE k = N
        <3>1. n \in 1..(N - 1)
            BY <1>1, <1>10, <2>1
        <3> QED BY <1>5, <1>8, <2>1, <3>1
    <2>2. CASE k # N
        <3>1. k \in 1..(N - 1)
            BY <1>1, <2>2
        <3> QED BY <1>5, <1>8, <1>10, <3>1
    <2> QED BY <2>1, <2>2
<1>11. ToSet(s) \ {s[n]} \subseteq ToSet(u)
    BY <1>8, <1>10
<1> QED BY <1>3, <1>7, <1>9, <1>11 DEF u, w

\* The largest of finitely many numbers.
LEMMA LargestNat ==
    ASSUME NEW T \in SUBSET Nat, IsFiniteSet(T), T # {}
    PROVE  Max(T) \in T /\ \A n \in T : n <= Max(T)
<1> DEFINE N == {n \in Nat : \A S \in SUBSET Nat : IsFiniteSet(S) /\ Cardinality(S) = n /\ S # {}
                    => \E m \in S : \A k \in S : k <= m}
<1>1. 0 \in N
    BY FS_EmptySet
<1>2. ASSUME NEW n \in Nat, n \in N PROVE n + 1 \in N
    <2> SUFFICES ASSUME NEW S \in SUBSET Nat, IsFiniteSet(S), Cardinality(S) = n + 1, S # {}
                 PROVE  \E m \in S : \A k \in S : k <= m
        OBVIOUS
    <2>1. PICK x \in S : TRUE
        OBVIOUS
    <2>2. IsFiniteSet(S \ {x}) /\ Cardinality(S \ {x}) = n
        <3>1. IsFiniteSet(S \ {x}) /\ Cardinality(S \ {x}) = Cardinality(S) - 1
            BY FS_RemoveElement
        <3>2. Cardinality(S) = n + 1
            OBVIOUS
        <3> QED BY <3>1, <3>2
    <2>3. CASE S \ {x} = {}
        BY <2>1, <2>3
    <2>4. CASE S \ {x} # {}
        <3>1. PICK m \in S \ {x} : \A k \in S \ {x} : k <= m
            BY <1>2, <2>2, <2>4
        <3>2. m \in Nat /\ x \in Nat
            OBVIOUS
        <3>3. CASE x <= m
            BY <3>1, <3>3
        <3>4. CASE m <= x
            <4>1. \A k \in S : k <= x
                BY <3>1, <3>2, <3>4
            <4> QED BY <4>1
        <3> QED BY <3>2, <3>3, <3>4
    <2> QED BY <2>3, <2>4
<1> HIDE DEF N
<1>3. Nat \subseteq N
    BY <1>1, <1>2, NatSetInduction
<1>4. Cardinality(T) \in Nat
    BY FS_CardinalityType
<1>5. \E m \in T : \A k \in T : k <= m
    BY <1>3, <1>4 DEF N
<1>6. \E m \in T : \A k \in T : m >= k
    BY <1>5
<1> QED BY <1>6 DEF Max

\* The smallest of any.
LEMMA SmallestNat ==
    ASSUME NEW T \in SUBSET Nat, T # {}
    PROVE  Min(T) \in T /\ \A n \in T : Min(T) <= n
<1>1. \E n \in T : \A m \in T : n <= m
    BY LeastNat
<1> QED BY <1>1 DEF Min

LEMMA MaxOfTwo ==
    ASSUME NEW a \in Nat, NEW b \in Nat
    PROVE  Max({a, b}) = IF a <= b THEN b ELSE a
<1>1. IsFiniteSet({a, b}) /\ {a, b} \in SUBSET Nat /\ {a, b} # {}
    <2>1. IsFiniteSet({a}) /\ {a, b} = {a} \cup {b}
        BY FS_Singleton
    <2> QED BY <2>1, FS_AddElement
<1>2. Max({a, b}) \in {a, b} /\ \A n \in {a, b} : n <= Max({a, b})
    BY <1>1, LargestNat
<1> QED BY <1>2

\* A list is empty iff nothing is in it.
LEMMA NotEmpty ==
    ASSUME NEW A, NEW s \in Seq(A)
    PROVE  s = <<>> <=> ToSet(s) = {}
<1>1. s # <<>> => Len(s) \in Nat \ {0}
    BY EmptySeq
<1>2. s # <<>> => s[1] \in ToSet(s)
    BY <1>1 DEF ToSet
<1> QED BY <1>2 DEF ToSet
==============================================================================
