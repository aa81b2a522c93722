----------------------------- MODULE MoneyProofs -----------------------------
(***************************************************************************)
(* Market and HouseAuction for any numbers of merchants, offers, citizens, *)
(* houses, kills and amounts.  Market: types, that a kill gives nobody     *)
(* back what an earlier request has taken, and that gold and goods are     *)
(* neither made nor lost.  HouseAuction: what a house says of its bidder,  *)
(* buyer and payments is what its state means, and the gold of the         *)
(* auctions adds up.                                                       *)
(***************************************************************************)
EXTENDS Market, HouseAuction, ListsProofs, TLAPS

(* Sums.  Total takes the elements in an order of its own; that the order  *)
(* does not matter, and that a sum changes by as much as one of its terms, *)
(* is shown by induction over finite sets.                                 *)

\* What holds of {} and of each set from which taking any element leaves a set of
\* which it holds, holds of all subsets of a finite set.
LEMMA SubsetInduction ==
    ASSUME NEW U, IsFiniteSet(U), NEW P, {} \in P,
           \A T \in SUBSET U : T # {} /\ (\A x \in T : T \ {x} \in P) => T \in P
    PROVE  SUBSET U \subseteq P
<1> DEFINE N == {n \in Nat : \A T \in SUBSET U : Cardinality(T) = n => T \in P}
<1>1. \A T \in SUBSET U : IsFiniteSet(T) /\ Cardinality(T) \in Nat
  BY FS_Subset, FS_CardinalityType
<1>2. 0 \in N
  BY <1>1, FS_EmptySet
<1>3. ASSUME NEW n \in Nat, n \in N PROVE n + 1 \in N
  <2> SUFFICES ASSUME NEW T \in SUBSET U, Cardinality(T) = n + 1 PROVE T \in P
    OBVIOUS
  <2>1. T # {}
    BY FS_EmptySet
  <2>2. ASSUME NEW x \in T PROVE T \ {x} \in P
    <3>1. Cardinality(T \ {x}) = n
      BY <1>1, FS_RemoveElement
    <3> QED BY <1>3, <3>1
  <2> QED BY <2>1, <2>2
<1>4. Nat \subseteq N
  <2> HIDE DEF N
  <2> QED BY <1>2, <1>3, NatSetInduction
<1> QED BY <1>1, <1>4

OneOf(T) == CHOOSE x \in T : TRUE
Adding(f, S, g) ==
    g = [T \in SUBSET S |-> IF T = {} THEN 0 ELSE f[OneOf(T)] + g[T \ {OneOf(T)}]]

LEMMA AddingAll ==
    ASSUME NEW f, NEW S, NEW g, Adding(f, S, g)
    PROVE  /\ g[{}] = 0
           /\ \A T \in SUBSET S :
                 T # {} => OneOf(T) \in T /\ g[T] = f[OneOf(T)] + g[T \ {OneOf(T)}]
<1>1. \A R \in SUBSET S : g[R] = IF R = {} THEN 0 ELSE f[OneOf(R)] + g[R \ {OneOf(R)}]
  BY DEF Adding
<1>2. {} \in SUBSET S
  OBVIOUS
<1>3. g[{}] = 0
  BY <1>1, <1>2
<1>4. ASSUME NEW T \in SUBSET S, T # {}
      PROVE  OneOf(T) \in T /\ g[T] = f[OneOf(T)] + g[T \ {OneOf(T)}]
  <2>1. OneOf(T) \in T
    BY <1>4 DEF OneOf
  <2> QED BY <1>1, <1>4, <2>1
<1> QED BY <1>3, <1>4

LEMMA AddingOf ==
    ASSUME NEW f, NEW S, NEW g, Adding(f, S, g), NEW T \in SUBSET S
    PROVE  /\ g[{}] = 0
           /\ T # {} => OneOf(T) \in T /\ g[T] = f[OneOf(T)] + g[T \ {OneOf(T)}]
<1>1. /\ g[{}] = 0
      /\ \A R \in SUBSET S :
            R # {} => OneOf(R) \in R /\ g[R] = f[OneOf(R)] + g[R \ {OneOf(R)}]
  BY ONLY Adding(f, S, g), AddingAll
<1> QED BY <1>1

LEMMA AddingOnce ==
    ASSUME NEW f, NEW S, IsFiniteSet(S), NEW g, Adding(f, S, g),
           NEW T \in SUBSET S, NEW h, Adding(f, T, h)
    PROVE  \A R \in SUBSET T : g[R] = h[R]
<1> DEFINE P == {R \in SUBSET T : g[R] = h[R]}
<1>1. {} \in P
  <2>1. g[{}] = 0 /\ h[{}] = 0
    BY AddingOf
  <2> QED BY <2>1
<1>2. ASSUME NEW R \in SUBSET T, R # {}, \A x \in R : R \ {x} \in P PROVE R \in P
  <2>1. OneOf(R) \in R /\ g[R] = f[OneOf(R)] + g[R \ {OneOf(R)}]
        /\ h[R] = f[OneOf(R)] + h[R \ {OneOf(R)}]
    BY <1>2, AddingOf
  <2> QED BY <1>2, <2>1
<1>3. IsFiniteSet(T)
  BY FS_Subset
<1>4. SUBSET T \subseteq P
  <2> HIDE DEF P
  <2> QED BY <1>1, <1>2, <1>3, SubsetInduction
<1> QED BY <1>4

LEMMA AddingLess ==
    ASSUME NEW f, NEW S, NEW g, Adding(f, S, g), NEW T \in SUBSET S
    PROVE  Adding(f, T, [R \in SUBSET T |-> g[R]])
<1> DEFINE h == [R \in SUBSET T |-> g[R]]
<1>1. \A R \in SUBSET T : h[R] = IF R = {} THEN 0 ELSE f[OneOf(R)] + h[R \ {OneOf(R)}]
  <2> TAKE R \in SUBSET T
  <2>1. h[R] = g[R] /\ R \in SUBSET S /\ h[R \ {OneOf(R)}] = g[R \ {OneOf(R)}]
    OBVIOUS
  <2>2. g[{}] = 0 /\ (R # {} => g[R] = f[OneOf(R)] + g[R \ {OneOf(R)}])
    <3>1. R \in SUBSET S
      OBVIOUS
    <3> HIDE DEF h
    <3> QED BY <3>1, AddingOf
  <2> HIDE DEF h
  <2> QED BY <2>1, <2>2
<1> HIDE DEF h
<1>2. h = [R \in SUBSET T |-> h[R]]
  BY DEF h
<1>3. Adding(f, T, h)
  BY <1>1, <1>2 DEF Adding
<1> QED BY <1>3 DEF h

LEMMA TotalIs ==
    ASSUME NEW f, NEW S, IsFiniteSet(S), NEW g, Adding(f, S, g), NEW T \in SUBSET S
    PROVE  Total(f, T) = g[T]
<1> DEFINE h == CHOOSE h : Adding(f, T, h)
<1>1. Adding(f, T, h)
  BY AddingLess
<1>2. Total(f, T) = h[T]
  BY DEF Total, Adding, OneOf
<1> HIDE DEF h
<1> QED BY <1>1, <1>2, AddingOnce

LEMMA AddingExists ==
    ASSUME NEW f, NEW S, IsFiniteSet(S)
    PROVE  \E g : Adding(f, S, g)
<1> DEFINE P == {T \in SUBSET S : \E g : Adding(f, T, g)}
<1>1. {} \in P
  <2> DEFINE g == [T \in SUBSET {} |-> 0]
  <2>1. Adding(f, {}, g)
    BY DEF Adding
  <2> QED BY <2>1
<1>2. ASSUME NEW T \in SUBSET S, T # {}, \A x \in T : T \ {x} \in P PROVE T \in P
  <2> DEFINE a == OneOf(T)
             g == [R \in SUBSET T |-> IF R = T THEN f[a] + Total(f, T \ {a}) ELSE Total(f, R)]
  <2>1. a \in T
    BY <1>2 DEF OneOf
  <2>2. ASSUME NEW R \in SUBSET T, R # T
        PROVE  Total(f, R) = IF R = {} THEN 0 ELSE f[OneOf(R)] + Total(f, R \ {OneOf(R)})
    <3>1. PICK x \in T : x \notin R
      BY <2>2
    <3> DEFINE rest == T \ {x}
    <3>2. PICK h : Adding(f, rest, h)
      BY <1>2
    <3>3. IsFiniteSet(rest) /\ R \in SUBSET rest /\ R \ {OneOf(R)} \in SUBSET rest
      BY <3>1, FS_Subset
    <3> HIDE DEF rest, a, g
    <3>4. Total(f, R) = h[R] /\ Total(f, R \ {OneOf(R)}) = h[R \ {OneOf(R)}]
      BY <3>2, <3>3, TotalIs
    <3>5. R \in SUBSET rest /\ Adding(f, rest, h)
      BY <3>2, <3>3
    <3>6. h[{}] = 0 /\ \A Q \in SUBSET rest :
             Q # {} => OneOf(Q) \in Q /\ h[Q] = f[OneOf(Q)] + h[Q \ {OneOf(Q)}]
      BY ONLY <3>5, AddingAll
    <3>7. CASE R = {}
      BY ONLY <3>4, <3>6, <3>7
    <3>8. CASE R # {}
      <4>1. h[R] = f[OneOf(R)] + h[R \ {OneOf(R)}]
        BY ONLY <3>5, <3>6, <3>8
      <4>2. Total(f, R) = f[OneOf(R)] + Total(f, R \ {OneOf(R)})
        BY ONLY <3>4, <4>1
      <4> QED BY ONLY <3>8, <4>2
    <3> QED BY ONLY <3>7, <3>8
  <2> HIDE DEF a
  <2>3. \A R \in SUBSET T : g[R] = IF R = {} THEN 0 ELSE f[OneOf(R)] + g[R \ {OneOf(R)}]
    <3> TAKE R \in SUBSET T
    <3>1. CASE R = T
      <4>1. OneOf(R) = a /\ T \ {a} # T /\ T \ {a} \in SUBSET T
        BY <2>1, <3>1 DEF a
      <4> QED BY <1>2, <3>1, <4>1
    <3>2. CASE R # T
      <4>1. R \ {OneOf(R)} \in SUBSET T /\ R \ {OneOf(R)} # T
        BY <3>2
      <4>2. g[R] = Total(f, R) /\ g[R \ {OneOf(R)}] = Total(f, R \ {OneOf(R)})
        BY <3>2, <4>1
      <4> HIDE DEF g
      <4> QED BY <2>2, <3>2, <4>2
    <3> QED BY <3>1, <3>2
  <2>4. g = [R \in SUBSET T |-> g[R]]
    OBVIOUS
  <2> HIDE DEF g
  <2>5. Adding(f, T, g)
    BY <2>3, <2>4 DEF Adding
  <2> QED BY <2>5
<1>3. S \in P
  <2> HIDE DEF P
  <2> QED BY <1>1, <1>2, SubsetInduction
<1> QED BY <1>3

LEMMA TotalStep ==
    ASSUME NEW f, NEW S, IsFiniteSet(S)
    PROVE  /\ Total(f, {}) = 0
           /\ S # {} => OneOf(S) \in S /\ Total(f, S) = f[OneOf(S)] + Total(f, S \ {OneOf(S)})
<1>1. PICK g : Adding(f, S, g)
  BY AddingExists
<1>2. \A T \in SUBSET S : Total(f, T) = g[T]
  BY <1>1, TotalIs
<1>3. g[{}] = 0 /\ \A Q \in SUBSET S :
         Q # {} => OneOf(Q) \in Q /\ g[Q] = f[OneOf(Q)] + g[Q \ {OneOf(Q)}]
  BY ONLY <1>1, AddingAll
<1>4. {} \in SUBSET S /\ S \in SUBSET S /\ S \ {OneOf(S)} \in SUBSET S
  OBVIOUS
<1>5. Total(f, {}) = g[{}] /\ Total(f, S) = g[S] /\ Total(f, S \ {OneOf(S)}) = g[S \ {OneOf(S)}]
  BY ONLY <1>2, <1>4
<1>6. Total(f, {}) = 0
  BY ONLY <1>3, <1>5
<1>7. ASSUME S # {}
      PROVE  OneOf(S) \in S /\ Total(f, S) = f[OneOf(S)] + Total(f, S \ {OneOf(S)})
  <2>1. OneOf(S) \in S /\ g[S] = f[OneOf(S)] + g[S \ {OneOf(S)}]
    BY ONLY <1>3, <1>4, <1>7
  <2> QED BY ONLY <1>5, <2>1
<1> QED BY ONLY <1>6, <1>7

LEMMA TotalType ==
    ASSUME NEW f, NEW S, IsFiniteSet(S), \A x \in S : f[x] \in Int
    PROVE  Total(f, S) \in Int
<1> DEFINE P == {T \in SUBSET S : Total(f, T) \in Int}
<1>1. {} \in P
  <2>1. Total(f, {}) = 0
    BY TotalStep
  <2> QED BY <2>1
<1>2. ASSUME NEW T \in SUBSET S, T # {}, \A x \in T : T \ {x} \in P PROVE T \in P
  <2>1. OneOf(T) \in T /\ Total(f, T) = f[OneOf(T)] + Total(f, T \ {OneOf(T)})
    BY <1>2, TotalStep, FS_Subset
  <2> QED BY <1>2, <2>1
<1>3. S \in P
  <2> HIDE DEF P
  <2> QED BY <1>1, <1>2, SubsetInduction
<1> QED BY <1>3

\* Any element may be added last.
LEMMA TotalSplit ==
    ASSUME NEW f, NEW S, IsFiniteSet(S), \A x \in S : f[x] \in Int, NEW y \in S
    PROVE  Total(f, S) = f[y] + Total(f, S \ {y})
<1> DEFINE P == {T \in SUBSET S : \A x \in T : Total(f, T) = f[x] + Total(f, T \ {x})}
<1>1. {} \in P
  OBVIOUS
<1>2. ASSUME NEW T \in SUBSET S, T # {}, \A x \in T : T \ {x} \in P PROVE T \in P
  <2> SUFFICES ASSUME NEW x \in T PROVE Total(f, T) = f[x] + Total(f, T \ {x})
    OBVIOUS
  <2> DEFINE a == OneOf(T)
  <2>1. a \in T /\ Total(f, T) = f[a] + Total(f, T \ {a})
    BY <1>2, TotalStep, FS_Subset
  <2> HIDE DEF a
  <2>2. CASE x = a
    BY <2>1, <2>2
  <2>3. CASE x # a
    <3> DEFINE rest == (T \ {a}) \ {x}
    <3>1. Total(f, T \ {a}) = f[x] + Total(f, rest)
      <4>1. T \ {a} \in P /\ x \in T \ {a}
        BY <1>2, <2>1, <2>3
      <4> QED BY <4>1
    <3>2. Total(f, T \ {x}) = f[a] + Total(f, (T \ {x}) \ {a})
      <4>1. T \ {x} \in P /\ a \in T \ {x}
        BY <1>2, <2>1, <2>3
      <4> QED BY <4>1
    <3>3. (T \ {x}) \ {a} = rest
      OBVIOUS
    <3>4. IsFiniteSet(rest) /\ \A z \in rest : f[z] \in Int
      BY FS_Subset
    <3> HIDE DEF rest, P
    <3>5. Total(f, rest) \in Int /\ f[a] \in Int /\ f[x] \in Int
      BY <2>1, <3>4, TotalType
    <3>6. Total(f, T \ {x}) = f[a] + Total(f, rest)
      BY <3>2, <3>3
    <3> QED BY <2>1, <3>1, <3>5, <3>6
  <2> QED BY <2>2, <2>3
<1>3. S \in P
  <2> HIDE DEF P
  <2> QED BY <1>1, <1>2, SubsetInduction
<1> QED BY <1>3

LEMMA TotalSame ==
    ASSUME NEW f, NEW g, NEW S, IsFiniteSet(S), \A x \in S : f[x] = g[x]
    PROVE  Total(f, S) = Total(g, S)
<1> DEFINE P == {T \in SUBSET S : Total(f, T) = Total(g, T)}
<1>1. {} \in P
  BY TotalStep
<1>2. ASSUME NEW T \in SUBSET S, T # {}, \A x \in T : T \ {x} \in P PROVE T \in P
  <2>1. /\ OneOf(T) \in T
        /\ Total(f, T) = f[OneOf(T)] + Total(f, T \ {OneOf(T)})
        /\ Total(g, T) = g[OneOf(T)] + Total(g, T \ {OneOf(T)})
    BY <1>2, TotalStep, FS_Subset
  <2> QED BY <1>2, <2>1
<1>3. S \in P
  <2> HIDE DEF P
  <2> QED BY <1>1, <1>2, SubsetInduction
<1> QED BY <1>3

\* One term changes.
LEMMA TotalChanged ==
    ASSUME NEW S, IsFiniteSet(S), NEW f, NEW g, NEW y \in S,
           \A x \in S : f[x] \in Int /\ g[x] \in Int,
           \A x \in S \ {y} : f[x] = g[x]
    PROVE  Total(g, S) = Total(f, S) + (g[y] - f[y])
<1>1. Total(f, S) = f[y] + Total(f, S \ {y}) /\ Total(g, S) = g[y] + Total(g, S \ {y})
  BY TotalSplit
<1>2. IsFiniteSet(S \ {y})
  BY FS_Subset
<1>3. Total(f, S \ {y}) = Total(g, S \ {y}) /\ Total(f, S \ {y}) \in Int
  BY <1>2, TotalSame, TotalType
<1> QED BY <1>1, <1>3

\* A term comes, or goes.
LEMMA TotalAdded ==
    ASSUME NEW S, IsFiniteSet(S), NEW y, y \notin S, NEW f, NEW g,
           g[y] \in Int, \A x \in S : f[x] \in Int /\ g[x] = f[x]
    PROVE  Total(g, S \cup {y}) = Total(f, S) + g[y]
<1> DEFINE T == S \cup {y}
<1>1. IsFiniteSet(T)
  BY FS_AddElement
<1>2. y \in T /\ T \ {y} = S /\ \A x \in T : g[x] \in Int
  OBVIOUS
<1> HIDE DEF T
<1>3. Total(g, T) = g[y] + Total(g, T \ {y})
  BY <1>1, <1>2, TotalSplit
<1>4. Total(g, S) = Total(f, S) /\ Total(f, S) \in Int /\ g[y] \in Int
  BY TotalSame, TotalType
<1>5. Total(g, T \ {y}) = Total(g, S)
  BY <1>2
<1>6. Total(g, T) = Total(f, S) + g[y]
  BY <1>3, <1>4, <1>5
<1> QED BY <1>6 DEF T

LEMMA TotalGone ==
    ASSUME NEW S, IsFiniteSet(S), NEW y \in S, NEW f, NEW g,
           \A x \in S : f[x] \in Int, \A x \in S \ {y} : g[x] = f[x]
    PROVE  Total(g, S \ {y}) = Total(f, S) - f[y]
<1>1. Total(f, S) = f[y] + Total(f, S \ {y})
  BY TotalSplit
<1>2. IsFiniteSet(S \ {y})
  BY FS_Subset
<1>3. Total(g, S \ {y}) = Total(f, S \ {y}) /\ Total(f, S \ {y}) \in Int
  BY <1>2, TotalSame, TotalType
<1> QED BY <1>1, <1>3

-----------------------------------------------------------------------------
(* Market.                                                                 *)

LEMMA Numbers ==
    /\ Price \in Nat \ {0} /\ Amounts \subseteq Nat \ {0} /\ MaxOffers \in Nat
    /\ Capital \in Purse /\ LimitedInbox \in BOOLEAN
BY MarketAssumption DEF MarketAssumption, Purse

LEMMA FeesType == ASSUME NEW total \in Nat PROVE \A fee \in fees(total) : fee \in Nat
<1>1. total * 2 \in Nat /\ (total * 2) \div 100 \in Nat
  OBVIOUS
<1> QED BY <1>1 DEF fees

LEMMA PlusType ==
    ASSUME NEW had \in Purse, NEW gold \in Int, NEW goods \in Int,
           had.gold + gold >= 0, had.goods + goods >= 0
    PROVE  /\ Plus(had, gold, goods) \in Purse
           /\ Plus(had, gold, goods).gold = had.gold + gold
           /\ Plus(had, gold, goods).goods = had.goods + goods
<1>1. /\ had.gold \in Nat /\ had.goods \in Nat
  BY DEF Purse
<1>2. had.gold + gold \in Nat /\ had.goods + goods \in Nat
  BY <1>1
<1> QED BY <1>2 DEF Plus, Purse

LEMMA PlusMore ==
    ASSUME NEW had \in Purse, had.gold \in Nat, had.goods \in Nat,
           NEW gold \in Nat, NEW goods \in Nat
    PROVE  /\ Plus(had, gold, goods) \in Purse
           /\ Plus(had, gold, goods).gold >= had.gold
           /\ Plus(had, gold, goods).goods >= had.goods
<1>1. had.gold + gold >= 0 /\ had.goods + goods >= 0
  OBVIOUS
<1>2. /\ Plus(had, gold, goods) \in Purse
      /\ Plus(had, gold, goods).gold = had.gold + gold
      /\ Plus(had, gold, goods).goods = had.goods + goods
  BY <1>1, PlusType
<1> QED BY <1>2

\* An offer of the table, and what there is room for.
LEMMA OfferType ==
    ASSUME MarketTypeOK, NEW id \in DOMAIN offers
    PROVE  /\ offers[id].owner \in Merchants /\ offers[id].sale \in BOOLEAN
           /\ offers[id].amount \in Nat \ {0} /\ id \in Nat
           /\ \A k \in Delivered(offers[id].amount) : k \in Nat
BY DEF MarketTypeOK, Offer, Delivered

LEMMA PurseType ==
    ASSUME MarketTypeOK, NEW p \in Merchants
    PROVE  /\ live[p] \in Purse /\ live[p].gold \in Nat /\ live[p].goods \in Nat
           /\ saved[p] \in Purse /\ saved[p].gold \in Nat /\ saved[p].goods \in Nat
BY DEF MarketTypeOK, Purse

LEMMA SavedType ==
    ASSUME MarketTypeOK, NEW S, live' \in [Merchants -> Purse], saved' = SavedFor(S)
    PROVE  /\ saved' \in [Merchants -> Purse]
           /\ \A p \in Merchants \cap S : saved'[p] = live'[p]
BY DEF SavedFor, MarketTypeOK

\* What becomes of the rows of the table.
RowsOK(table, next) ==
    DOMAIN table \subseteq 1..(next - 1) /\ \A id \in DOMAIN table : table[id] \in Offer

LEMMA RowsStay ==
    ASSUME MarketTypeOK, NEW id \in DOMAIN offers
    PROVE  /\ RowsOK(Others(id), nextOffer)
           /\ \A n \in 1..offers[id].amount : RowsOK(Reduced(id, n), nextOffer)
<1>1. RowsOK(Others(id), nextOffer)
  BY DEF RowsOK, Others, MarketTypeOK
<1>2. ASSUME NEW n \in 1..offers[id].amount, offers[id].amount # n
      PROVE  RowsOK([offers EXCEPT ![id].amount = @ - n], nextOffer)
  <2> DEFINE table == [offers EXCEPT ![id].amount = @ - n]
  <2>1. DOMAIN table = DOMAIN offers
    OBVIOUS
  <2>2. offers[id].amount - n \in Nat \ {0} /\ offers[id] \in Offer
    BY <1>2, OfferType DEF MarketTypeOK
  <2>3. [offers[id] EXCEPT !.amount = offers[id].amount - n] \in Offer
    BY <2>2 DEF Offer
  <2>4. \A j \in DOMAIN offers : table[j] \in Offer
    BY <2>3 DEF MarketTypeOK
  <2> QED BY <2>1, <2>4 DEF RowsOK, MarketTypeOK
<1> QED BY <1>1, <1>2 DEF Reduced

-----------------------------------------------------------------------------
(* What one step does to the players                                        *)

\* What is to come off a row is in it, and its player waits to be saved.
ClaimHolds ==
    claim # NoClaim =>
       /\ unsaved # {} /\ claim.row \in DOMAIN offers
       /\ claim.sale = offers[claim.row].sale /\ claim.amount \in 1..offers[claim.row].amount
MarketInv == MarketTypeOK /\ ClaimHolds /\ NothingTakenBack

Fair ==
    /\ live' \in [Merchants -> Purse] /\ saved' \in [Merchants -> Purse]
    /\ unsaved' \subseteq Merchants /\ missed' \subseteq Merchants
    /\ NothingTakenBack'

AtMost(had, has) == had.gold <= has.gold /\ had.goods <= has.goods

LEMMA TakenBack ==
    /\ NothingTakenBack <=> \A p \in Merchants \ (unsaved \cup missed) : AtMost(saved[p], live[p])
    /\ NothingTakenBack' <=> \A p \in Merchants \ (unsaved' \cup missed') : AtMost(saved'[p], live'[p])
BY DEF NothingTakenBack, AtMost

LEMMA AtMostIs ==
    ASSUME NEW x \in Purse, NEW y \in Purse, NEW z \in Purse, NEW gold \in Nat, NEW goods \in Nat
    PROVE  /\ AtMost(x, x)
           /\ AtMost(x, y) /\ AtMost(y, z) => AtMost(x, z)
           /\ AtMost(x, Plus(x, gold, goods))
           /\ AtMost(x, y) => AtMost(Plus(x, gold, goods), Plus(y, gold, goods))
<1>1. /\ x.gold \in Nat /\ x.goods \in Nat /\ y.gold \in Nat /\ y.goods \in Nat
      /\ z.gold \in Nat /\ z.goods \in Nat
  BY DEF Purse
<1>2. /\ Plus(x, gold, goods).gold = x.gold + gold /\ Plus(x, gold, goods).goods = x.goods + goods
      /\ Plus(y, gold, goods).gold = y.gold + gold /\ Plus(y, gold, goods).goods = y.goods + goods
  BY DEF Plus
<1>3. AtMost(x, x) /\ (AtMost(x, y) /\ AtMost(y, z) => AtMost(x, z))
  BY <1>1 DEF AtMost
<1>4. AtMost(x, Plus(x, gold, goods))
      /\ (AtMost(x, y) => AtMost(Plus(x, gold, goods), Plus(y, gold, goods)))
  BY <1>1, <1>2 DEF AtMost
<1> QED BY <1>3, <1>4

\* Who is not excepted is saved, is as before, has got something, or has got the
\* same in both places.
LEMMA FairWhen ==
    ASSUME MarketInv, live' \in [Merchants -> Purse], saved' \in [Merchants -> Purse],
           unsaved' \subseteq Merchants, missed' \subseteq Merchants,
           \A r \in Merchants \ (unsaved' \cup missed') :
              \/ saved'[r] = live'[r]
              \/ /\ r \notin unsaved \cup missed
                 /\ \/ saved'[r] = saved[r] /\ AtMost(live[r], live'[r])
                    \/ \E gold \in Nat, goods \in Nat :
                          /\ saved'[r] = Plus(saved[r], gold, goods)
                          /\ live'[r] = Plus(live[r], gold, goods)
    PROVE  Fair
<1>1. ASSUME NEW r \in Merchants \ (unsaved' \cup missed') PROVE AtMost(saved'[r], live'[r])
  <2>1. /\ saved'[r] \in Purse /\ live'[r] \in Purse /\ saved[r] \in Purse /\ live[r] \in Purse
    BY DEF MarketInv, MarketTypeOK
  <2>2. CASE saved'[r] = live'[r]
    BY <2>1, <2>2, AtMostIs
  <2>3. CASE r \notin unsaved \cup missed /\ saved'[r] = saved[r] /\ AtMost(live[r], live'[r])
    <3>1. AtMost(saved[r], live[r])
      BY <2>3, TakenBack DEF MarketInv
    <3> QED BY <2>1, <2>3, <3>1, AtMostIs
  <2>4. ASSUME r \notin unsaved \cup missed, NEW gold \in Nat, NEW goods \in Nat,
               saved'[r] = Plus(saved[r], gold, goods), live'[r] = Plus(live[r], gold, goods)
        PROVE  AtMost(saved'[r], live'[r])
    <3>1. AtMost(saved[r], live[r])
      BY <2>4, TakenBack DEF MarketInv
    <3>2. AtMost(Plus(saved[r], gold, goods), Plus(live[r], gold, goods))
      BY <2>1, <3>1, AtMostIs
    <3> QED BY <2>4, <3>2
  <2> QED BY <2>2, <2>3, <2>4
<1> QED BY <1>1, TakenBack DEF Fair

\* Nothing is held against anybody but p, and only p changes.
LEMMA OnlyOne ==
    ASSUME MarketInv, NEW p \in Merchants, unsaved = {}, unsaved' = {p}, missed' = missed,
           live' \in [Merchants -> Purse], saved' = saved,
           \A q \in Merchants \ {p} : live'[q] = live[q]
    PROVE  Fair
<1>1. /\ saved' \in [Merchants -> Purse] /\ missed' \subseteq Merchants
      /\ unsaved' \subseteq Merchants
  BY DEF MarketInv, MarketTypeOK
<1>2. \A r \in Merchants \ (unsaved' \cup missed') :
         r \notin unsaved \cup missed /\ saved'[r] = saved[r] /\ live'[r] = live[r]
  OBVIOUS
<1>3. \A r \in Merchants \ (unsaved' \cup missed') : AtMost(live[r], live'[r])
  BY <1>2, AtMostIs DEF MarketInv, MarketTypeOK
<1> QED BY <1>1, <1>2, <1>3, FairWhen

LEMMA CreateFair ==
    ASSUME MarketInv, NEW p \in Merchants, NEW sale \in BOOLEAN, NEW n \in Amounts,
           NEW fee \in fees(Price * n), Create(p, sale, n, fee)
    PROVE  Fair
<1> DEFINE gold == fee + IF sale THEN 0 ELSE Price * n
           goods == IF sale THEN -n ELSE 0
<1>0. MarketTypeOK
  BY DEF MarketInv
<1>1. n \in Nat /\ Price * n \in Nat
  BY Numbers
<1>2. gold \in Nat /\ goods \in Int /\ -gold \in Int
  BY <1>1, FeesType
<1>3. live[p].gold >= gold /\ live[p].goods + goods >= 0
  BY <1>0, <1>1, PurseType DEF Create
<1>4. live' = [live EXCEPT ![p] = Plus(@, -gold, goods)]
      /\ saved' = saved /\ missed' = missed /\ unsaved = {} /\ unsaved' = {p}
  BY DEF Create, Idle
<1> HIDE DEF gold, goods
<1>5. Plus(live[p], -gold, goods) \in Purse
  <2> DEFINE had == live[p]
             spent == -gold
  <2>1. had \in Purse /\ spent \in Int /\ had.gold + spent >= 0 /\ had.goods + goods >= 0
    BY <1>0, <1>2, <1>3, PurseType
  <2> HIDE DEF had, spent
  <2>2. Plus(had, spent, goods) \in Purse
    BY <1>2, <2>1, PlusType
  <2> QED BY <2>2 DEF had, spent
<1>6. live' \in [Merchants -> Purse] /\ \A q \in Merchants \ {p} : live'[q] = live[q]
  BY <1>0, <1>4, <1>5 DEF MarketTypeOK
<1> QED BY <1>4, <1>6, OnlyOne

LEMMA CancelFair ==
    ASSUME MarketInv, NEW p \in Merchants, NEW id \in DOMAIN offers, Cancel(p, id)
    PROVE  Fair
<1>0. MarketTypeOK
  BY DEF MarketInv
<1>1. PICK k \in Delivered(offers[id].amount) :
         live' = [live EXCEPT ![p] = IF offers[id].sale THEN Plus(@, 0, k)
                                     ELSE Plus(@, Price * offers[id].amount, 0)]
  BY DEF Cancel
<1> DEFINE gold == Price * offers[id].amount
<1>2. k \in Nat /\ gold \in Nat
  BY <1>0, OfferType, Numbers
<1> HIDE DEF gold
<1>3. Plus(live[p], 0, k) \in Purse /\ Plus(live[p], gold, 0) \in Purse
  BY <1>0, <1>2, PurseType, PlusMore
<1>4. live' \in [Merchants -> Purse] /\ \A q \in Merchants \ {p} : live'[q] = live[q]
  BY <1>0, <1>1, <1>3 DEF MarketTypeOK, gold
<1>5. saved' = saved /\ missed' = missed /\ unsaved = {} /\ unsaved' = {p}
  BY DEF Cancel, Idle
<1> QED BY <1>4, <1>5, OnlyOne

LEMMA AcceptFair ==
    ASSUME MarketInv, NEW p \in Merchants, NEW id \in DOMAIN offers,
           NEW n \in 1..offers[id].amount, Accept(p, id, n)
    PROVE  Fair
<1> DEFINE q == offers[id].owner
           gold == Price * n
           loose == {r \in {q} : presence[r] = "offline"}
<1>0. MarketTypeOK
  BY DEF MarketInv
<1>1. q \in Merchants /\ n \in Nat /\ gold \in Nat /\ p # q
  BY <1>0, OfferType, Numbers DEF Accept
<1>2. PICK k \in Delivered(n) :
         /\ live' = IF offers[id].sale
                    THEN [live EXCEPT ![p] = Plus(@, -gold, k), ![q] = Plus(@, gold, 0)]
                    ELSE [live EXCEPT ![p] = Plus(@, gold, -n), ![q] = Plus(@, 0, k)]
         /\ IF k = n THEN unsaved' = {p} /\ missed' = missed
            ELSE missed' = missed \cup {p} /\ unsaved' = unsaved
  BY DEF Accept
<1>3. /\ saved' = SavedFor(loose) /\ unsaved = {} /\ k \in Nat
      /\ IF offers[id].sale THEN live[p].gold >= gold ELSE live[p].goods >= n
  BY <1>1 DEF Accept, Idle, Delivered
<1> HIDE DEF q, gold, loose
<1>4. ASSUME offers[id].sale
      PROVE  live' \in [Merchants -> Purse] /\ AtMost(live[q], live'[q])
             /\ \A r \in Merchants \ {p, q} : live'[r] = live[r]
  <2>1. Plus(live[p], -gold, k) \in Purse
    <3> DEFINE had == live[p]
               spent == -gold
    <3>1. /\ had \in Purse /\ spent \in Int /\ k \in Int
          /\ had.gold + spent >= 0 /\ had.goods + k >= 0
      BY <1>0, <1>1, <1>3, <1>4, PurseType
    <3> HIDE DEF had, spent
    <3>2. Plus(had, spent, k) \in Purse
      BY <3>1, PlusType
    <3> QED BY <3>2 DEF had, spent
  <2>2. Plus(live[q], gold, 0) \in Purse /\ AtMost(live[q], Plus(live[q], gold, 0))
    BY <1>0, <1>1, PurseType, PlusMore, AtMostIs
  <2>3. live' = [live EXCEPT ![p] = Plus(@, -gold, k), ![q] = Plus(@, gold, 0)]
    BY <1>2, <1>4
  <2> QED BY <1>0, <1>1, <2>1, <2>2, <2>3 DEF MarketTypeOK
<1>5. ASSUME ~offers[id].sale
      PROVE  live' \in [Merchants -> Purse] /\ AtMost(live[q], live'[q])
             /\ \A r \in Merchants \ {p, q} : live'[r] = live[r]
  <2>1. Plus(live[p], gold, -n) \in Purse
    <3> DEFINE had == live[p]
               spent == -n
    <3>1. /\ had \in Purse /\ spent \in Int /\ gold \in Int
          /\ had.gold + gold >= 0 /\ had.goods + spent >= 0
      BY <1>0, <1>1, <1>3, <1>5, PurseType
    <3> HIDE DEF had, spent
    <3>2. Plus(had, gold, spent) \in Purse
      BY <3>1, PlusType
    <3> QED BY <3>2 DEF had, spent
  <2>2. Plus(live[q], 0, k) \in Purse /\ AtMost(live[q], Plus(live[q], 0, k))
    BY <1>0, <1>1, <1>3, PurseType, PlusMore, AtMostIs
  <2>3. live' = [live EXCEPT ![p] = Plus(@, gold, -n), ![q] = Plus(@, 0, k)]
    BY <1>2, <1>5
  <2> QED BY <1>0, <1>1, <2>1, <2>2, <2>3 DEF MarketTypeOK
<1>6. live' \in [Merchants -> Purse] /\ AtMost(live[q], live'[q])
      /\ \A r \in Merchants \ {p, q} : live'[r] = live[r]
  BY <1>4, <1>5
<1>7. /\ saved' \in [Merchants -> Purse]
      /\ \A r \in Merchants : saved'[r] = live'[r] \/ saved'[r] = saved[r]
  BY <1>0, <1>3, <1>6, SavedType DEF SavedFor
<1>8. unsaved' \subseteq Merchants /\ missed' \subseteq Merchants
      /\ p \in unsaved' \cup missed' /\ missed \subseteq missed'
  BY <1>0, <1>2 DEF MarketTypeOK
<1>9. ASSUME NEW r \in Merchants \ (unsaved' \cup missed')
      PROVE  r \notin unsaved \cup missed /\ AtMost(live[r], live'[r])
  <2>1. r \notin unsaved \cup missed /\ r # p
    BY <1>3, <1>8
  <2>2. CASE r = q
    BY <1>6, <2>1, <2>2
  <2>3. CASE r # q
    BY <1>0, <1>6, <2>1, <2>3, AtMostIs, PurseType
  <2> QED BY <2>1, <2>2, <2>3
<1> QED BY <1>6, <1>7, <1>8, <1>9, FairWhen

LEMMA StillFair ==
    ASSUME MarketInv, UNCHANGED <<live, saved, unsaved, missed>>
    PROVE  Fair
BY DEF Fair, MarketInv, MarketTypeOK, NothingTakenBack

\* Who is saved has nothing to take back.
LEMMA StoreFair ==
    ASSUME MarketInv, NEW S, Store(S), unsaved' \subseteq unsaved, unsaved \subseteq unsaved' \cup S
    PROVE  Fair
<1>1. live' = live /\ saved' = SavedFor(S) /\ missed' = missed \ S
  BY DEF Store
<1>2. /\ live' \in [Merchants -> Purse] /\ saved' \in [Merchants -> Purse]
      /\ unsaved' \subseteq Merchants /\ missed' \subseteq Merchants
  BY <1>1, SavedType DEF MarketInv, MarketTypeOK
<1>3. ASSUME NEW r \in Merchants \ (unsaved' \cup missed')
      PROVE  \/ saved'[r] = live'[r]
             \/ r \notin unsaved \cup missed /\ saved'[r] = saved[r] /\ AtMost(live[r], live'[r])
  <2>1. CASE r \in S
    BY <1>1, <2>1 DEF SavedFor
  <2>2. CASE r \notin S
    <3>1. r \notin unsaved \cup missed /\ saved'[r] = saved[r] /\ live'[r] = live[r]
      BY <1>1, <1>3, <2>2 DEF SavedFor
    <3> QED BY <3>1, AtMostIs, PurseType DEF MarketInv
  <2> QED BY <2>1, <2>2
<1> QED BY <1>2, <1>3, FairWhen

LEMMA CreditFair ==
    ASSUME MarketInv, NEW q \in Merchants, NEW gold \in Nat, NEW goods \in Nat,
           Credit(q, gold, goods), unsaved = {}, unsaved' = {}
    PROVE  Fair
<1>0. MarketTypeOK
  BY DEF MarketInv
<1>1. /\ Plus(live[q], gold, goods) \in Purse /\ Plus(saved[q], gold, goods) \in Purse
      /\ AtMost(live[q], Plus(live[q], gold, goods))
  BY <1>0, PurseType, PlusMore, AtMostIs
<1>2. /\ live' \in [Merchants -> Purse] /\ saved' \in [Merchants -> Purse]
      /\ unsaved' \subseteq Merchants /\ missed' \subseteq Merchants
  BY <1>0, <1>1 DEF Credit, MarketTypeOK
<1>3. \A r \in Merchants \ {q} : live'[r] = live[r] /\ saved'[r] = saved[r]
  BY <1>0 DEF Credit, MarketTypeOK
<1>4. ASSUME NEW r \in Merchants \ (unsaved' \cup missed')
      PROVE  /\ r \notin unsaved \cup missed
             /\ \/ saved'[r] = saved[r] /\ AtMost(live[r], live'[r])
                \/ /\ saved'[r] = Plus(saved[r], gold, goods)
                   /\ live'[r] = Plus(live[r], gold, goods)
  <2>1. r \notin unsaved \cup missed
    BY <1>4 DEF Credit
  <2>2. CASE r # q
    BY <1>0, <1>3, <2>1, <2>2, AtMostIs, PurseType
  <2>3. CASE r = q
    <3>1. presence[q] # "dead"
      BY <1>4, <2>3 DEF Credit
    <3>2. live'[q] = Plus(live[q], gold, goods)
      BY <1>0, <3>1 DEF Credit, MarketTypeOK
    <3>3. saved'[q] = saved[q] \/ saved'[q] = Plus(saved[q], gold, goods)
      BY <1>0 DEF Credit, MarketTypeOK
    <3> QED BY <1>1, <2>1, <2>3, <3>2, <3>3
  <2> QED BY <2>1, <2>2, <2>3
<1> QED BY <1>2, <1>4, FairWhen

LEMMA SettleFair ==
    ASSUME MarketInv, NEW row \in batch, Settle(row), unsaved = {}, unsaved' = {}
    PROVE  /\ Fair
           /\ RowsOK(offers', nextOffer)
<1>0. MarketTypeOK
  BY DEF MarketInv
<1>1. row.owner \in Merchants /\ row.amount \in Nat /\ row.sale \in BOOLEAN
  BY <1>0 DEF MarketTypeOK
<1>2. CASE row.id \in DOMAIN offers
  <2>1. offers' = Others(row.id)
    BY <1>2 DEF Settle
  <2>2. PICK k \in Delivered(row.amount) :
           IF row.sale THEN Credit(row.owner, 0, k) ELSE Credit(row.owner, Price * row.amount, 0)
    BY <1>2 DEF Settle
  <2>3. k \in Nat /\ Price * row.amount \in Nat
    BY <1>1, Numbers DEF Delivered
  <2>4. Fair
    BY <1>1, <2>2, <2>3, CreditFair
  <2> QED BY <1>0, <1>2, <2>1, <2>4, RowsStay
<1>3. CASE row.id \notin DOMAIN offers
  BY <1>0, <1>3, StillFair DEF Settle, MarketTypeOK, RowsOK
<1> QED BY <1>2, <1>3

-----------------------------------------------------------------------------
(* The invariant                                                            *)

LEMMA MarketInitInv == MarketInit => MarketInv
<1> SUFFICES ASSUME MarketInit PROVE MarketInv
  OBVIOUS
<1>1. /\ live \in [Merchants -> Purse] /\ saved \in [Merchants -> Purse]
      /\ \A p \in Merchants : saved[p] = live[p]
  BY Numbers DEF MarketInit
<1>2. DOMAIN offers = {} /\ batch = {} /\ nextOffer = 1 /\ settling = FALSE /\ armed = TRUE
      /\ unsaved = {} /\ missed = {} /\ claim = NoClaim /\ kills = 0
  BY DEF MarketInit
<1>3. presence \in [Merchants -> {"online", "dead", "offline"}]
  BY DEF MarketInit
<1>4. /\ DOMAIN offers \subseteq 1..(nextOffer - 1) /\ nextOffer \in Nat \ {0}
      /\ \A id \in DOMAIN offers : offers[id] \in Offer
  BY <1>2
<1>5. \A row \in batch : row.id \in 1..(nextOffer - 1) /\ row.amount \in Nat \ {0}
                         /\ row.sale \in BOOLEAN /\ row.owner \in Merchants
  BY <1>2
<1>6. /\ settling \in BOOLEAN /\ armed \in BOOLEAN /\ kills \in Nat
      /\ unsaved \subseteq Merchants /\ missed \subseteq Merchants
      /\ claim \in [row : Nat, sale : BOOLEAN, amount : Nat]
  BY <1>2 DEF NoClaim
<1>7. MarketTypeOK
  BY <1>1, <1>3, <1>4, <1>5, <1>6 DEF MarketTypeOK
<1>8. NothingTakenBack
  BY <1>1, AtMostIs, TakenBack
<1> QED BY <1>2, <1>7, <1>8 DEF MarketInv, ClaimHolds

\* What a step leaves of the types, once the players and the rows are known.
LEMMA Typed ==
    ASSUME MarketTypeOK, Fair, RowsOK(offers', nextOffer'), nextOffer' \in Nat \ {0},
           nextOffer' >= nextOffer, batch' \subseteq batch,
           presence' \in [Merchants -> {"online", "dead", "offline"}], settling' \in BOOLEAN,
           armed' \in BOOLEAN, kills' \in Nat, claim' \in [row : Nat, sale : BOOLEAN, amount : Nat]
    PROVE  MarketTypeOK'
<1>1. \A row \in batch' : /\ row.id \in 1..(nextOffer' - 1) /\ row.amount \in Nat \ {0}
                          /\ row.sale \in BOOLEAN /\ row.owner \in Merchants
  BY DEF MarketTypeOK
<1> QED BY <1>1 DEF MarketTypeOK, Fair, RowsOK

LEMMA TypedSame ==
    ASSUME MarketTypeOK, Fair, RowsOK(offers', nextOffer),
           UNCHANGED <<presence, nextOffer, armed, kills>>, settling' \in BOOLEAN,
           batch' \subseteq batch, claim' \in [row : Nat, sale : BOOLEAN, amount : Nat]
    PROVE  MarketTypeOK'
BY Typed DEF MarketTypeOK

\* With the dispatcher free nothing has been accepted by halves.
LEMMA NoneClaimed ==
    ASSUME MarketInv, unsaved = {}
    PROVE  claim = NoClaim /\ (claim' = claim => ClaimHolds')
BY DEF MarketInv, ClaimHolds

LEMMA RequestStep ==
    ASSUME MarketInv, NEW p \in Merchants,
           \/ \E sale \in BOOLEAN, n \in Amounts : \E fee \in fees(Price * n) : Create(p, sale, n, fee)
           \/ \E id \in DOMAIN offers : Cancel(p, id) \/ \E n \in 1..offers[id].amount : Accept(p, id, n)
    PROVE  MarketInv'
<1>0. MarketTypeOK /\ claim \in [row : Nat, sale : BOOLEAN, amount : Nat]
  BY DEF MarketInv, MarketTypeOK
<1>1. ASSUME NEW sale \in BOOLEAN, NEW n \in Amounts, NEW fee \in fees(Price * n),
             Create(p, sale, n, fee)
      PROVE  MarketInv'
  <2>1. Fair
    BY <1>1, CreateFair
  <2>2. nextOffer \in Nat \ {0} /\ nextOffer' = nextOffer + 1
    BY <1>0, <1>1 DEF Create, MarketTypeOK
  <2>3. [owner |-> p, sale |-> sale, amount |-> n] \in Offer
    BY Numbers DEF Offer
  <2>4. RowsOK(offers', nextOffer')
    BY <1>0, <1>1, <2>2, <2>3 DEF Create, RowsOK, MarketTypeOK
  <2>5. UNCHANGED <<batch, settling, presence, armed, kills, claim>> /\ unsaved = {}
    BY <1>1 DEF Create, Idle
  <2>6. MarketTypeOK'
    BY <1>0, <2>1, <2>2, <2>4, <2>5, Typed DEF MarketTypeOK
  <2> QED BY <2>1, <2>5, <2>6, NoneClaimed DEF MarketInv, Fair
<1>2. ASSUME NEW id \in DOMAIN offers, Cancel(p, id)
      PROVE  MarketInv'
  <2>1. Fair
    BY <1>2, CancelFair
  <2>2. RowsOK(offers', nextOffer)
    BY <1>0, <1>2, RowsStay DEF Cancel
  <2>3. UNCHANGED <<presence, nextOffer, batch, settling, armed, kills, claim>> /\ unsaved = {}
    BY <1>2 DEF Cancel, Idle
  <2>4. MarketTypeOK'
    BY <1>0, <2>1, <2>2, <2>3, TypedSame DEF MarketTypeOK
  <2> QED BY <2>1, <2>3, <2>4, NoneClaimed DEF MarketInv, Fair
<1>3. ASSUME NEW id \in DOMAIN offers, NEW n \in 1..offers[id].amount, Accept(p, id, n)
      PROVE  MarketInv'
  <2> DEFINE taken == [row |-> id, sale |-> offers[id].sale, amount |-> n]
  <2>1. Fair
    BY <1>3, AcceptFair
  <2>2. RowsOK(offers', nextOffer) /\ offers' = offers /\ unsaved = {}
    BY <1>0, <1>3 DEF RowsOK, MarketTypeOK, Accept, Idle
  <2>3. UNCHANGED <<presence, nextOffer, batch, settling, armed, kills>>
    BY <1>3 DEF Accept
  <2>4. claim' = claim \/ (claim' = taken /\ unsaved' = {p})
    BY <1>3 DEF Accept
  <2>5. /\ taken \in [row : Nat, sale : BOOLEAN, amount : Nat]
        /\ taken.row = id /\ taken.sale = offers[id].sale /\ taken.amount = n
    BY <1>0, OfferType
  <2> HIDE DEF taken
  <2>6. MarketTypeOK'
    BY <1>0, <2>1, <2>2, <2>3, <2>4, <2>5, TypedSame DEF MarketTypeOK
  <2>7. ClaimHolds'
    <3>1. CASE claim' = claim
      BY <2>2, <3>1, NoneClaimed
    <3>2. CASE claim' = taken /\ unsaved' = {p}
      BY <2>2, <2>5, <3>2 DEF ClaimHolds
    <3> QED BY <2>4, <3>1, <3>2
  <2> QED BY <2>1, <2>6, <2>7 DEF MarketInv, Fair
<1> QED BY <1>1, <1>2, <1>3

\* The rest of a request.
LEMMA RestStep ==
    ASSUME MarketInv, ReduceOffer \/ FinishRequest
    PROVE  MarketInv'
<1>0. MarketTypeOK /\ ClaimHolds /\ NoClaim \in [row : Nat, sale : BOOLEAN, amount : Nat]
  BY DEF MarketInv, NoClaim
<1>1. CASE ReduceOffer
  <2>1. /\ claim' = NoClaim /\ offers' = Reduced(claim.row, claim.amount)
        /\ UNCHANGED <<presence, live, saved, nextOffer, batch, settling, armed, unsaved, missed, kills>>
        /\ claim.row \in DOMAIN offers /\ claim.amount \in 1..offers[claim.row].amount
    BY <1>0, <1>1 DEF ReduceOffer, ClaimHolds
  <2>2. Fair
    BY <2>1, StillFair
  <2>3. RowsOK(offers', nextOffer)
    BY <1>0, <2>1, RowsStay
  <2>4. MarketTypeOK'
    BY <1>0, <2>1, <2>2, <2>3, TypedSame DEF MarketTypeOK
  <2> QED BY <2>1, <2>2, <2>4 DEF MarketInv, ClaimHolds, Fair
<1>2. CASE FinishRequest
  <2>1. /\ claim = NoClaim /\ Store(unsaved) /\ unsaved' = {}
        /\ UNCHANGED <<presence, offers, nextOffer, batch, settling, armed, claim, kills>>
    BY <1>2 DEF FinishRequest
  <2>2. Fair
    BY <2>1, StoreFair
  <2>3. MarketTypeOK'
    BY <1>0, <2>1, <2>2, TypedSame DEF MarketTypeOK, RowsOK
  <2> QED BY <2>1, <2>2, <2>3 DEF MarketInv, ClaimHolds, Fair
<1> QED BY <1>1, <1>2

LEMMA ExpiryStep ==
    ASSUME MarketInv,
           processExpiredOffers \/ \E k \in DOMAIN offers : checkExpiredOffers(k)
    PROVE  MarketInv'
<1>0. MarketTypeOK /\ ClaimHolds
  BY DEF MarketInv
<1>1. CASE processExpiredOffers
  <2>1. PICK row \in batch :
           /\ Settle(row) /\ batch' = batch \ {row} /\ settling' = (batch' # {})
           /\ UNCHANGED <<presence, nextOffer, armed, unsaved, claim, kills>>
    BY <1>1 DEF processExpiredOffers
  <2>2. unsaved = {} /\ unsaved' = {}
    BY <1>1, <2>1 DEF processExpiredOffers
  <2>3. Fair /\ RowsOK(offers', nextOffer)
    BY <2>1, <2>2, SettleFair
  <2>4. MarketTypeOK'
    BY <1>0, <2>1, <2>3, TypedSame DEF MarketTypeOK
  <2> QED BY <2>1, <2>2, <2>3, <2>4, NoneClaimed DEF MarketInv, Fair
<1>2. ASSUME NEW k \in DOMAIN offers, checkExpiredOffers(k)
      PROVE  MarketInv'
  <2>1. /\ UNCHANGED <<presence, live, saved, offers, nextOffer, settling, unsaved, claim, missed, kills>>
        /\ armed' = TRUE
    BY <1>2 DEF checkExpiredOffers
  <2>2. batch' = {[id |-> id, owner |-> offers[id].owner, sale |-> offers[id].sale,
                    amount |-> offers[id].amount] : id \in Expired(k)}
    BY <1>2 DEF checkExpiredOffers
  <2>3. Expired(k) \subseteq DOMAIN offers
    BY DEF Expired
  <2>4. \A id \in Expired(k) : /\ offers[id].owner \in Merchants /\ offers[id].sale \in BOOLEAN
                               /\ offers[id].amount \in Nat \ {0} /\ id \in 1..(nextOffer - 1)
    BY <1>0, <2>3, OfferType DEF MarketTypeOK
  <2>5. \A row \in batch' : /\ row.id \in 1..(nextOffer - 1) /\ row.amount \in Nat \ {0}
                            /\ row.sale \in BOOLEAN /\ row.owner \in Merchants
    BY <2>2, <2>4
  <2>6. MarketTypeOK'
    BY <1>0, <2>1, <2>5 DEF MarketTypeOK
  <2>7. NothingTakenBack' /\ ClaimHolds'
    BY <1>0, <2>1 DEF MarketInv, NothingTakenBack, ClaimHolds
  <2> QED BY <2>6, <2>7 DEF MarketInv
<1> QED BY <1>1, <1>2

LEMMA ComeAndGoStep ==
    ASSUME MarketInv, NEW p \in Merchants,
           Enter(p) \/ Leave(p) \/ Die(p) \/ Respawn(p) \/ LeaveDead(p)
    PROVE  MarketInv'
<1>0. MarketTypeOK
  BY DEF MarketInv
<1>1. PICK from \in {"online", "dead", "offline"}, to \in {"online", "dead", "offline"} :
         Appears(p, from, to)
  BY DEF Enter, Leave, Die, Respawn, LeaveDead
<1>2. /\ presence' \in [Merchants -> {"online", "dead", "offline"}] /\ unsaved = {}
      /\ UNCHANGED <<offers, nextOffer, batch, settling, armed, unsaved, claim, kills>>
  BY <1>0, <1>1 DEF Appears, MarketTypeOK, Idle
<1>3. Fair
  <2>1. CASE Enter(p) \/ Respawn(p)
    BY <1>2, <2>1, StillFair DEF Enter, Respawn
  <2>2. CASE Leave(p) \/ Die(p)
    BY <1>2, <2>2, StoreFair DEF Leave, Die
  <2>3. CASE LeaveDead(p)
    <3>1. live' = [live EXCEPT ![p] = saved[p]] /\ saved' = saved /\ missed' = missed \ {p}
      BY <2>3 DEF LeaveDead
    <3>2. /\ live' \in [Merchants -> Purse] /\ saved' \in [Merchants -> Purse]
          /\ unsaved' \subseteq Merchants /\ missed' \subseteq Merchants
      BY <1>0, <1>2, <3>1 DEF MarketTypeOK
    <3>3. ASSUME NEW r \in Merchants \ (unsaved' \cup missed')
          PROVE  \/ saved'[r] = live'[r]
                 \/ r \notin unsaved \cup missed /\ saved'[r] = saved[r] /\ AtMost(live[r], live'[r])
      <4>1. CASE r = p
        BY <1>0, <3>1, <4>1 DEF MarketTypeOK
      <4>2. CASE r # p
        <5>1. r \notin unsaved \cup missed /\ live'[r] = live[r]
          BY <1>0, <1>2, <3>1, <3>3, <4>2 DEF MarketTypeOK
        <5> QED BY <1>0, <3>1, <5>1, AtMostIs, PurseType
      <4> QED BY <4>1, <4>2
    <3> QED BY <3>2, <3>3, FairWhen
  <2> QED BY <2>1, <2>2, <2>3
<1>4. MarketTypeOK'
  BY <1>0, <1>2, <1>3, Typed DEF MarketTypeOK, RowsOK
<1> QED BY <1>2, <1>3, <1>4, NoneClaimed DEF MarketInv, Fair

LEMMA SaveOrCrashStep ==
    ASSUME MarketInv, SaveAll \/ Crash
    PROVE  MarketInv'
<1>0. MarketTypeOK
  BY DEF MarketInv
<1>1. CASE SaveAll
  <2>1. /\ UNCHANGED <<presence, offers, nextOffer, batch, settling, armed, unsaved, claim, kills>>
        /\ unsaved = {} /\ Store({p \in Merchants : presence[p] = "online"})
    BY <1>1 DEF SaveAll, Idle
  <2>2. Fair
    BY <2>1, StoreFair
  <2>3. MarketTypeOK'
    BY <1>0, <2>1, <2>2, TypedSame DEF MarketTypeOK, RowsOK
  <2> QED BY <2>1, <2>2, <2>3, NoneClaimed DEF MarketInv, Fair
<1>2. CASE Crash
  <2>1. /\ live' = saved /\ saved' = saved /\ unsaved' = {} /\ missed' = {} /\ claim' = NoClaim
        /\ batch' = {} /\ settling' = FALSE /\ armed' = TRUE /\ nextOffer' = nextOffer
        /\ presence' = [p \in Merchants |-> "offline"]
    BY <1>2 DEF Crash
  <2>2. Fair
    BY <1>0, <2>1, FairWhen DEF MarketTypeOK
  <2>3. RowsOK(offers', nextOffer) /\ kills' \in Nat
    <3>1. offers' = offers \/ \E id \in DOMAIN offers : offers' = Others(id)
      BY <1>2 DEF Crash
    <3>2. kills' = kills \/ kills' = kills + 1
      BY <1>2 DEF Crash
    <3> QED BY <1>0, <3>1, <3>2, RowsStay DEF MarketTypeOK, RowsOK
  <2>4. MarketTypeOK'
    <3>1. /\ nextOffer \in Nat \ {0} /\ nextOffer' >= nextOffer /\ nextOffer' \in Nat \ {0}
          /\ RowsOK(offers', nextOffer')
      BY <1>0, <2>1, <2>3 DEF MarketTypeOK
    <3>2. /\ presence' \in [Merchants -> {"online", "dead", "offline"}]
          /\ claim' \in [row : Nat, sale : BOOLEAN, amount : Nat]
          /\ settling' \in BOOLEAN /\ armed' \in BOOLEAN /\ batch' \subseteq batch
      BY <2>1 DEF NoClaim
    <3> QED BY <1>0, <2>2, <2>3, <3>1, <3>2, Typed
  <2> QED BY <2>1, <2>2, <2>4 DEF MarketInv, ClaimHolds, Fair
<1> QED BY <1>1, <1>2

LEMMA MarketStep == MarketInv /\ [MarketNext]_marketVars => MarketInv'
<1> SUFFICES ASSUME MarketInv, [MarketNext]_marketVars PROVE MarketInv'
  OBVIOUS
<1>1. CASE UNCHANGED marketVars
  BY <1>1 DEF marketVars, MarketInv, MarketTypeOK, ClaimHolds, NothingTakenBack
<1>2. CASE MarketNext
  <2>1. CASE SaveAll \/ Crash
    BY <2>1, SaveOrCrashStep
  <2>2. CASE processExpiredOffers \/ \E k \in DOMAIN offers : checkExpiredOffers(k)
    BY <2>2, ExpiryStep
  <2>3. ASSUME NEW p \in Merchants,
               Enter(p) \/ Leave(p) \/ Die(p) \/ Respawn(p) \/ LeaveDead(p)
        PROVE  MarketInv'
    BY <2>3, ComeAndGoStep
  <2>4. ASSUME NEW p \in Merchants,
               \/ \E sale \in BOOLEAN, n \in Amounts : \E fee \in fees(Price * n) :
                     Create(p, sale, n, fee)
               \/ \E id \in DOMAIN offers :
                     Cancel(p, id) \/ \E n \in 1..offers[id].amount : Accept(p, id, n)
        PROVE  MarketInv'
    BY <2>4, RequestStep
  <2>5. CASE ReduceOffer \/ FinishRequest
    BY <2>5, RestStep
  <2> QED BY <1>2, <2>1, <2>2, <2>3, <2>4, <2>5 DEF MarketNext
<1> QED BY <1>1, <1>2

LEMMA MarketInvariant == MarketSpec => []MarketInv
<1> QED BY MarketInitInv, MarketStep, PTL DEF MarketSpec

\* Nobody's gold or goods become negative, and no offer, no expired row and no claim
\* is about nothing.
THEOREM MarketTypes == MarketSpec => []MarketTypeOK
<1>1. MarketInv => MarketTypeOK
  BY DEF MarketInv
<1> QED BY <1>1, MarketInvariant, PTL

\* Wherever the server is killed, between any two commits of a request: whoever's
\* request is not under way gets nothing back that is in an offer or with another
\* player, for any number of merchants, offers and kills and with any limit of the
\* inboxes.
THEOREM NothingBack == MarketSpec => []NothingTakenBack
<1>1. MarketInv => NothingTakenBack
  BY DEF MarketInv
<1> QED BY <1>1, MarketInvariant, PTL

-----------------------------------------------------------------------------
(* The books of the market                                                  *)

GoldsOf(purses) == [p \in Merchants |-> purses[p].gold]
GoodsOf(purses) == [p \in Merchants |-> purses[p].goods]
GoldsIn(table) == [id \in DOMAIN table |-> GoldIn(table[id])]
GoodsInRows(table) == [id \in DOMAIN table |-> GoodsIn(table[id])]

\* What all merchants have, and what all offers hold back but for what is to come
\* off a row.
LEMMA BooksAre ==
    /\ Gold = Total(GoldsOf(live), Merchants) + Total(GoldsIn(offers), DOMAIN offers) - GoldIn(claim)
    /\ GoodsHeld = Total(GoodsOf(live), Merchants) + Total(GoodsInRows(offers), DOMAIN offers)
                   - GoodsIn(claim)
    /\ Gold' = Total(GoldsOf(live'), Merchants) + Total(GoldsIn(offers'), DOMAIN offers')
               - GoldIn(claim')
    /\ GoodsHeld' = Total(GoodsOf(live'), Merchants)
                    + Total(GoodsInRows(offers'), DOMAIN offers') - GoodsIn(claim')
BY DEF Gold, GoodsHeld, GoldsOf, GoodsOf, GoldsIn, GoodsInRows, GoldIn, GoodsIn

LEMMA PursesOf ==
    ASSUME NEW purses \in [Merchants -> Purse]
    PROVE  \A p \in Merchants :
              /\ GoldsOf(purses)[p] = purses[p].gold /\ GoodsOf(purses)[p] = purses[p].goods
              /\ GoldsOf(purses)[p] \in Int /\ GoodsOf(purses)[p] \in Int
BY DEF GoldsOf, GoodsOf, Purse

LEMMA PlusFields ==
    ASSUME NEW had, NEW gold, NEW goods
    PROVE  /\ Plus(had, gold, goods).gold = had.gold + gold
           /\ Plus(had, gold, goods).goods = had.goods + goods
BY DEF Plus

\* One merchant gets or pays, or one gets what another pays.
LEMMA OnePurse ==
    ASSUME NEW L \in [Merchants -> Purse], NEW M \in [Merchants -> Purse], NEW p \in Merchants,
           NEW gold \in Int, NEW goods \in Int, M[p] = Plus(L[p], gold, goods),
           \A q \in Merchants \ {p} : M[q] = L[q]
    PROVE  /\ Total(GoldsOf(M), Merchants) = Total(GoldsOf(L), Merchants) + gold
           /\ Total(GoodsOf(M), Merchants) = Total(GoodsOf(L), Merchants) + goods
<1> DEFINE f == GoldsOf(L)
           g == GoldsOf(M)
           d == GoodsOf(L)
           e == GoodsOf(M)
<1>1. \A x \in Merchants : f[x] \in Int /\ g[x] \in Int
  BY PursesOf
<1>2. \A x \in Merchants : d[x] \in Int /\ e[x] \in Int
  BY PursesOf
<1>a. \A x \in Merchants \ {p} : f[x] = g[x]
  BY PursesOf
<1>b. \A x \in Merchants \ {p} : d[x] = e[x]
  BY PursesOf
<1>3. g[p] = f[p] + gold /\ e[p] = d[p] + goods
  BY PursesOf, PlusFields
<1>4. IsFiniteSet(Merchants)
  BY MarketAssumption DEF MarketAssumption
<1> HIDE DEF f, g, d, e
<1>5. Total(g, Merchants) = Total(f, Merchants) + (g[p] - f[p])
  BY <1>1, <1>a, <1>4, TotalChanged
<1>6. Total(e, Merchants) = Total(d, Merchants) + (e[p] - d[p])
  BY <1>2, <1>b, <1>4, TotalChanged
<1>7. g[p] - f[p] = gold /\ e[p] - d[p] = goods
  BY <1>1, <1>2, <1>3
<1>8. Total(g, Merchants) = Total(f, Merchants) + gold
      /\ Total(e, Merchants) = Total(d, Merchants) + goods
  BY <1>5, <1>6, <1>7
<1> QED BY <1>8 DEF f, g, d, e

LEMMA TwoPurses ==
    ASSUME NEW L \in [Merchants -> Purse], NEW M \in [Merchants -> Purse],
           NEW p \in Merchants, NEW q \in Merchants, p # q,
           NEW gold \in Int, NEW goods \in Int, NEW gold2 \in Int, NEW goods2 \in Int,
           M[p] = Plus(L[p], gold, goods), M[q] = Plus(L[q], gold2, goods2),
           \A r \in Merchants : r # p /\ r # q => M[r] = L[r]
    PROVE  /\ Total(GoldsOf(M), Merchants) = Total(GoldsOf(L), Merchants) + gold + gold2
           /\ Total(GoodsOf(M), Merchants) = Total(GoodsOf(L), Merchants) + goods + goods2
<1> DEFINE N == [L EXCEPT ![p] = M[p]]
<1>1. /\ N \in [Merchants -> Purse] /\ N[p] = M[p] /\ N[q] = L[q]
      /\ \A r \in Merchants \ {p} : N[r] = L[r]
      /\ \A r \in Merchants \ {q} : M[r] = N[r]
  OBVIOUS
<1> HIDE DEF N
<1>2. /\ Total(GoldsOf(N), Merchants) = Total(GoldsOf(L), Merchants) + gold
      /\ Total(GoodsOf(N), Merchants) = Total(GoodsOf(L), Merchants) + goods
  BY <1>1, OnePurse
<1>3. /\ Total(GoldsOf(M), Merchants) = Total(GoldsOf(N), Merchants) + gold2
      /\ Total(GoodsOf(M), Merchants) = Total(GoodsOf(N), Merchants) + goods2
  BY <1>1, OnePurse
<1> QED BY <1>2, <1>3

LEMMA PursesTotal ==
    ASSUME NEW L \in [Merchants -> Purse]
    PROVE  Total(GoldsOf(L), Merchants) \in Int /\ Total(GoodsOf(L), Merchants) \in Int
<1>1. IsFiniteSet(Merchants)
  BY MarketAssumption DEF MarketAssumption
<1>2. \A p \in Merchants : GoldsOf(L)[p] \in Int /\ GoodsOf(L)[p] \in Int
  BY PursesOf
<1> QED BY <1>1, <1>2, TotalType

\* A row is added, deleted, or an offer reduced.
LEMMA RowOf ==
    ASSUME NEW table, NEW id \in DOMAIN table
    PROVE  GoldsIn(table)[id] = GoldIn(table[id]) /\ GoodsInRows(table)[id] = GoodsIn(table[id])
BY DEF GoldsIn, GoodsInRows

LEMMA InOffer ==
    ASSUME NEW offer \in Offer
    PROVE  /\ GoldIn(offer) = (IF offer.sale THEN 0 ELSE Price * offer.amount)
           /\ GoodsIn(offer) = (IF offer.sale THEN offer.amount ELSE 0)
           /\ GoldIn(offer) \in Int /\ GoodsIn(offer) \in Int
<1>1. offer.amount \in Int /\ Price \in Int /\ Price * offer.amount \in Int
  BY Numbers DEF Offer
<1> QED BY <1>1 DEF GoldIn, GoodsIn

LEMMA RowsTotal ==
    ASSUME NEW next \in Nat, NEW table, RowsOK(table, next)
    PROVE  /\ IsFiniteSet(DOMAIN table)
           /\ \A id \in DOMAIN table : GoldsIn(table)[id] \in Int /\ GoodsInRows(table)[id] \in Int
           /\ Total(GoldsIn(table), DOMAIN table) \in Int
           /\ Total(GoodsInRows(table), DOMAIN table) \in Int
<1>1. IsFiniteSet(DOMAIN table)
  <2>1. 1 \in Int /\ next - 1 \in Int /\ DOMAIN table \in SUBSET (1..(next - 1))
    BY DEF RowsOK
  <2>2. IsFiniteSet(1..(next - 1))
    BY <2>1, FS_Interval
  <2> QED BY <2>1, <2>2, FS_Subset
<1>2. \A id \in DOMAIN table : GoldsIn(table)[id] \in Int /\ GoodsInRows(table)[id] \in Int
  BY RowOf, InOffer DEF RowsOK
<1>3. Total(GoldsIn(table), DOMAIN table) \in Int
  BY <1>1, <1>2, TotalType
<1>4. Total(GoodsInRows(table), DOMAIN table) \in Int
  BY <1>1, <1>2, TotalType
<1> QED BY <1>1, <1>2, <1>3, <1>4

LEMMA RowAdded ==
    ASSUME NEW next \in Nat, NEW table, RowsOK(table, next), NEW id, id \notin DOMAIN table,
           NEW offer \in Offer, NEW more,
           more = [j \in DOMAIN table \cup {id} |-> IF j = id THEN offer ELSE table[j]]
    PROVE  /\ Total(GoldsIn(more), DOMAIN more)
                = Total(GoldsIn(table), DOMAIN table) + GoldIn(offer)
           /\ Total(GoodsInRows(more), DOMAIN more)
                = Total(GoodsInRows(table), DOMAIN table) + GoodsIn(offer)
<1>1. DOMAIN more = DOMAIN table \cup {id} /\ more[id] = offer
      /\ \A j \in DOMAIN table : more[j] = table[j]
  OBVIOUS
<1>2. /\ GoldsIn(more)[id] = GoldIn(offer) /\ GoodsInRows(more)[id] = GoodsIn(offer)
      /\ \A j \in DOMAIN table : /\ GoldsIn(more)[j] = GoldsIn(table)[j]
                                 /\ GoodsInRows(more)[j] = GoodsInRows(table)[j]
  BY <1>1, RowOf
<1> DEFINE S == DOMAIN table
           f == GoldsIn(table)
           g == GoldsIn(more)
           d == GoodsInRows(table)
           e == GoodsInRows(more)
<1>3. IsFiniteSet(S) /\ id \notin S
  BY RowsTotal
<1>7. DOMAIN more = S \cup {id} /\ g[id] = GoldIn(offer) /\ e[id] = GoodsIn(offer)
  BY <1>1, <1>2
<1>8. g[id] \in Int
  BY <1>2, InOffer
<1>9. e[id] \in Int
  BY <1>2, InOffer
<1>a. \A x \in S : f[x] \in Int /\ g[x] = f[x]
  BY <1>2, RowsTotal
<1>b. \A x \in S : d[x] \in Int /\ e[x] = d[x]
  BY <1>2, RowsTotal
<1> HIDE DEF S, f, g, d, e
<1>4. Total(g, S \cup {id}) = Total(f, S) + g[id]
  BY <1>3, <1>8, <1>a, TotalAdded
<1>6. Total(e, S \cup {id}) = Total(d, S) + e[id]
  BY <1>3, <1>9, <1>b, TotalAdded
<1>5. Total(g, DOMAIN more) = Total(f, S) + GoldIn(offer)
      /\ Total(e, DOMAIN more) = Total(d, S) + GoodsIn(offer)
  BY <1>4, <1>6, <1>7
<1> QED BY <1>5 DEF S, f, g, d, e

LEMMA RowGone ==
    ASSUME NEW next \in Nat, NEW table, RowsOK(table, next), NEW id \in DOMAIN table, NEW less,
           less = [j \in DOMAIN table \ {id} |-> table[j]]
    PROVE  /\ Total(GoldsIn(less), DOMAIN less)
                = Total(GoldsIn(table), DOMAIN table) - GoldIn(table[id])
           /\ Total(GoodsInRows(less), DOMAIN less)
                = Total(GoodsInRows(table), DOMAIN table) - GoodsIn(table[id])
<1>1. DOMAIN less = DOMAIN table \ {id} /\ \A j \in DOMAIN less : less[j] = table[j]
  OBVIOUS
<1>2. /\ GoldsIn(table)[id] = GoldIn(table[id]) /\ GoodsInRows(table)[id] = GoodsIn(table[id])
      /\ \A j \in DOMAIN table \ {id} : /\ GoldsIn(less)[j] = GoldsIn(table)[j]
                                        /\ GoodsInRows(less)[j] = GoodsInRows(table)[j]
  BY <1>1, RowOf
<1> DEFINE S == DOMAIN table
           f == GoldsIn(table)
           g == GoldsIn(less)
           d == GoodsInRows(table)
           e == GoodsInRows(less)
<1>3. /\ IsFiniteSet(S) /\ id \in S /\ DOMAIN less = S \ {id}
      /\ f[id] = GoldIn(table[id]) /\ d[id] = GoodsIn(table[id])
  BY <1>1, <1>2, RowsTotal
<1>a. (\A x \in S : f[x] \in Int) /\ (\A x \in S \ {id} : g[x] = f[x])
  BY <1>2, RowsTotal
<1>b. (\A x \in S : d[x] \in Int) /\ (\A x \in S \ {id} : e[x] = d[x])
  BY <1>2, RowsTotal
<1> HIDE DEF S, f, g, d, e
<1>4. Total(g, S \ {id}) = Total(f, S) - f[id]
  BY <1>3, <1>a, TotalGone
<1>6. Total(e, S \ {id}) = Total(d, S) - d[id]
  BY <1>3, <1>b, TotalGone
<1>5. Total(g, DOMAIN less) = Total(f, S) - GoldIn(table[id])
      /\ Total(e, DOMAIN less) = Total(d, S) - GoodsIn(table[id])
  BY <1>3, <1>4, <1>6
<1> QED BY <1>5 DEF S, f, g, d, e

LEMMA RowReduced ==
    ASSUME NEW next \in Nat, NEW table, RowsOK(table, next), NEW id \in DOMAIN table,
           NEW offer \in Offer, NEW more, DOMAIN more = DOMAIN table, more[id] = offer,
           \A j \in DOMAIN table \ {id} : more[j] = table[j]
    PROVE  /\ Total(GoldsIn(more), DOMAIN more)
                = Total(GoldsIn(table), DOMAIN table) + (GoldIn(offer) - GoldIn(table[id]))
           /\ Total(GoodsInRows(more), DOMAIN more)
                = Total(GoodsInRows(table), DOMAIN table) + (GoodsIn(offer) - GoodsIn(table[id]))
<1>1. DOMAIN more = DOMAIN table /\ more[id] = offer
      /\ \A j \in DOMAIN table \ {id} : more[j] = table[j]
  OBVIOUS
<1>2. /\ GoldsIn(more)[id] = GoldIn(offer) /\ GoodsInRows(more)[id] = GoodsIn(offer)
      /\ GoldsIn(table)[id] = GoldIn(table[id]) /\ GoodsInRows(table)[id] = GoodsIn(table[id])
      /\ \A j \in DOMAIN table \ {id} : /\ GoldsIn(more)[j] = GoldsIn(table)[j]
                                        /\ GoodsInRows(more)[j] = GoodsInRows(table)[j]
  <2>1. id \in DOMAIN more /\ id \in DOMAIN table
    BY <1>1
  <2>2. ASSUME NEW j \in DOMAIN table \ {id}
        PROVE  /\ GoldsIn(more)[j] = GoldsIn(table)[j]
               /\ GoodsInRows(more)[j] = GoodsInRows(table)[j]
    <3>1. j \in DOMAIN more /\ j \in DOMAIN table /\ more[j] = table[j]
      BY <1>1
    <3> QED BY <3>1, RowOf
  <2>3. /\ GoldsIn(more)[id] = GoldIn(more[id]) /\ GoodsInRows(more)[id] = GoodsIn(more[id])
        /\ GoldsIn(table)[id] = GoldIn(table[id]) /\ GoodsInRows(table)[id] = GoodsIn(table[id])
    BY <2>1, RowOf
  <2> QED BY <1>1, <2>2, <2>3
<1> DEFINE S == DOMAIN table
           f == GoldsIn(table)
           g == GoldsIn(more)
           d == GoodsInRows(table)
           e == GoodsInRows(more)
<1>3. /\ IsFiniteSet(S) /\ id \in S /\ DOMAIN more = S
      /\ g[id] = GoldIn(offer) /\ e[id] = GoodsIn(offer)
      /\ f[id] = GoldIn(table[id]) /\ d[id] = GoodsIn(table[id])
  BY <1>1, <1>2, RowsTotal, InOffer
<1>7. g[id] \in Int /\ e[id] \in Int
  BY <1>2, InOffer
<1>a. (\A x \in S : f[x] \in Int /\ g[x] \in Int) /\ (\A x \in S \ {id} : f[x] = g[x])
  BY <1>2, <1>7, RowsTotal
<1>b. (\A x \in S : d[x] \in Int /\ e[x] \in Int) /\ (\A x \in S \ {id} : d[x] = e[x])
  BY <1>2, <1>7, RowsTotal
<1> HIDE DEF S, f, g, d, e
<1>4. Total(g, S) = Total(f, S) + (g[id] - f[id])
  BY <1>3, <1>a, TotalChanged
<1>6. Total(e, S) = Total(d, S) + (e[id] - d[id])
  BY <1>3, <1>b, TotalChanged
<1>5. /\ Total(g, DOMAIN more) = Total(f, S) + (GoldIn(offer) - GoldIn(table[id]))
      /\ Total(e, DOMAIN more) = Total(d, S) + (GoodsIn(offer) - GoodsIn(table[id]))
  BY <1>3, <1>4, <1>6
<1> QED BY <1>5 DEF S, f, g, d, e

-----------------------------------------------------------------------------
\* What the statement about the books rests on: a row that was read says what was
\* offered.
SameRows == \A row \in batch : row.id \in DOMAIN offers => offers[row.id].sale = row.sale
RowsInv == MarketInv /\ SameRows

Balanced == GoodsHeld' = GoodsHeld /\ Gold' = Gold

LEMMA ClaimIn ==
    /\ GoldIn(NoClaim) = 0 /\ GoodsIn(NoClaim) = 0
    /\ MarketTypeOK => GoldIn(claim) \in Int /\ GoodsIn(claim) \in Int
<1>1. GoldIn(NoClaim) = 0 /\ GoodsIn(NoClaim) = 0
  BY Numbers DEF GoldIn, GoodsIn, NoClaim
<1>2. ASSUME MarketTypeOK PROVE GoldIn(claim) \in Int /\ GoodsIn(claim) \in Int
  <2>1. claim.amount \in Int /\ Price * claim.amount \in Int
    BY <1>2, Numbers DEF MarketTypeOK
  <2> QED BY <2>1 DEF GoldIn, GoodsIn
<1> QED BY <1>1, <1>2

LEMMA TableType ==
    ASSUME MarketTypeOK
    PROVE  /\ live \in [Merchants -> Purse] /\ nextOffer \in Nat /\ RowsOK(offers, nextOffer)
           /\ nextOffer \notin DOMAIN offers
           /\ \A id \in DOMAIN offers : offers[id] \in Offer
           /\ Total(GoldsOf(live), Merchants) \in Int /\ Total(GoodsOf(live), Merchants) \in Int
           /\ Total(GoldsIn(offers), DOMAIN offers) \in Int
           /\ Total(GoodsInRows(offers), DOMAIN offers) \in Int
           /\ GoldIn(claim) \in Int /\ GoodsIn(claim) \in Int
<1>1. live \in [Merchants -> Purse] /\ nextOffer \in Nat /\ RowsOK(offers, nextOffer)
  BY DEF MarketTypeOK, RowsOK
<1>2. nextOffer \notin DOMAIN offers
  <2>1. nextOffer \notin 1..(nextOffer - 1)
    BY <1>1
  <2> QED BY <1>1, <2>1 DEF RowsOK
<1>3. GoldIn(claim) \in Int /\ GoodsIn(claim) \in Int
  BY ClaimIn
<1> QED BY <1>1, <1>2, <1>3, RowsTotal, PursesTotal DEF RowsOK

\* A purse gains or loses, and the table the other way round.
LEMMA Balances ==
    ASSUME MarketTypeOK, NEW gold \in Int, NEW goods \in Int, NEW gold2 \in Int, NEW goods2 \in Int,
           Total(GoldsOf(live'), Merchants) = Total(GoldsOf(live), Merchants) + gold,
           Total(GoodsOf(live'), Merchants) = Total(GoodsOf(live), Merchants) + goods,
           Total(GoldsIn(offers'), DOMAIN offers')
             = Total(GoldsIn(offers), DOMAIN offers) + gold2,
           Total(GoodsInRows(offers'), DOMAIN offers')
             = Total(GoodsInRows(offers), DOMAIN offers) + goods2,
           claim' = claim
    PROVE  Gold' = Gold + (gold + gold2) /\ GoodsHeld' = GoodsHeld + (goods + goods2)
           /\ Gold \in Int /\ GoodsHeld \in Int
BY BooksAre, TableType

LEMMA CreateBooks ==
    ASSUME MarketInv, NEW p \in Merchants, NEW sale \in BOOLEAN, NEW n \in Amounts,
           NEW fee \in fees(Price * n), Create(p, sale, n, fee)
    PROVE  /\ GoodsHeld' = GoodsHeld /\ nextOffer' # nextOffer
           /\ Gold - Gold' \in fees(Price * offers'[nextOffer].amount)
<1> DEFINE price == Price * n
           gold == -(fee + IF sale THEN 0 ELSE price)
           goods == IF sale THEN -n ELSE 0
           offer == [owner |-> p, sale |-> sale, amount |-> n]
<1>0. MarketTypeOK
  BY DEF MarketInv
<1>1. n \in Nat /\ price \in Nat /\ fee \in Nat /\ gold \in Int /\ goods \in Int
  <2>1. n \in Nat /\ price \in Nat
    BY Numbers
  <2>2. fee \in Nat
    BY <2>1, FeesType
  <2> HIDE DEF price
  <2> QED BY <2>1, <2>2
<1>2. offer \in Offer
  BY Numbers DEF Offer
<1>3. live' \in [Merchants -> Purse]
  BY CreateFair DEF Fair
<1>4. live'[p] = Plus(live[p], gold, goods) /\ \A q \in Merchants \ {p} : live'[q] = live[q]
  BY <1>0, TableType DEF Create
<1>5. /\ offers' = [j \in DOMAIN offers \cup {nextOffer} |->
                       IF j = nextOffer THEN offer ELSE offers[j]]
      /\ nextOffer' = nextOffer + 1
  BY DEF Create
<1>15. claim' = claim
  BY DEF Create
<1>6. offers'[nextOffer].amount = n
  BY <1>5
<1>7. GoldIn(offer) = (IF sale THEN 0 ELSE price) /\ GoodsIn(offer) = (IF sale THEN n ELSE 0)
  BY DEF GoldIn, GoodsIn
<1> HIDE DEF gold, goods, offer
<1>8. /\ Total(GoldsOf(live'), Merchants) = Total(GoldsOf(live), Merchants) + gold
      /\ Total(GoodsOf(live'), Merchants) = Total(GoodsOf(live), Merchants) + goods
  BY <1>1, <1>3, <1>4, <1>0, TableType, OnePurse
<1>9. /\ Total(GoldsIn(offers'), DOMAIN offers')
           = Total(GoldsIn(offers), DOMAIN offers) + GoldIn(offer)
      /\ Total(GoodsInRows(offers'), DOMAIN offers')
           = Total(GoodsInRows(offers), DOMAIN offers) + GoodsIn(offer)
  BY <1>2, <1>5, <1>0, TableType, RowAdded
<1>10. GoldIn(offer) \in Int /\ GoodsIn(offer) \in Int
  BY <1>2, InOffer
<1>11. /\ Gold' = Gold + (gold + GoldIn(offer)) /\ GoodsHeld' = GoodsHeld + (goods + GoodsIn(offer))
       /\ Gold \in Int /\ GoodsHeld \in Int
  BY <1>1, <1>8, <1>9, <1>10, <1>0, <1>15, Balances
<1>12. gold + GoldIn(offer) = -fee /\ goods + GoodsIn(offer) = 0
  <2> HIDE DEF price
  <2> QED BY <1>1, <1>7 DEF gold, goods
<1>13. Gold - Gold' = fee /\ GoodsHeld' = GoodsHeld
  BY <1>1, <1>11, <1>12
<1>14. nextOffer' # nextOffer
  BY <1>0, <1>5, TableType
<1> QED BY <1>6, <1>13, <1>14

\* An offer is taken off the table and its owner, or whoever pays, gets what it held.
LEMMA CancelBooks ==
    ASSUME MarketInv, LimitedInbox = FALSE, NEW p \in Merchants, NEW id \in DOMAIN offers,
           Cancel(p, id)
    PROVE  Balanced
<1> DEFINE gold == GoldIn(offers[id])
           goods == GoodsIn(offers[id])
<1>0. MarketTypeOK /\ claim' = claim
  BY DEF MarketInv, Cancel
<1>1. Delivered(offers[id].amount) = {offers[id].amount}
  BY DEF Delivered
<1>2. offers[id].amount \in Int /\ Price * offers[id].amount \in Int
  BY <1>0, OfferType, Numbers
<1>3. live'[p] = Plus(live[p], gold, goods) /\ \A q \in Merchants \ {p} : live'[q] = live[q]
  BY <1>0, <1>1, TableType DEF Cancel, GoldIn, GoodsIn
<1>4. gold \in Int /\ goods \in Int
  BY <1>0, TableType, InOffer
<1>5. live' \in [Merchants -> Purse]
  BY CancelFair DEF Fair
<1> HIDE DEF gold, goods
<1>6. /\ Total(GoldsOf(live'), Merchants) = Total(GoldsOf(live), Merchants) + gold
      /\ Total(GoodsOf(live'), Merchants) = Total(GoodsOf(live), Merchants) + goods
  BY <1>0, <1>3, <1>4, <1>5, TableType, OnePurse
<1>7. /\ Total(GoldsIn(offers'), DOMAIN offers') = Total(GoldsIn(offers), DOMAIN offers) - gold
      /\ Total(GoodsInRows(offers'), DOMAIN offers')
           = Total(GoodsInRows(offers), DOMAIN offers) - goods
  BY <1>0, TableType, RowGone DEF Cancel, Others, gold, goods
<1>8. Gold' = Gold /\ GoodsHeld' = GoodsHeld
  BY <1>0, <1>4, <1>6, <1>7, BooksAre, TableType
<1> QED BY <1>8 DEF Balanced

LEMMA ReducedBooks ==
    ASSUME MarketTypeOK, NEW id \in DOMAIN offers, NEW n \in 1..offers[id].amount,
           offers' = Reduced(id, n)
    PROVE  /\ Total(GoldsIn(offers'), DOMAIN offers')
                = Total(GoldsIn(offers), DOMAIN offers)
                  - (IF offers[id].sale THEN 0 ELSE Price * n)
           /\ Total(GoodsInRows(offers'), DOMAIN offers')
                = Total(GoodsInRows(offers), DOMAIN offers) - (IF offers[id].sale THEN n ELSE 0)
<1> DEFINE a == offers[id].amount
           rest == [offers[id] EXCEPT !.amount = a - n]
<1>0. a \in Nat \ {0} /\ n \in Nat /\ Price \in Nat /\ offers[id].sale \in BOOLEAN
  BY OfferType, Numbers
<1>1. /\ GoldIn(offers[id]) = (IF offers[id].sale THEN 0 ELSE Price * a)
      /\ GoodsIn(offers[id]) = (IF offers[id].sale THEN a ELSE 0)
  BY DEF GoldIn, GoodsIn
<1>2. CASE a = n
  <2>1. offers' = [j \in DOMAIN offers \ {id} |-> offers[j]]
    BY <1>2 DEF Reduced, Others
  <2>2. /\ Total(GoldsIn(offers'), DOMAIN offers')
             = Total(GoldsIn(offers), DOMAIN offers) - GoldIn(offers[id])
        /\ Total(GoodsInRows(offers'), DOMAIN offers')
             = Total(GoodsInRows(offers), DOMAIN offers) - GoodsIn(offers[id])
    BY <2>1, TableType, RowGone
  <2> QED BY <1>1, <1>2, <2>2
<1>3. CASE a # n
  <2>1. /\ DOMAIN offers' = DOMAIN offers /\ offers'[id] = rest
        /\ \A j \in DOMAIN offers \ {id} : offers'[j] = offers[j]
    BY <1>3 DEF Reduced
  <2>2. rest \in Offer
    <3>1. offers[id] \in Offer /\ a - n \in Nat \ {0}
      BY <1>0, <1>3, TableType
    <3> QED BY <3>1 DEF Offer
  <2>3. rest.sale = offers[id].sale /\ rest.amount = a - n
    BY TableType DEF Offer
  <2>4. /\ GoldIn(rest) = (IF offers[id].sale THEN 0 ELSE Price * (a - n))
        /\ GoodsIn(rest) = (IF offers[id].sale THEN a - n ELSE 0)
    BY <2>3 DEF GoldIn, GoodsIn
  <2> HIDE DEF rest, a
  <2>5. /\ Total(GoldsIn(offers'), DOMAIN offers')
             = Total(GoldsIn(offers), DOMAIN offers) + (GoldIn(rest) - GoldIn(offers[id]))
        /\ Total(GoodsInRows(offers'), DOMAIN offers')
             = Total(GoodsInRows(offers), DOMAIN offers) + (GoodsIn(rest) - GoodsIn(offers[id]))
    BY <2>1, <2>2, TableType, RowReduced
  <2>6. Price * (a - n) = Price * a - Price * n /\ Price * a \in Int /\ Price * n \in Int
    BY <1>0
  <2>7. /\ GoldIn(rest) - GoldIn(offers[id]) = -(IF offers[id].sale THEN 0 ELSE Price * n)
        /\ GoodsIn(rest) - GoodsIn(offers[id]) = -(IF offers[id].sale THEN n ELSE 0)
    BY <1>0, <1>1, <2>4, <2>6
  <2>8. (IF offers[id].sale THEN 0 ELSE Price * n) \in Int
        /\ (IF offers[id].sale THEN n ELSE 0) \in Int
    BY <1>0, <2>6
  <2> QED BY <2>5, <2>7, <2>8, TableType
<1> QED BY <1>2, <1>3

LEMMA AcceptBooks ==
    ASSUME MarketInv, LimitedInbox = FALSE, NEW p \in Merchants, NEW id \in DOMAIN offers,
           NEW n \in 1..offers[id].amount, Accept(p, id, n)
    PROVE  Balanced
<1> DEFINE q == offers[id].owner
           sale == offers[id].sale
           gold == Price * n
           less == -gold
           out == -n
           none == 0
           taken == [row |-> id, sale |-> sale, amount |-> n]
<1>0. MarketTypeOK /\ claim = NoClaim
  BY NoneClaimed DEF MarketInv, Accept, Idle
<1>1. q \in Merchants /\ p # q /\ n \in Nat /\ gold \in Nat /\ less \in Int /\ out \in Int
  <2>1. n \in Nat /\ gold \in Nat
    BY <1>0, OfferType, Numbers
  <2>2. q \in Merchants /\ p # q
    BY <1>0, OfferType DEF Accept
  <2> HIDE DEF gold, q
  <2> QED BY <2>1, <2>2
<1>2. Delivered(n) = {n}
  BY DEF Delivered
<1>3. /\ live' = IF sale
                 THEN [live EXCEPT ![p] = Plus(@, less, n), ![q] = Plus(@, gold, none)]
                 ELSE [live EXCEPT ![p] = Plus(@, gold, out), ![q] = Plus(@, none, n)]
      /\ offers' = offers /\ claim' = taken
  BY <1>2 DEF Accept
<1>4. live' \in [Merchants -> Purse]
  BY AcceptFair DEF Fair
<1>5. /\ GoldIn(claim') = (IF sale THEN 0 ELSE gold) /\ GoodsIn(claim') = (IF sale THEN n ELSE 0)
      /\ GoldIn(claim) = 0 /\ GoodsIn(claim) = 0 /\ offers' = offers
  BY <1>0, <1>3, ClaimIn DEF GoldIn, GoodsIn
<1>6. less = -gold /\ out = -n /\ none = 0
  OBVIOUS
<1> HIDE DEF q, sale, gold, less, out, none, taken
<1>7. CASE sale
  <2>1. /\ live'[p] = Plus(live[p], less, n) /\ live'[q] = Plus(live[q], gold, none)
        /\ \A r \in Merchants : r # p /\ r # q => live'[r] = live[r]
    BY <1>1, <1>3, <1>7, <1>0, TableType
  <2>2. /\ Total(GoldsOf(live'), Merchants) = Total(GoldsOf(live), Merchants) + less + gold
        /\ Total(GoodsOf(live'), Merchants) = Total(GoodsOf(live), Merchants) + n + none
    <3>1. /\ live \in [Merchants -> Purse] /\ live' \in [Merchants -> Purse]
          /\ p \in Merchants /\ q \in Merchants /\ p # q
          /\ gold \in Int /\ n \in Int /\ less \in Int /\ out \in Int /\ none \in Int
      BY <1>1, <1>4, <1>6, <1>0, TableType
    <3> QED BY ONLY <2>1, <3>1, TwoPurses, SMTT(40)
  <2>3. Gold' = Gold /\ GoodsHeld' = GoodsHeld
    BY <1>1, <1>5, <1>6, <1>7, <2>2, <1>0, BooksAre, TableType
  <2> QED BY <2>3 DEF Balanced
<1>8. CASE ~sale
  <2>1. /\ live'[p] = Plus(live[p], gold, out) /\ live'[q] = Plus(live[q], none, n)
        /\ \A r \in Merchants : r # p /\ r # q => live'[r] = live[r]
    BY <1>1, <1>3, <1>8, <1>0, TableType
  <2>2. /\ Total(GoldsOf(live'), Merchants) = Total(GoldsOf(live), Merchants) + gold + none
        /\ Total(GoodsOf(live'), Merchants) = Total(GoodsOf(live), Merchants) + out + n
    <3>1. /\ live \in [Merchants -> Purse] /\ live' \in [Merchants -> Purse]
          /\ p \in Merchants /\ q \in Merchants /\ p # q
          /\ gold \in Int /\ n \in Int /\ less \in Int /\ out \in Int /\ none \in Int
      BY <1>1, <1>4, <1>6, <1>0, TableType
    <3> QED BY ONLY <2>1, <3>1, TwoPurses, SMTT(40)
  <2>3. Gold' = Gold /\ GoodsHeld' = GoodsHeld
    BY <1>1, <1>5, <1>6, <1>8, <2>2, <1>0, BooksAre, TableType
  <2> QED BY <2>3 DEF Balanced
<1> QED BY <1>7, <1>8

\* What comes off the row comes off the claim.
LEMMA ReduceBooks ==
    ASSUME MarketInv, ReduceOffer
    PROVE  Balanced
<1> DEFINE gold == GoldIn(claim)
           goods == GoodsIn(claim)
<1>1. /\ MarketTypeOK /\ claim.row \in DOMAIN offers /\ claim.sale = offers[claim.row].sale
      /\ claim.amount \in 1..offers[claim.row].amount
      /\ offers' = Reduced(claim.row, claim.amount) /\ claim' = NoClaim /\ live' = live
  BY DEF MarketInv, ClaimHolds, ReduceOffer
<1>2. /\ Total(GoldsIn(offers'), DOMAIN offers') = Total(GoldsIn(offers), DOMAIN offers) - gold
      /\ Total(GoodsInRows(offers'), DOMAIN offers')
           = Total(GoodsInRows(offers), DOMAIN offers) - goods
  <2>1. /\ gold = (IF offers[claim.row].sale THEN 0 ELSE Price * claim.amount)
        /\ goods = (IF offers[claim.row].sale THEN claim.amount ELSE 0)
    BY <1>1 DEF GoldIn, GoodsIn
  <2> HIDE DEF gold, goods
  <2> QED BY <1>1, <2>1, ReducedBooks
<1>3. gold \in Int /\ goods \in Int
  BY <1>1, TableType
<1>4. /\ Gold = Total(GoldsOf(live), Merchants) + Total(GoldsIn(offers), DOMAIN offers) - gold
      /\ GoodsHeld = Total(GoodsOf(live), Merchants) + Total(GoodsInRows(offers), DOMAIN offers)
                     - goods
      /\ Gold' = Total(GoldsOf(live), Merchants) + Total(GoldsIn(offers'), DOMAIN offers') - 0
      /\ GoodsHeld' = Total(GoodsOf(live), Merchants)
                      + Total(GoodsInRows(offers'), DOMAIN offers') - 0
  BY <1>1, BooksAre, ClaimIn
<1> HIDE DEF gold, goods
<1>5. Gold' = Gold /\ GoodsHeld' = GoodsHeld
  BY <1>1, <1>2, <1>3, <1>4, TableType
<1> QED BY <1>5 DEF Balanced

LEMMA SettleBooks ==
    ASSUME MarketInv, SameRows, LimitedInbox = FALSE, NEW row \in batch, Settle(row),
           unsaved = {}, unsaved' = {}, claim' = claim,
           row.id \in DOMAIN offers =>
              offers[row.id].amount = row.amount /\ presence[row.owner] # "dead"
    PROVE  Balanced
<1>0. MarketTypeOK
  BY DEF MarketInv
<1>1. CASE row.id \notin DOMAIN offers
  BY <1>0, <1>1 DEF Settle, Balanced, Gold, GoodsHeld
<1>2. CASE row.id \in DOMAIN offers
  <2> DEFINE id == row.id
             q == row.owner
             gold == GoldIn(offers[id])
             goods == GoodsIn(offers[id])
  <2>1. q \in Merchants /\ row.sale = offers[id].sale /\ row.amount = offers[id].amount
        /\ presence[q] # "dead"
    BY <1>0, <1>2 DEF MarketTypeOK, SameRows
  <2>2. Delivered(row.amount) = {row.amount}
    BY DEF Delivered
  <2>3. /\ offers' = Others(id)
        /\ IF row.sale THEN Credit(q, 0, row.amount) ELSE Credit(q, Price * row.amount, 0)
    BY <1>0, <1>2, <2>2 DEF Settle
  <2>4. Credit(q, gold, goods)
    BY <1>0, <2>1, <2>3 DEF GoldIn, GoodsIn
  <2>5. gold \in Int /\ goods \in Int
    BY <1>0, <1>2, TableType, InOffer
  <2>6. live' = [live EXCEPT ![q] = Plus(@, gold, goods)]
    BY <1>0, <2>1, <2>4 DEF Credit
  <2>7. live'[q] = Plus(live[q], gold, goods) /\ \A r \in Merchants \ {q} : live'[r] = live[r]
    BY <1>0, <2>1, <2>6, TableType
  <2>8. live' \in [Merchants -> Purse]
    BY SettleFair DEF Fair
  <2>9. /\ Total(GoldsIn(offers'), DOMAIN offers') = Total(GoldsIn(offers), DOMAIN offers) - gold
        /\ Total(GoodsInRows(offers'), DOMAIN offers')
             = Total(GoodsInRows(offers), DOMAIN offers) - goods
    BY <1>0, <1>2, <2>3, TableType, RowGone DEF Others
  <2> HIDE DEF id, q, gold, goods
  <2>10. /\ Total(GoldsOf(live'), Merchants) = Total(GoldsOf(live), Merchants) + gold
         /\ Total(GoodsOf(live'), Merchants) = Total(GoodsOf(live), Merchants) + goods
    BY <1>0, <2>1, <2>5, <2>7, <2>8, TableType, OnePurse
  <2>11. Gold' = Gold /\ GoodsHeld' = GoodsHeld
    BY <1>0, <2>5, <2>9, <2>10, BooksAre, TableType
  <2> QED BY <1>0, <2>11 DEF Balanced
<1> QED BY <1>1, <1>2

\* What a step does to the books.
Booked ==
    presence' = presence /\ ~Crash =>
       \/ UNCHANGED <<live, offers, nextOffer, claim>>
       \/ Stale
       \/ /\ GoodsHeld' = GoodsHeld
          /\ \/ nextOffer' = nextOffer /\ Gold' = Gold
             \/ nextOffer' # nextOffer
                /\ Gold - Gold' \in fees(Price * offers'[nextOffer].amount)

LEMMA BalancedIsBooked == Balanced /\ nextOffer' = nextOffer => Booked
BY DEF Balanced, Booked

LEMMA StepBooked ==
    ASSUME RowsInv, LimitedInbox = FALSE, [MarketNext]_marketVars
    PROVE  Booked
<1>1. MarketInv /\ MarketTypeOK /\ SameRows
  BY DEF RowsInv, MarketInv
<1>2. CASE UNCHANGED marketVars
  <2>1. UNCHANGED <<live, offers, nextOffer, claim>>
    BY <1>2 DEF marketVars
  <2> QED BY <2>1, BalancedIsBooked DEF Balanced, Gold, GoodsHeld
<1>3. ASSUME NEW p \in Merchants, NEW sale \in BOOLEAN, NEW n \in Amounts,
             NEW fee \in fees(Price * n), Create(p, sale, n, fee)
      PROVE  Booked
  BY <1>1, <1>3, CreateBooks DEF Booked
<1>4. ASSUME NEW p \in Merchants, NEW id \in DOMAIN offers, Cancel(p, id)
      PROVE  Booked
  BY <1>1, <1>4, CancelBooks, BalancedIsBooked DEF Cancel
<1>5. ASSUME NEW p \in Merchants, NEW id \in DOMAIN offers, NEW n \in 1..offers[id].amount,
             Accept(p, id, n)
      PROVE  Booked
  BY <1>1, <1>5, AcceptBooks, BalancedIsBooked DEF Accept
<1>6. ASSUME NEW p \in Merchants, Enter(p) \/ Leave(p) \/ Die(p) \/ Respawn(p) \/ LeaveDead(p)
      PROVE  Booked
  <2>1. PICK from \in {"online", "dead", "offline"}, to \in {"online", "dead", "offline"} :
           Appears(p, from, to) /\ from # to
    BY <1>6 DEF Enter, Leave, Die, Respawn, LeaveDead
  <2>2. presence' # presence
    BY <1>1, <2>1 DEF Appears, MarketTypeOK
  <2> QED BY <2>2 DEF Booked
<1>7. ASSUME NEW k \in DOMAIN offers, checkExpiredOffers(k) PROVE Booked
  <2>1. UNCHANGED <<live, offers, nextOffer, claim>>
    BY <1>7 DEF checkExpiredOffers
  <2> QED BY <2>1, BalancedIsBooked DEF Balanced, Gold, GoodsHeld
<1>8. CASE processExpiredOffers
  <2>1. PICK row \in batch : /\ Settle(row) /\ batch' = batch \ {row}
                              /\ UNCHANGED <<nextOffer, unsaved, claim>> /\ unsaved = {}
    BY <1>8 DEF processExpiredOffers
  <2>2. CASE row.id \in DOMAIN offers =>
                offers[row.id].amount = row.amount /\ presence[row.owner] # "dead"
    BY <1>1, <2>1, <2>2, SettleBooks, BalancedIsBooked
  <2>3. CASE row.id \in DOMAIN offers
             /\ (offers[row.id].amount # row.amount \/ presence[row.owner] = "dead")
    <3>1. row \in batch \ batch'
      BY <2>1
    <3> QED BY <2>3, <3>1 DEF Stale, Booked
  <2> QED BY <2>2, <2>3
<1>9. CASE SaveAll
  <2>1. UNCHANGED <<live, offers, nextOffer, claim>>
    BY <1>9 DEF SaveAll, Store
  <2> QED BY <2>1, BalancedIsBooked DEF Balanced, Gold, GoodsHeld
<1>10. CASE Crash
  BY <1>10 DEF Booked
<1>11. CASE ReduceOffer
  BY <1>1, <1>11, ReduceBooks, BalancedIsBooked DEF ReduceOffer
<1>12. CASE FinishRequest
  <2>1. UNCHANGED <<live, offers, nextOffer, claim>>
    BY <1>12 DEF FinishRequest, Store
  <2> QED BY <2>1, BalancedIsBooked DEF Balanced, Gold, GoodsHeld
<1> QED BY <1>2, <1>3, <1>4, <1>5, <1>6, <1>7, <1>8, <1>9, <1>10, <1>11, <1>12 DEF MarketNext

-----------------------------------------------------------------------------
(* The rows at every step                                                   *)

LEMMA RowsInitially == MarketInit => RowsInv
<1> SUFFICES ASSUME MarketInit PROVE RowsInv
  OBVIOUS
<1>1. batch = {}
  BY DEF MarketInit
<1> QED BY <1>1, MarketInitInv DEF RowsInv, SameRows

\* A table whose rows keep what they sell, and a batch that gets no new rows.
LEMMA RowsSame ==
    ASSUME SameRows, batch' \subseteq batch,
           \A row \in batch' : row.id \in DOMAIN offers' =>
              row.id \in DOMAIN offers /\ offers'[row.id].sale = offers[row.id].sale
    PROVE  SameRows'
BY DEF SameRows

LEMMA RowsKeptSale ==
    ASSUME MarketTypeOK, NEW id \in DOMAIN offers
    PROVE  /\ \A j \in DOMAIN Others(id) : j \in DOMAIN offers /\ Others(id)[j] = offers[j]
           /\ \A n \in 1..offers[id].amount : \A j \in DOMAIN Reduced(id, n) :
                 j \in DOMAIN offers /\ Reduced(id, n)[j].sale = offers[j].sale
<1>1. \A j \in DOMAIN Others(id) : j \in DOMAIN offers /\ Others(id)[j] = offers[j]
  BY DEF Others
<1>2. ASSUME NEW n \in 1..offers[id].amount, NEW j \in DOMAIN Reduced(id, n)
      PROVE  j \in DOMAIN offers /\ Reduced(id, n)[j].sale = offers[j].sale
  <2>1. CASE offers[id].amount = n
    BY <1>1, <1>2, <2>1 DEF Reduced
  <2>2. CASE offers[id].amount # n
    <3>1. Reduced(id, n) = [offers EXCEPT ![id].amount = @ - n]
      BY <2>2 DEF Reduced
    <3>2. j \in DOMAIN offers /\ Reduced(id, n)[j]
            = IF j = id THEN [offers[id] EXCEPT !.amount = @ - n] ELSE offers[j]
      BY <1>2, <3>1
    <3>3. [offers[id] EXCEPT !.amount = @ - n].sale = offers[id].sale
      BY TableType DEF Offer
    <3> QED BY <3>2, <3>3
  <2> QED BY <2>1, <2>2
<1> QED BY <1>1, <1>2

LEMMA RequestRows ==
    ASSUME RowsInv, NEW p \in Merchants,
           \/ \E sale \in BOOLEAN, n \in Amounts : \E fee \in fees(Price * n) : Create(p, sale, n, fee)
           \/ \E id \in DOMAIN offers : Cancel(p, id) \/ \E n \in 1..offers[id].amount : Accept(p, id, n)
    PROVE  SameRows'
<1>1. MarketTypeOK /\ SameRows
  BY DEF RowsInv, MarketInv
<1>2. ASSUME NEW sale \in BOOLEAN, NEW n \in Amounts, NEW fee \in fees(Price * n),
             Create(p, sale, n, fee)
      PROVE  SameRows'
  <2>1. batch' = batch
    BY <1>2 DEF Create
  <2>2. ASSUME NEW row \in batch', row.id \in DOMAIN offers'
        PROVE  row.id \in DOMAIN offers /\ offers'[row.id].sale = offers[row.id].sale
    <3>1. row.id # nextOffer
      BY <1>1, <2>1 DEF MarketTypeOK
    <3> QED BY <1>2, <2>2, <3>1 DEF Create
  <2> QED BY <1>1, <2>1, <2>2, RowsSame
<1>3. ASSUME NEW id \in DOMAIN offers, Cancel(p, id)
      PROVE  SameRows'
  <2>1. batch' = batch /\ offers' = Others(id)
    BY <1>3 DEF Cancel
  <2> QED BY <1>1, <2>1, RowsKeptSale, RowsSame
<1>4. ASSUME NEW id \in DOMAIN offers, NEW n \in 1..offers[id].amount, Accept(p, id, n)
      PROVE  SameRows'
  BY <1>1, <1>4 DEF Accept, SameRows
<1> QED BY <1>2, <1>3, <1>4

LEMMA RestRows ==
    ASSUME RowsInv, ReduceOffer \/ FinishRequest \/ SaveAll \/ Crash
    PROVE  SameRows'
<1>1. MarketTypeOK /\ SameRows /\ ClaimHolds
  BY DEF RowsInv, MarketInv
<1>2. CASE ReduceOffer
  <2>1. /\ batch' = batch /\ offers' = Reduced(claim.row, claim.amount)
        /\ claim.row \in DOMAIN offers /\ claim.amount \in 1..offers[claim.row].amount
    BY <1>1, <1>2 DEF ReduceOffer, ClaimHolds
  <2> QED BY <1>1, <2>1, RowsKeptSale, RowsSame
<1>3. CASE FinishRequest \/ SaveAll
  BY <1>1, <1>3 DEF FinishRequest, SaveAll, SameRows
<1>4. CASE Crash
  BY <1>4 DEF Crash, SameRows
<1> QED BY <1>2, <1>3, <1>4

LEMMA ExpiryRows ==
    ASSUME RowsInv, processExpiredOffers \/ \E k \in DOMAIN offers : checkExpiredOffers(k)
    PROVE  SameRows'
<1>1. MarketTypeOK /\ SameRows
  BY DEF RowsInv, MarketInv
<1>2. ASSUME NEW k \in DOMAIN offers, checkExpiredOffers(k)
      PROVE  SameRows'
  <2>1. offers' = offers
    BY <1>2 DEF checkExpiredOffers
  <2>2. \A row \in batch' : row.sale = offers[row.id].sale
    BY <1>2 DEF checkExpiredOffers
  <2> QED BY <1>1, <2>1, <2>2 DEF SameRows
<1>3. CASE processExpiredOffers
  <2>1. PICK row \in batch : Settle(row) /\ batch' = batch \ {row}
    BY <1>3 DEF processExpiredOffers
  <2>2. offers' = offers \/ (row.id \in DOMAIN offers /\ offers' = Others(row.id))
    BY <2>1 DEF Settle
  <2> QED BY <1>1, <2>1, <2>2, RowsKeptSale, RowsSame
<1> QED BY <1>2, <1>3

LEMMA ComeAndGoRows ==
    ASSUME RowsInv, NEW p \in Merchants,
           Enter(p) \/ Leave(p) \/ Die(p) \/ Respawn(p) \/ LeaveDead(p)
    PROVE  SameRows'
<1>1. offers' = offers /\ batch' = batch
  BY DEF Enter, Leave, Die, Respawn, LeaveDead, Appears
<1> QED BY <1>1 DEF RowsInv, SameRows

LEMMA RowsStep == RowsInv /\ [MarketNext]_marketVars => RowsInv'
<1> SUFFICES ASSUME RowsInv, [MarketNext]_marketVars PROVE RowsInv'
  OBVIOUS
<1>1. MarketInv'
  BY MarketStep DEF RowsInv
<1>2. CASE UNCHANGED marketVars
  BY <1>1, <1>2 DEF marketVars, RowsInv, SameRows
<1>3. CASE MarketNext
  BY <1>1, <1>3, RequestRows, RestRows, ExpiryRows, ComeAndGoRows DEF MarketNext, RowsInv
<1> QED BY <1>2, <1>3

\* Whoever creates, cancels or accepts offers, comes, goes or dies, and however late
\* expired offers are settled: gold and goods are not made and not lost,
\* but for the fees and for rows that were settled stale (MarketBooks), for any
\* merchants, amounts and numbers of offers.
THEOREM BooksBalance ==
    ASSUME LimitedInbox = FALSE
    PROVE  MarketSpec => MarketBooks
<1>1. RowsInv /\ [MarketNext]_marketVars => RowsInv'
  BY RowsStep
<1>2. MarketSpec => []RowsInv
  BY <1>1, RowsInitially, PTL DEF MarketSpec
<1>3. RowsInv /\ [MarketNext]_marketVars =>
        [presence' = presence /\ ~Crash =>
           \/ UNCHANGED <<live, offers, nextOffer, claim>>
           \/ Stale
           \/ /\ GoodsHeld' = GoodsHeld
              /\ \/ nextOffer' = nextOffer /\ Gold' = Gold
                 \/ nextOffer' # nextOffer
                    /\ Gold - Gold' \in fees(Price * offers'[nextOffer].amount)]_marketVars
  BY StepBooked DEF Booked
<1> QED BY <1>2, <1>3, PTL DEF MarketSpec, MarketBooks

-----------------------------------------------------------------------------
(* HouseAuction.                                                           *)

HouseType ==
    [state : {"available", "rented", "transfer", "moveOut"},
     owner : Citizens \cup {Vacant}, bidder : Citizens \cup {Vacant},
     highestBid : Nat, internalBid : Nat, bidHolderLimit : Nat,
     transferStatus : BOOLEAN]

\* What BidsAreBacked says of the fields of one house.
Backed(f) ==
    /\ f \in HouseType
    /\ f.bidder = Vacant => f.internalBid = 0 /\ f.state # "transfer"
    /\ f.bidder # Vacant /\ f.state # "transfer" =>
          f.internalBid > 0 /\ f.highestBid <= f.internalBid /\ f.bidHolderLimit = f.internalBid
    /\ f.state = "available" => f.owner = Vacant

\* The mark of a buyer who has accepted.  While the houses are loaded, the row of
\* a house in transfer says no more of it than the house.
Marked(h, f) ==
    /\ f.transferStatus => f.state = "transfer" \/ h \in paidFor
    /\ toLoad # {} /\ h \in paidFor /\ f.state = "transfer" => f.transferStatus

\* Who has bid for two houses.
Twice(f, g) ==
    f.bidder = g.bidder /\ f.bidder # Vacant /\ f.state # "transfer" /\ g.state # "transfer"

BooksInv ==
    /\ balance \in [Citizens -> Nat] /\ house \in [Estates -> HouseType]
    /\ toLoad \subseteq Estates /\ toPay \subseteq Estates /\ paidFor \subseteq Estates
    /\ \A h \in Estates : Backed(house[h]) /\ Marked(h, house[h])
    /\ \A g \in Estates : \A h \in Estates \ {g} : ~Twice(house[g], house[h])

LEMMA BooksInvBacks == BooksInv => BidsAreBacked
<1> SUFFICES ASSUME BooksInv PROVE BidsAreBacked
  OBVIOUS
<1>1. AuctionTypeOK
  BY DEF BooksInv, AuctionTypeOK, HouseType
<1>2. ASSUME NEW h \in Estates, NEW g \in Estates \ {h}, house[g].bidder = house[h].bidder,
             "transfer" \notin {house[h].state, house[g].state}
      PROVE  house[h].bidder = Vacant
  BY <1>2 DEF BooksInv, Twice
<1> QED BY <1>1, <1>2 DEF BooksInv, BidsAreBacked, Backed, Marked

LEMMA AuctionInitInv == AuctionInit => BooksInv
<1> SUFFICES ASSUME AuctionInit PROVE BooksInv
  OBVIOUS
<1>1. balance \in [Citizens -> Nat]
  BY AuctionAssumption DEF AuctionInit, AuctionAssumption
<1>2. house \in [Estates -> HouseType]
  BY DEF AuctionInit, HouseType
<1>3. \A h \in Estates : Backed(house[h]) /\ Marked(h, house[h])
  BY <1>2 DEF AuctionInit, Backed, Marked, HouseType
<1>4. \A g \in Estates : \A h \in Estates \ {g} : ~Twice(house[g], house[h])
  BY DEF AuctionInit, Twice
<1> QED BY <1>1, <1>2, <1>3, <1>4 DEF AuctionInit, BooksInv

\* What may follow as house h without a second bid of its bidder.
Alone(h, f) ==
    \/ f.bidder = Vacant \/ f.state = "transfer"
    \/ f.bidder = house[h].bidder /\ house[h].state # "transfer"
    \/ \A k \in Estates : house[k].bidder # f.bidder

\* What a step does to who is loaded, and to the marks of all houses but one.
Goes(h) ==
    /\ balance' \in [Citizens -> Nat] /\ toLoad' \subseteq Estates /\ toPay' \subseteq Estates
    /\ toLoad' # {} => toLoad # {}
    /\ paidFor' = paidFor \/ paidFor' = paidFor \cup {h}

Follows(h, f) ==
    /\ Backed(f) /\ Alone(h, f)
    /\ f.transferStatus => f.state = "transfer" \/ h \in paidFor'
    /\ toLoad' # {} /\ h \in paidFor' /\ f.state = "transfer" => f.transferStatus

\* A step that gives one house new fields.
LEMMA OneHouse ==
    ASSUME BooksInv, NEW h \in Estates, NEW f, Becomes(h, f), Follows(h, f), Goes(h)
    PROVE  BooksInv'
<1>1. f \in HouseType
  BY DEF Follows, Backed
<1>2. house' = [house EXCEPT ![h] = f] /\ house \in [Estates -> HouseType]
  BY DEF Becomes, BooksInv
<1>3. house' \in [Estates -> HouseType] /\ paidFor' \subseteq Estates
  BY <1>1, <1>2 DEF Goes, BooksInv
<1>4. \A k \in Estates : house'[k] = IF k = h THEN f ELSE house[k]
  BY <1>2
<1>5. ASSUME NEW k \in Estates PROVE (Backed(house[k]) /\ Marked(k, house[k]))'
  <2>1. Backed(house[k]) /\ Marked(k, house[k])
    BY DEF BooksInv
  <2>2. CASE k = h
    <3>1. house'[k] = f
      BY <1>4, <2>2
    <3> QED BY <2>2, <3>1 DEF Follows, Marked, Backed
  <2>3. CASE k # h
    <3>1. house'[k] = house[k] /\ (k \in paidFor' <=> k \in paidFor)
      BY <1>4, <2>3 DEF Goes
    <3> QED BY <2>1, <3>1 DEF Marked, Backed, Goes
  <2> QED BY <2>2, <2>3
<1>6. ASSUME NEW g \in Estates, NEW k \in Estates \ {g} PROVE ~Twice(house[g], house[k])'
  <2>1. ~Twice(house[g], house[k])
    BY DEF BooksInv
  <2>2. \A i \in Estates \ {h} : ~Twice(house[h], house[i]) /\ ~Twice(house[i], house[h])
    BY DEF BooksInv
  <2>3. CASE g # h /\ k # h
    BY <1>4, <2>1, <2>3 DEF Twice
  <2>4. ASSUME NEW i \in Estates \ {h} PROVE ~Twice(f, house[i]) /\ ~Twice(house[i], f)
    BY <2>2 DEF Twice, Follows, Alone
  <2>5. CASE g = h
    <3>1. house'[g] = f /\ house'[k] = house[k] /\ k \in Estates \ {h}
      BY <1>4, <2>5
    <3> QED BY <2>4, <3>1 DEF Twice
  <2>6. CASE k = h
    <3>1. house'[k] = f /\ house'[g] = house[g] /\ g \in Estates \ {h}
      BY <1>4, <2>6
    <3> QED BY <2>4, <3>1 DEF Twice
  <2> QED BY <2>3, <2>5, <2>6
<1>7. (\A g \in Estates : \A k \in Estates \ {g} : ~Twice(house[g], house[k]))'
  BY <1>6
<1> QED BY <1>3, <1>5, <1>7 DEF BooksInv, Goes

LEMMA SameHouses ==
    ASSUME BooksInv, UNCHANGED <<house, paidFor>>, balance' \in [Citizens -> Nat],
           toLoad' \subseteq Estates, toPay' \subseteq Estates, toLoad' # {} => toLoad # {}
    PROVE  BooksInv'
BY DEF BooksInv, Backed, Marked, Twice

\* Money in and out of the bank.
LEMMA PaysType ==
    ASSUME BooksInv, NEW c \in Citizens, NEW gold \in Nat, Pays(c, gold)
    PROVE  balance' \in [Citizens -> Nat]
BY DEF Pays, BooksInv

LEMMA RefundType ==
    ASSUME BooksInv, NEW c \in Citizens \cup {Vacant}, NEW gold \in Nat, Refund(c, gold)
    PROVE  balance' \in [Citizens -> Nat]
BY DEF Refund, BooksInv

LEMMA FieldTypes ==
    ASSUME BooksInv, NEW h \in Estates
    PROVE  /\ Backed(house[h]) /\ house[h] \in HouseType /\ Marked(h, house[h])
           /\ house[h].state \in {"available", "rented", "transfer", "moveOut"}
           /\ house[h].owner \in Citizens \cup {Vacant}
           /\ house[h].bidder \in Citizens \cup {Vacant}
           /\ house[h].highestBid \in Nat /\ house[h].internalBid \in Nat
           /\ house[h].bidHolderLimit \in Nat /\ house[h].transferStatus \in BOOLEAN
           /\ toLoad \subseteq Estates /\ toPay \subseteq Estates
           /\ balance \in [Citizens -> Nat]
           /\ Rent \in Nat /\ Bids \subseteq Nat \ {0} /\ Prices \subseteq Nat
           /\ Vacant \notin Citizens
BY AuctionAssumption DEF AuctionAssumption, BooksInv, Backed, HouseType

\* A step between two starts leaves the marks of the rows.
LEMMA GoesOpen ==
    ASSUME BooksInv, NEW h \in Estates, Open, UNCHANGED startVars,
           balance' \in [Citizens -> Nat]
    PROVE  Goes(h) /\ toLoad' = {} /\ paidFor' = paidFor
BY FieldTypes DEF Goes, Open, startVars

LEMMA BidKeeps ==
    ASSUME BooksInv, NEW c \in Citizens, NEW h \in Estates, NEW bid \in Bids, Bid(c, h, bid)
    PROVE  BooksInv'
<1> DEFINE f == house[h]
<1>1. f \in HouseType /\ Backed(f) /\ Marked(h, f)
  BY FieldTypes
<1>2. bid \in Nat \ {0} /\ Rent \in Nat /\ c # Vacant
  BY FieldTypes
<1>3. f.bidder # c /\ Open /\ UNCHANGED startVars /\ \A k \in Estates : house[k].bidder # c
  BY DEF Bid
<1>a. toLoad' = {} /\ paidFor' = paidFor
  BY <1>3 DEF Open, startVars
<1>4. CASE FirstBid(c, h, bid)
  <2> DEFINE e == [f EXCEPT !.bidder = c, !.highestBid = 0, !.internalBid = bid,
                            !.bidHolderLimit = bid]
  <2>1. balance' \in [Citizens -> Nat]
    BY <1>2, <1>4, PaysType DEF FirstBid
  <2>2. Follows(h, e)
    <3>1. /\ e \in HouseType
          /\ e.state = f.state /\ e.owner = f.owner
          /\ e.bidder = c /\ e.highestBid = 0
          /\ e.internalBid = bid /\ e.bidHolderLimit = bid
          /\ e.transferStatus = f.transferStatus
      BY <1>1, <1>2 DEF HouseType
    <3> HIDE DEF e
    <3>2. Backed(e)
      BY <3>1, <1>1, <1>2 DEF Backed
    <3>3. Alone(h, e)
      BY <3>1, <1>3 DEF Alone
    <3> QED BY <3>1, <3>2, <3>3, <1>1, <1>a DEF Follows, Marked
  <2> QED BY <1>3, <1>4, <2>1, <2>2, OneHouse, GoesOpen DEF FirstBid
<1>5. CASE LowerBid(h, bid)
  <2> DEFINE e == [f EXCEPT !.highestBid = bid]
  <2>2. Follows(h, e)
    <3>1. /\ e \in HouseType
          /\ e.state = f.state /\ e.owner = f.owner
          /\ e.bidder = f.bidder /\ e.highestBid = bid
          /\ e.internalBid = f.internalBid /\ e.bidHolderLimit = f.bidHolderLimit
          /\ e.transferStatus = f.transferStatus
      BY <1>1, <1>2 DEF HouseType
    <3> HIDE DEF e
    <3>2. Backed(e)
      BY <3>1, <1>1, <1>5 DEF Backed, LowerBid
    <3>3. Alone(h, e)
      BY <3>1 DEF Alone
    <3> QED BY <3>1, <3>2, <3>3, <1>1, <1>a DEF Follows, Marked
  <2> QED BY <1>3, <1>5, <2>2, OneHouse, GoesOpen, FieldTypes DEF LowerBid
<1>6. CASE Outbid(c, h, bid)
  <2> DEFINE e == [f EXCEPT !.bidder = c, !.highestBid = f.internalBid + 1,
                            !.internalBid = bid, !.bidHolderLimit = bid]
  <2>1. balance' \in [Citizens -> Nat]
    <3>1. f.bidder \in Citizens /\ f.bidHolderLimit + Rent \in Nat
      BY <1>1, <1>2, <1>6, FieldTypes DEF Outbid
    <3>2. balance[c] >= Rent + bid /\ balance \in [Citizens -> Nat]
      BY <1>6, FieldTypes DEF Outbid
    <3>3. balance' = [balance EXCEPT ![c] = @ - (Rent + bid),
                                     ![f.bidder] = @ + f.bidHolderLimit + Rent]
      BY <1>6 DEF Outbid
    <3>4. /\ f.bidHolderLimit \in Nat /\ balance[f.bidder] \in Nat /\ balance[c] \in Nat
          /\ bid \in Nat /\ Rent \in Nat
      BY <1>2, <3>1, <3>2, FieldTypes
    <3>5. /\ balance[c] - (Rent + bid) \in Nat
          /\ balance[f.bidder] + f.bidHolderLimit + Rent \in Nat
      BY <3>2, <3>4
    <3>6. ASSUME NEW x \in Citizens PROVE balance'[x] \in Nat
      <4>1. CASE x = c
        BY <1>3, <3>1, <3>2, <3>3, <3>5, <4>1
      <4>2. CASE x = f.bidder
        BY <1>3, <3>1, <3>2, <3>3, <3>5, <4>2
      <4>3. CASE x # c /\ x # f.bidder
        BY <3>1, <3>2, <3>3, <4>3
      <4> QED BY <4>1, <4>2, <4>3
    <3>7. balance' = [x \in Citizens |-> balance'[x]]
      BY <3>2, <3>3
    <3> QED BY <3>6, <3>7
  <2>2. Follows(h, e)
    <3>1. /\ e \in HouseType
          /\ e.state = f.state /\ e.owner = f.owner
          /\ e.bidder = c /\ e.highestBid = f.internalBid + 1
          /\ e.internalBid = bid /\ e.bidHolderLimit = bid
          /\ e.transferStatus = f.transferStatus
      <4> DEFINE n == f.internalBid + 1
      <4>1. n \in Nat /\ bid \in Nat /\ c \in Citizens \cup {Vacant}
        BY <1>2, FieldTypes
      <4> HIDE DEF n
      <4>2. [f EXCEPT !.bidder = c, !.highestBid = n, !.internalBid = bid,
                      !.bidHolderLimit = bid] \in HouseType
        BY <1>1, <4>1 DEF HouseType
      <4> QED BY <1>1, <4>2 DEF n, HouseType
    <3> HIDE DEF e
    <3>2. Backed(e)
      BY <3>1, <1>1, <1>2, <1>6, FieldTypes DEF Backed, Outbid
    <3>3. Alone(h, e)
      BY <3>1, <1>3 DEF Alone
    <3> QED BY <3>1, <3>2, <3>3, <1>1, <1>a DEF Follows, Marked
  <2> QED BY <1>3, <1>6, <2>1, <2>2, OneHouse, GoesOpen DEF Outbid
<1> QED BY <1>4, <1>5, <1>6 DEF Bid

LEMMA OwnerKeeps ==
    ASSUME BooksInv, NEW c \in Citizens, NEW h \in Estates,
           MoveOut(c, h) \/ CancelMoveOut(c, h) \/ AcceptTransfer(c, h) \/ EndTransfer(c, h)
    PROVE  BooksInv'
<1> DEFINE f == house[h]
<1>1. f \in HouseType /\ Backed(f) /\ Marked(h, f)
  BY FieldTypes
<1>o. Open /\ UNCHANGED startVars
  BY DEF MoveOut, CancelMoveOut, AcceptTransfer, EndTransfer
<1>a. toLoad' = {} /\ paidFor' = paidFor
  BY <1>o DEF Open, startVars
<1>2. ASSUME NEW s \in {"moveOut", "rented"}, Becomes(h, [f EXCEPT !.state = s]),
             f.state \in {"moveOut", "rented"}, UNCHANGED balance
      PROVE  BooksInv'
  <2> DEFINE e == [f EXCEPT !.state = s]
  <2>1. Follows(h, e)
    <3>1. /\ e \in HouseType
          /\ e.state = s /\ e.owner = f.owner
          /\ e.bidder = f.bidder /\ e.highestBid = f.highestBid
          /\ e.internalBid = f.internalBid /\ e.bidHolderLimit = f.bidHolderLimit
          /\ e.transferStatus = f.transferStatus
      BY <1>1 DEF HouseType
    <3> HIDE DEF e
    <3>2. Backed(e)
      BY <3>1, <1>1, <1>2 DEF Backed
    <3>3. Alone(h, e)
      BY <3>1, <1>2 DEF Alone
    <3> QED BY <3>1, <3>2, <3>3, <1>1, <1>2, <1>a DEF Follows, Marked
  <2> QED BY <1>o, <1>2, <2>1, OneHouse, GoesOpen, FieldTypes
<1>4. CASE AcceptTransfer(c, h)
  <2> DEFINE e == [f EXCEPT !.transferStatus = TRUE]
  <2>1. Follows(h, e)
    <3>1. /\ e \in HouseType
          /\ e.state = f.state /\ e.owner = f.owner
          /\ e.bidder = f.bidder /\ e.highestBid = f.highestBid
          /\ e.internalBid = f.internalBid /\ e.bidHolderLimit = f.bidHolderLimit
          /\ e.transferStatus = TRUE
      BY <1>1 DEF HouseType
    <3> HIDE DEF e
    <3>2. Backed(e)
      BY <3>1, <1>1, <1>4 DEF Backed
    <3>3. Alone(h, e) /\ f.state = "transfer"
      BY <3>1, <1>4 DEF Alone, AcceptTransfer
    <3> QED BY <3>1, <3>2, <3>3, <1>1, <1>a DEF Follows
  <2>2. balance' \in [Citizens -> Nat]
    <3>1. Rent + f.internalBid \in Nat
      BY FieldTypes
    <3> QED BY <1>4, <3>1, PaysType DEF AcceptTransfer
  <2> QED BY <1>4, <1>o, <2>1, <2>2, OneHouse, GoesOpen DEF AcceptTransfer
<1>5. CASE EndTransfer(c, h)
  <2> DEFINE e == [NoBuyer(f) EXCEPT !.state = "rented", !.transferStatus = FALSE]
  <2>1. Follows(h, e)
    <3>1. /\ e \in HouseType
          /\ e.state = "rented" /\ e.owner = f.owner
          /\ e.bidder = Vacant /\ e.highestBid = f.highestBid
          /\ e.internalBid = 0 /\ e.bidHolderLimit = f.bidHolderLimit
          /\ e.transferStatus = FALSE
      BY <1>1 DEF HouseType, NoBuyer
    <3> HIDE DEF e
    <3> QED BY <3>1, <1>a DEF Follows, Backed, Alone
  <2>2. balance' \in [Citizens -> Nat]
    <3>1. f.bidder \in Citizens /\ f.internalBid + Rent \in Nat
      BY <1>1, <1>5, FieldTypes DEF EndTransfer, Backed
    <3>2. balance' = IF f.transferStatus
                     THEN [balance EXCEPT ![f.bidder] = @ + f.internalBid + Rent] ELSE balance
      BY <1>5 DEF EndTransfer, TransferEnds
    <3>3. balance \in [Citizens -> Nat] /\ f.internalBid \in Nat /\ Rent \in Nat
      BY FieldTypes
    <3> HIDE DEF f
    <3> QED BY <3>1, <3>2, <3>3
  <2>3. Becomes(h, e)
    BY <1>5 DEF EndTransfer, TransferEnds
  <2> QED BY <1>o, <2>1, <2>2, <2>3, OneHouse, GoesOpen
<1> QED BY <1>2, <1>4, <1>5 DEF MoveOut, CancelMoveOut

LEMMA TransferKeeps ==
    ASSUME BooksInv, NEW c \in Citizens, NEW d \in Citizens, NEW h \in Estates,
           NEW price \in Prices, Transfer(c, d, h, price)
    PROVE  BooksInv'
<1> DEFINE f == house[h]
           e == [f EXCEPT !.state = "transfer", !.bidder = d, !.internalBid = price]
<1>1. f \in HouseType /\ Backed(f) /\ Marked(h, f) /\ price \in Nat /\ d # Vacant
  BY FieldTypes
<1>2. f.state = "rented" /\ Open /\ UNCHANGED startVars /\ UNCHANGED balance
  BY DEF Transfer
<1>3. toLoad' = {} /\ paidFor' = paidFor
  BY <1>2 DEF Open, startVars
<1>4. Follows(h, e)
  <2>1. /\ e \in HouseType
        /\ e.state = "transfer" /\ e.owner = f.owner
        /\ e.bidder = d /\ e.internalBid = price
        /\ e.transferStatus = f.transferStatus
    BY <1>1 DEF HouseType
  <2> HIDE DEF e
  <2> QED BY <2>1, <1>1, <1>3 DEF Follows, Backed, Alone
<1> QED BY <1>2, <1>4, OneHouse, GoesOpen, FieldTypes DEF Transfer

\* What the next start does.
LEMMA LoadKeeps ==
    ASSUME BooksInv, NEW h \in Estates, loadHouseInfo(h)
    PROVE  BooksInv'
<1> DEFINE f == house[h]
           Read(g) == [g EXCEPT !.bidHolderLimit = g.internalBid]
<1>1. f \in HouseType /\ Backed(f) /\ Marked(h, f)
  BY FieldTypes
<1>2. toLoad' \subseteq Estates /\ toPay' \subseteq Estates /\ toLoad # {}
  BY FieldTypes DEF loadHouseInfo
<1>3. CASE SettleBid(h)
  <2> DEFINE e == Read(Owned(NoBid(f), f.bidder))
  <2>1. Follows(h, e)
    <3>1. /\ e \in HouseType
          /\ e.state = "rented" /\ e.owner = f.bidder
          /\ e.bidder = Vacant /\ e.highestBid = 0
          /\ e.internalBid = 0 /\ e.bidHolderLimit = 0
          /\ e.transferStatus = f.transferStatus
      BY <1>1, <1>3 DEF HouseType, SettleBid, Won, Owned, NoBid, NoBuyer
    <3> HIDE DEF e
    <3>2. paidFor' = paidFor /\ f.state = "available"
      BY <1>3 DEF SettleBid, Won
    <3> QED BY <3>1, <3>2, <1>1 DEF Follows, Backed, Alone, Marked
  <2>2. Change(h) \in Nat
    BY <1>1, <1>3, FieldTypes DEF Change, Backed, SettleBid, Won
  <2>3. balance' \in [Citizens -> Nat]
    BY <1>3, <2>2, RefundType, FieldTypes DEF SettleBid
  <2> QED BY <1>2, <1>3, <2>1, <2>3, OneHouse DEF SettleBid, Loaded, Goes
<1>4. CASE SettleTransfer(h) /\ f.transferStatus
  <2> DEFINE e == Read([Owned(NoBuyer(f), f.bidder) EXCEPT !.transferStatus = FALSE])
  <2>1. Follows(h, e)
    <3>1. /\ e \in HouseType
          /\ e.state = "rented" /\ e.owner = f.bidder
          /\ e.bidder = Vacant /\ e.highestBid = f.highestBid
          /\ e.internalBid = 0 /\ e.bidHolderLimit = 0
          /\ e.transferStatus = FALSE
      BY <1>1, <1>4 DEF HouseType, SettleTransfer, Backed, Owned, NoBuyer
    <3> HIDE DEF e
    <3> QED BY <3>1 DEF Follows, Backed, Alone
  <2>2. balance' \in [Citizens -> Nat]
    BY <1>4, RefundType, FieldTypes DEF SettleTransfer
  <2> QED BY <1>2, <1>4, <2>1, <2>2, OneHouse DEF SettleTransfer, Loaded, Goes
<1>5. CASE SettleTransfer(h) /\ ~f.transferStatus
  <2> DEFINE e == Read(Owned(NoBuyer(f), f.owner))
  <2>1. Follows(h, e)
    <3>1. /\ e \in HouseType
          /\ e.state = (IF f.owner = Vacant THEN "available" ELSE "rented")
          /\ e.owner = f.owner
          /\ e.bidder = Vacant /\ e.highestBid = f.highestBid
          /\ e.internalBid = 0 /\ e.bidHolderLimit = 0
          /\ e.transferStatus = f.transferStatus
      BY <1>1, FieldTypes DEF HouseType, Owned, NoBuyer
    <3> HIDE DEF e
    <3> QED BY <3>1, <1>5 DEF Follows, Backed, Alone
  <2> QED BY <1>2, <1>5, <2>1, OneHouse, FieldTypes DEF SettleTransfer, Loaded, Goes
<1>6. CASE SettleMoveOut(h)
  <2> DEFINE e == Read(Owned(f, Vacant))
  <2>1. Follows(h, e)
    <3>1. /\ e \in HouseType
          /\ e.state = "available" /\ e.owner = Vacant
          /\ e.bidder = f.bidder /\ e.highestBid = f.highestBid
          /\ e.internalBid = f.internalBid /\ e.bidHolderLimit = f.internalBid
          /\ e.transferStatus = f.transferStatus
      BY <1>1, <1>6 DEF HouseType, Owned
    <3> HIDE DEF e
    <3>2. f.state = "moveOut" /\ paidFor' = paidFor
      BY <1>6 DEF SettleMoveOut
    <3> QED BY <3>1, <3>2, <1>1 DEF Follows, Backed, Alone, Marked
  <2> QED BY <1>2, <1>6, <2>1, OneHouse, FieldTypes DEF SettleMoveOut, Loaded, Goes
<1>7. CASE LoadAsIs(h)
  <2> DEFINE e == Read(f)
  <2>1. Follows(h, e)
    <3>1. /\ e \in HouseType
          /\ e.state = f.state /\ e.owner = f.owner
          /\ e.bidder = f.bidder /\ e.highestBid = f.highestBid
          /\ e.internalBid = f.internalBid /\ e.bidHolderLimit = f.internalBid
          /\ e.transferStatus = f.transferStatus
      BY <1>1 DEF HouseType
    <3> HIDE DEF e
    <3>2. paidFor' = paidFor
      BY <1>7 DEF LoadAsIs
    <3> QED BY <3>1, <3>2, <1>1, <1>2 DEF Follows, Backed, Alone, Marked
  <2> QED BY <1>2, <1>7, <2>1, OneHouse, FieldTypes DEF LoadAsIs, Loaded, Goes
<1> QED BY <1>3, <1>4, <1>5, <1>6, <1>7 DEF loadHouseInfo

\* What a house is after a start has died: as its row says.
LEMMA RowIs ==
    ASSUME BooksInv, toLoad # {}, NEW g \in Estates
    PROVE  /\ Backed(Rows(g))
           /\ Rows(g).transferStatus <=> g \in paidFor \/ house[g].transferStatus
           /\ Rows(g).state = house[g].state /\ Rows(g).bidder = house[g].bidder
           /\ Rows(g).internalBid = house[g].internalBid
<1> DEFINE f == house[g]
           e == [f EXCEPT !.transferStatus = TRUE]
<1>1. f \in HouseType /\ Backed(f)
  BY FieldTypes
<1>2. /\ e \in HouseType
      /\ e.state = f.state /\ e.owner = f.owner
      /\ e.bidder = f.bidder /\ e.highestBid = f.highestBid
      /\ e.internalBid = f.internalBid /\ e.bidHolderLimit = f.bidHolderLimit
      /\ e.transferStatus = TRUE
  BY <1>1 DEF HouseType
<1>3. Rows(g) = IF g \in paidFor THEN e ELSE f
  BY DEF Rows
<1> HIDE DEF e
<1>4. Backed(e)
  BY <1>1, <1>2 DEF Backed
<1> QED BY <1>1, <1>2, <1>3, <1>4

\* A start dies with all houses as their rows say, but for one that has a new owner
\* and no bid.
LEMMA DiesKeeps ==
    ASSUME BooksInv, NEW h \in toLoad, NEW e, NEW P \in {paidFor, paidFor \cup {h}},
           house' = [g \in Estates |-> IF g = h THEN e ELSE Rows(g)],
           (e = Rows(h) /\ P = paidFor) \/ (Backed(e) /\ e.bidder = Vacant /\ h \in P),
           paidFor' = P, toLoad' = Estates, toPay' = Estates, balance' \in [Citizens -> Nat]
    PROVE  BooksInv'
<1>1. toLoad # {} /\ h \in Estates /\ P \subseteq Estates
  BY DEF BooksInv
<1>3. house'[h] = e
  BY <1>1
<1>4. ASSUME NEW g \in Estates PROVE (Backed(house[g]) /\ Marked(g, house[g]))'
  <2>1. CASE g # h \/ (e = Rows(h) /\ P = paidFor)
    <3>1. /\ Backed(house'[g])
          /\ house'[g].transferStatus <=> g \in paidFor \/ house[g].transferStatus
          /\ house'[g].state = house[g].state
      BY <1>1, <2>1, RowIs
    <3>2. Marked(g, house[g]) /\ (g \in paidFor => g \in P)
      BY FieldTypes
    <3>3. house[g].transferStatus /\ house[g].state # "transfer" => g \in P
      BY <3>2 DEF Marked
    <3>4. g \in P => g \in paidFor
      BY <2>1
    <3> QED BY <3>1, <3>3, <3>4 DEF Marked, Backed
  <2>2. CASE g = h /\ Backed(e) /\ e.bidder = Vacant /\ h \in P
    <3>1. house'[g] = e /\ Backed(e) /\ e.bidder = Vacant /\ h \in P
      BY <1>3, <2>2
    <3>2. e.state # "transfer"
      BY <3>1 DEF Backed
    <3> QED BY <2>2, <3>1, <3>2 DEF Marked, Backed
  <2> QED BY <2>1, <2>2
<1>5. (\A g \in Estates : Backed(house[g]) /\ Marked(g, house[g]))'
  BY <1>4
<1>6. house' \in [Estates -> HouseType]
  BY <1>4 DEF Backed
<1>7. ASSUME NEW g \in Estates, NEW k \in Estates \ {g} PROVE ~Twice(house[g], house[k])'
  <2>1. ~Twice(house[g], house[k])
    BY DEF BooksInv
  <2>2. ASSUME NEW i \in Estates
        PROVE  \/ house'[i].state = house[i].state /\ house'[i].bidder = house[i].bidder
               \/ house'[i].bidder = Vacant
    BY <1>1, <1>3, RowIs
  <2> QED BY <2>1, <2>2 DEF Twice
<1>8. (\A g \in Estates : \A k \in Estates \ {g} : ~Twice(house[g], house[k]))'
  BY <1>7
<1> QED BY <1>1, <1>5, <1>6, <1>8 DEF BooksInv

LEMMA CrashKeeps ==
    ASSUME BooksInv, NEW h \in Estates, DieBetween(h)
    PROVE  BooksInv'
<1> DEFINE f == house[h]
<1>1. /\ f \in HouseType /\ Backed(f) /\ balance \in [Citizens -> Nat]
      /\ h \in toLoad /\ toLoad' = Estates /\ toPay' = Estates
  BY FieldTypes DEF DieBetween
<1>2. CASE balance' \in [Citizens -> Nat] /\ paidFor' = paidFor
           /\ house' = [g \in Estates |-> Rows(g)]
  <2>1. house' = [g \in Estates |-> IF g = h THEN Rows(h) ELSE Rows(g)]
    BY <1>2
  <2> QED BY <1>1, <1>2, <2>1, DiesKeeps
<1>3. CASE Won(h) /\ Refund(f.bidder, Change(h)) /\ UNCHANGED paidFor
           /\ house' = [g \in Estates |-> Rows(g)]
  <2>1. Change(h) \in Nat
    BY <1>1, <1>3, FieldTypes DEF Change, Backed, Won
  <2>2. balance' \in [Citizens -> Nat]
    BY <1>3, <2>1, RefundType, FieldTypes
  <2> QED BY <1>2, <1>3, <2>2
<1>4. CASE /\ f.state = "transfer" /\ f.transferStatus
           /\ UNCHANGED balance /\ paidFor' = paidFor \cup {h}
           /\ house' = [g \in Estates |-> IF g = h THEN Owned(NoBid(f), f.bidder) ELSE Rows(g)]
  <2> DEFINE e == Owned(NoBid(f), f.bidder)
  <2>1. /\ e \in HouseType
        /\ e.state = "rented" /\ e.bidder = Vacant /\ e.internalBid = 0
    BY <1>1, <1>4 DEF HouseType, Owned, NoBid, NoBuyer, Backed
  <2> HIDE DEF e
  <2>2. Backed(e)
    BY <2>1 DEF Backed
  <2>3. house' = [g \in Estates |-> IF g = h THEN e ELSE Rows(g)]
    BY <1>4 DEF e
  <2> QED BY <1>1, <1>4, <2>1, <2>2, <2>3, DiesKeeps
<1> QED BY <1>1, <1>2, <1>3, <1>4 DEF DieBetween

LEMMA StartKeeps ==
    ASSUME BooksInv, Restart \/ \E h \in Estates : DieBetween(h) \/ payHouses(h)
    PROVE  BooksInv'
<1>1. CASE Restart
  <2>1. /\ UNCHANGED <<balance, house>> /\ toLoad' = Estates /\ toPay' = Estates
        /\ paidFor' = {h \in paidFor : house[h].transferStatus}
    BY <1>1 DEF Restart
  <2>2. ASSUME NEW h \in Estates PROVE (Backed(house[h]) /\ Marked(h, house[h]))'
    <3>1. Backed(house[h]) /\ Marked(h, house[h])
      BY FieldTypes
    <3> QED BY <2>1, <3>1 DEF Marked, Backed
  <2> QED BY <2>1, <2>2 DEF BooksInv, Twice
<1>2. ASSUME NEW h \in Estates, DieBetween(h) PROVE BooksInv'
  BY <1>2, CrashKeeps
<1>3. ASSUME NEW h \in Estates, payHouses(h) PROVE BooksInv'
  <2>1. toLoad' = {} /\ toLoad' \subseteq Estates /\ toPay' \subseteq Estates /\ paidFor' = paidFor
    BY <1>3, FieldTypes DEF payHouses
  <2>2. CASE UNCHANGED <<balance, house>>
    BY <2>1, <2>2, SameHouses, FieldTypes
  <2>3. CASE house[h].owner # Vacant /\ Pays(house[h].owner, Rent) /\ UNCHANGED house
    <3>1. balance' \in [Citizens -> Nat]
      BY <2>3, PaysType, FieldTypes
    <3> QED BY <2>1, <2>3, <3>1, SameHouses
  <2>4. CASE /\ house[h].owner # Vacant /\ Becomes(h, [house[h] EXCEPT !.owner = Vacant])
             /\ UNCHANGED balance
    <3> DEFINE f == house[h]
               e == [f EXCEPT !.owner = Vacant]
    <3>1. f \in HouseType /\ Backed(f) /\ Marked(h, f)
      BY FieldTypes
    <3>2. /\ e \in HouseType
          /\ e.state = f.state /\ e.owner = Vacant
          /\ e.bidder = f.bidder /\ e.highestBid = f.highestBid
          /\ e.internalBid = f.internalBid /\ e.bidHolderLimit = f.bidHolderLimit
          /\ e.transferStatus = f.transferStatus
      BY <3>1 DEF HouseType
    <3> HIDE DEF e
    <3>3. Backed(e)
      BY <3>1, <3>2 DEF Backed
    <3>4. Alone(h, e)
      BY <3>2 DEF Alone
    <3>5. Follows(h, e)
      BY <2>1, <3>1, <3>2, <3>3, <3>4 DEF Follows, Marked
    <3>6. Becomes(h, e)
      BY <2>4 DEF e
    <3> QED BY <2>1, <2>4, <3>5, <3>6, OneHouse, FieldTypes DEF Goes
  <2> QED BY <1>3, <2>2, <2>3, <2>4 DEF payHouses
<1> QED BY <1>1, <1>2, <1>3

LEMMA AuctionStepInv == BooksInv /\ [AuctionNext]_auctionVars => BooksInv'
<1> SUFFICES ASSUME BooksInv, [AuctionNext]_auctionVars PROVE BooksInv'
  OBVIOUS
<1>1. ASSUME NEW c \in Citizens, NEW h \in Estates, NEW bid \in Bids, Bid(c, h, bid)
      PROVE  BooksInv'
  BY <1>1, BidKeeps
<1>2. ASSUME NEW c \in Citizens, NEW d \in Citizens, NEW h \in Estates, NEW price \in Prices,
             Transfer(c, d, h, price)
      PROVE  BooksInv'
  BY <1>2, TransferKeeps
<1>3. ASSUME NEW c \in Citizens, NEW h \in Estates,
             MoveOut(c, h) \/ CancelMoveOut(c, h) \/ AcceptTransfer(c, h) \/ EndTransfer(c, h)
      PROVE  BooksInv'
  BY <1>3, OwnerKeeps
<1>4. ASSUME NEW h \in Estates, loadHouseInfo(h) PROVE BooksInv'
  BY <1>4, LoadKeeps
<1>5. CASE Restart \/ \E h \in Estates : DieBetween(h) \/ payHouses(h)
  BY <1>5, StartKeeps
<1>6. CASE UNCHANGED auctionVars
  BY <1>6, SameHouses DEF auctionVars, BooksInv
<1> QED BY <1>1, <1>2, <1>3, <1>4, <1>5, <1>6 DEF AuctionNext

\* Whoever bids on a house in whatever state, is outbid, moves out, transfers,
\* accepts, cancels or rejects, and wherever a start dies while it settles the
\* houses: the houses say what they hold (BidsAreBacked), for any citizens, houses,
\* bids and prices.
THEOREM AuctionInvariance == AuctionSpec => []BidsAreBacked
<1>1. BooksInv /\ [AuctionNext]_auctionVars => BooksInv'
  BY AuctionStepInv
<1> QED BY <1>1, AuctionInitInv, BooksInvBacks, PTL DEF AuctionSpec

-----------------------------------------------------------------------------
(* The gold of the auctions                                                 *)

\* What a house with these fields holds, and what all houses hold.
HoldsOf(f) == IF f.state = "transfer" THEN f.transferStatus ELSE f.bidder # Vacant
HeldOf(f) == IF HoldsOf(f) THEN f.internalBid + Rent ELSE 0
HeldIn(houses) == [h \in Estates |-> HeldOf(houses[h])]

LEMMA WealthIs ==
    /\ Wealth = Total(balance, Citizens) + Total(HeldIn(house), Estates)
    /\ Wealth' = Total(balance', Citizens) + Total(HeldIn(house'), Estates)
BY DEF Wealth, Held, Holds, HoldsOf, HeldOf, HeldIn

LEMMA HeldType ==
    ASSUME NEW f \in HouseType
    PROVE  HeldOf(f) \in Int
<1>1. f.internalBid \in Nat /\ Rent \in Nat
  BY AuctionAssumption DEF AuctionAssumption, HouseType
<1>2. f.internalBid + Rent \in Int
  BY <1>1
<1> QED BY <1>2 DEF HeldOf

LEMMA BankTotal ==
    ASSUME NEW b \in [Citizens -> Nat]
    PROVE  IsFiniteSet(Citizens) /\ Total(b, Citizens) \in Int
<1>1. IsFiniteSet(Citizens) /\ \A x \in Citizens : b[x] \in Int
  BY AuctionAssumption DEF AuctionAssumption
<1> QED BY <1>1, TotalType

LEMMA HousesTotal ==
    ASSUME NEW houses \in [Estates -> HouseType]
    PROVE  /\ IsFiniteSet(Estates) /\ Total(HeldIn(houses), Estates) \in Int
           /\ \A h \in Estates : HeldIn(houses)[h] = HeldOf(houses[h]) /\ HeldIn(houses)[h] \in Int
<1>1. IsFiniteSet(Estates)
  BY AuctionAssumption DEF AuctionAssumption
<1>2. \A h \in Estates : HeldIn(houses)[h] = HeldOf(houses[h]) /\ HeldIn(houses)[h] \in Int
  BY HeldType DEF HeldIn
<1>3. Total(HeldIn(houses), Estates) \in Int
  BY <1>1, <1>2, TotalType
<1> QED BY <1>1, <1>2, <1>3

\* One account changes.
LEMMA OneAccount ==
    ASSUME NEW b \in [Citizens -> Nat], NEW a \in [Citizens -> Nat], NEW c \in Citizens,
           NEW gold \in Int, a[c] = b[c] + gold, \A x \in Citizens \ {c} : b[x] = a[x]
    PROVE  Total(a, Citizens) = Total(b, Citizens) + gold
<1>1. IsFiniteSet(Citizens) /\ Total(b, Citizens) \in Int
  BY BankTotal
<1>2. \A x \in Citizens : b[x] \in Int /\ a[x] \in Int
  OBVIOUS
<1>3. \A x \in Citizens \ {c} : b[x] = a[x]
  OBVIOUS
<1>4. Total(a, Citizens) = Total(b, Citizens) + (a[c] - b[c])
  BY <1>1, <1>2, <1>3, TotalChanged
<1>5. a[c] - b[c] = gold
  BY <1>2
<1> QED BY <1>4, <1>5

LEMMA PaysTotal ==
    ASSUME BooksInv, NEW c \in Citizens, NEW gold \in Nat, Pays(c, gold)
    PROVE  Total(balance', Citizens) = Total(balance, Citizens) - gold
<1>1. balance \in [Citizens -> Nat] /\ balance' \in [Citizens -> Nat]
  BY PaysType DEF BooksInv
<1>2. balance'[c] = balance[c] + (-gold) /\ \A x \in Citizens \ {c} : balance[x] = balance'[x]
  BY <1>1 DEF Pays
<1>3. Total(balance', Citizens) = Total(balance, Citizens) + (-gold)
  BY <1>1, <1>2, OneAccount
<1> QED BY <1>1, <1>3, BankTotal

LEMMA RefundTotal ==
    ASSUME BooksInv, NEW c \in Citizens \cup {Vacant}, NEW gold \in Nat, Refund(c, gold)
    PROVE  Total(balance', Citizens) = Total(balance, Citizens) + IF c = Vacant THEN 0 ELSE gold
<1>1. balance \in [Citizens -> Nat] /\ balance' \in [Citizens -> Nat]
  BY RefundType DEF BooksInv
<1>2. CASE c = Vacant
  <2>1. balance' = balance /\ Total(balance, Citizens) \in Int
    BY <1>1, <1>2, BankTotal DEF Refund
  <2> QED BY <1>2, <2>1
<1>3. CASE c # Vacant
  <2>1. balance'[c] = balance[c] + gold /\ \A x \in Citizens \ {c} : balance[x] = balance'[x]
    BY <1>1, <1>3 DEF Refund
  <2>2. Total(balance', Citizens) = Total(balance, Citizens) + gold
    BY <1>1, <1>3, <2>1, OneAccount
  <2> QED BY <1>3, <2>2
<1> QED BY <1>2, <1>3

\* One house and the accounts change.
LEMMA WealthMoves ==
    ASSUME BooksInv, BooksInv', NEW h \in Estates, NEW e \in HouseType, Becomes(h, e),
           NEW gold \in Int, Total(balance', Citizens) = Total(balance, Citizens) + gold
    PROVE  /\ Wealth' = Wealth + (gold + (HeldOf(e) - HeldOf(house[h])))
           /\ Wealth \in Int /\ HeldOf(e) \in Int /\ HeldOf(house[h]) \in Int
<1>1. house \in [Estates -> HouseType] /\ house' \in [Estates -> HouseType]
      /\ balance \in [Citizens -> Nat]
  BY DEF BooksInv
<1>2. house'[h] = e /\ \A k \in Estates \ {h} : house[k] = house'[k]
  BY <1>1 DEF Becomes
<1> DEFINE f == HeldIn(house)
           g == HeldIn(house')
<1>3. IsFiniteSet(Estates) /\ Total(f, Estates) \in Int /\ Total(balance, Citizens) \in Int
  BY <1>1, HousesTotal, BankTotal
<1>4. \A k \in Estates : f[k] \in Int /\ g[k] \in Int
  BY <1>1, HousesTotal
<1>5. \A k \in Estates \ {h} : f[k] = g[k]
  BY <1>1, <1>2, HousesTotal
<1>6. f[h] = HeldOf(house[h]) /\ g[h] = HeldOf(e)
  BY <1>1, <1>2, HousesTotal
<1>7. /\ Wealth = Total(balance, Citizens) + Total(f, Estates)
      /\ Wealth' = Total(balance', Citizens) + Total(g, Estates)
  BY WealthIs
<1> HIDE DEF f, g
<1>8. Total(g, Estates) = Total(f, Estates) + (g[h] - f[h])
  BY ONLY h \in Estates, <1>3, <1>4, <1>5, TotalChanged
<1>9. f[h] \in Int /\ g[h] \in Int
  BY <1>4
<1> QED BY <1>3, <1>6, <1>7, <1>8, <1>9

LEMMA SameBank ==
    ASSUME BooksInv, UNCHANGED balance
    PROVE  Total(balance', Citizens) = Total(balance, Citizens) + 0
BY BankTotal DEF BooksInv

LEMMA HeldIs ==
    ASSUME NEW h \in Estates
    PROVE  Held(h) = HeldOf(house[h])
BY DEF Held, Holds, HeldOf, HoldsOf

LEMMA BidBooks ==
    ASSUME BooksInv, BooksInv', NEW c \in Citizens, NEW h \in Estates, NEW bid \in Bids,
           Bid(c, h, bid)
    PROVE  Wealth' = Wealth \/ BidLoses(c, h)
<1> DEFINE f == house[h]
<1>1. f \in HouseType /\ Backed(f)
  BY FieldTypes
<1>2. bid \in Nat /\ Rent \in Nat /\ c # Vacant /\ Rent + bid \in Nat
  BY FieldTypes
<1>3. f.bidder # c
  BY DEF Bid
<1>4. CASE FirstBid(c, h, bid)
  <2> DEFINE e == [f EXCEPT !.bidder = c, !.highestBid = 0, !.internalBid = bid,
                            !.bidHolderLimit = bid]
  <2>1. Becomes(h, e) /\ Pays(c, Rent + bid) /\ f.bidder = Vacant /\ f.state # "transfer"
    BY <1>1, <1>4 DEF FirstBid, Backed
  <2>2. e \in HouseType /\ e.state = f.state /\ e.bidder = c /\ e.internalBid = bid
    BY <1>1, <1>2 DEF HouseType
  <2> HIDE DEF e
  <2>3. HeldOf(e) = bid + Rent
    BY <1>2, <2>1, <2>2 DEF HeldOf, HoldsOf
  <2>4. HeldOf(f) = 0
    BY <2>1 DEF HeldOf, HoldsOf
  <2>5. Total(balance', Citizens) = Total(balance, Citizens) + (-(Rent + bid))
    <3>1. balance \in [Citizens -> Nat]
      BY FieldTypes
    <3> QED BY <1>2, <2>1, <3>1, PaysTotal, BankTotal
  <2>6. -(Rent + bid) \in Int
    BY <1>2
  <2>7. Wealth' = Wealth + (-(Rent + bid) + (HeldOf(e) - HeldOf(f))) /\ Wealth \in Int
    BY <2>1, <2>2, <2>5, <2>6, WealthMoves
  <2> QED BY <1>2, <2>3, <2>4, <2>7
<1>5. CASE LowerBid(h, bid)
  <2> DEFINE e == [f EXCEPT !.highestBid = bid]
  <2>1. Becomes(h, e) /\ Total(balance', Citizens) = Total(balance, Citizens) + 0
    BY <1>5, SameBank DEF LowerBid
  <2>2. /\ e \in HouseType /\ e.state = f.state /\ e.bidder = f.bidder
        /\ e.internalBid = f.internalBid /\ e.transferStatus = f.transferStatus
    BY <1>1, <1>2 DEF HouseType
  <2> HIDE DEF e
  <2>3. HeldOf(e) = HeldOf(f)
    BY <2>2 DEF HeldOf, HoldsOf
  <2>4. /\ Wealth' = Wealth + (0 + (HeldOf(e) - HeldOf(f)))
        /\ Wealth \in Int /\ HeldOf(f) \in Int
    BY <2>1, <2>2, WealthMoves
  <2> QED BY <2>3, <2>4
<1>6. CASE Outbid(c, h, bid)
  <2> DEFINE e == [f EXCEPT !.bidder = c, !.highestBid = f.internalBid + 1,
                            !.internalBid = bid, !.bidHolderLimit = bid]
             d == f.bidder
             back == f.bidHolderLimit + Rent
             limit == f.bidHolderLimit
  <2>1. Becomes(h, e) /\ d # Vacant /\ balance[c] >= Rent + bid
    BY <1>6 DEF Outbid
  <2>2. /\ d \in Citizens /\ d # c /\ back \in Nat
        /\ f.internalBid \in Nat /\ limit \in Nat
        /\ f.state # "transfer" => limit = f.internalBid
    BY <1>1, <1>2, <1>3, <2>1, FieldTypes DEF Backed
  <2>3. /\ e \in HouseType /\ e.state = f.state /\ e.bidder = c /\ e.internalBid = bid
        /\ e.transferStatus = f.transferStatus
    <3> DEFINE n == f.internalBid + 1
    <3>1. n \in Nat /\ c \in Citizens \cup {Vacant}
      BY <2>2
    <3> HIDE DEF n
    <3>2. [f EXCEPT !.bidder = c, !.highestBid = n, !.internalBid = bid,
                    !.bidHolderLimit = bid] \in HouseType
      BY <1>1, <1>2, <3>1 DEF HouseType
    <3> QED BY <1>1, <1>3, <3>2 DEF n, HouseType
  <2> HIDE DEF e
  <2>4. /\ HoldsOf(f) <=> HoldsOf(e)
        /\ HoldsOf(f) <=> f.state # "transfer" \/ f.transferStatus
    BY <1>2, <2>1, <2>3 DEF HoldsOf
  <2>5. /\ balance \in [Citizens -> Nat] /\ balance' \in [Citizens -> Nat]
        /\ balance' = [balance EXCEPT ![c] = @ - (Rent + bid), ![d] = @ + limit + Rent]
    BY <1>6 DEF BooksInv, Outbid
  <2> DEFINE paid == -(Rent + bid)
             half == [balance EXCEPT ![c] = @ + paid]
             gold == back - (Rent + bid)
  <2>e. back = limit + Rent /\ back \in Int /\ paid \in Int
    BY <1>2, <2>2
  <2>6. HeldOf(e) = (IF HoldsOf(f) THEN bid + Rent ELSE 0)
        /\ HeldOf(f) = (IF HoldsOf(f) THEN f.internalBid + Rent ELSE 0)
    BY <1>2, <2>3, <2>4 DEF HeldOf
  <2>c. Total(balance', Citizens) = Total(balance, Citizens) + gold /\ gold \in Int
    <3> HIDE DEF d, f, limit, back
    <3>1. /\ half \in [Citizens -> Nat] /\ half[c] = balance[c] + paid
          /\ \A x \in Citizens \ {c} : balance[x] = half[x]
      BY <1>2, <2>1, <2>5
    <3>2. /\ balance'[d] = half[d] + back
          /\ \A x \in Citizens \ {d} : half[x] = balance'[x]
      BY <1>2, <2>2, <2>5, <2>e
    <3>3. balance \in [Citizens -> Nat] /\ balance' \in [Citizens -> Nat]
      BY <2>5
    <3> HIDE DEF half, paid
    <3>4. Total(half, Citizens) = Total(balance, Citizens) + paid
      BY ONLY c \in Citizens, <3>3, <3>1, <2>e, OneAccount
    <3>5. Total(balance', Citizens) = Total(half, Citizens) + back
      BY ONLY <2>2, <3>3, <3>1, <3>2, <2>e, OneAccount
    <3>6. Total(balance, Citizens) \in Int
      BY <2>5, BankTotal
    <3> QED BY <1>2, <3>4, <3>5, <2>e, <3>6 DEF paid
  <2>d. Wealth' = Wealth + (gold + (HeldOf(e) - HeldOf(f))) /\ Wealth \in Int
    <3> HIDE DEF gold
    <3> QED BY <2>1, <2>3, <2>c, WealthMoves DEF f
  <2>f. gold = limit - bid
    BY <1>2, <2>2
  <2>7. CASE f.state # "transfer"
    <3>1. HeldOf(e) = bid + Rent /\ HeldOf(f) = limit + Rent
      BY <2>2, <2>4, <2>6, <2>7
    <3> QED BY <1>2, <2>2, <2>d, <2>f, <3>1
  <2>8. CASE f.state = "transfer" /\ f.transferStatus
    <3>1. HeldOf(e) = bid + Rent /\ HeldOf(f) = f.internalBid + Rent
      BY <2>4, <2>6, <2>8
    <3>2. Wealth' = Wealth + limit - f.internalBid
      BY <1>2, <2>2, <2>d, <2>f, <3>1
    <3> QED BY <2>8, <3>2 DEF BidLoses
  <2>9. CASE f.state = "transfer" /\ ~f.transferStatus
    <3>1. HeldOf(e) = 0 /\ HeldOf(f) = 0
      BY <2>4, <2>6, <2>9
    <3>2. Wealth' = Wealth + limit - bid
      BY <1>2, <2>2, <2>d, <2>f, <3>1
    <3> QED BY <2>9, <3>2 DEF BidLoses
  <2> QED BY <2>7, <2>8, <2>9
<1> QED BY <1>4, <1>5, <1>6 DEF Bid

\* Fields of a house that do not count.
LEMMA SameHeld ==
    ASSUME BooksInv, BooksInv', NEW h \in Estates, NEW e \in HouseType, Becomes(h, e),
           UNCHANGED balance, HeldOf(e) = HeldOf(house[h])
    PROVE  Wealth' = Wealth
<1>1. Total(balance', Citizens) = Total(balance, Citizens) + 0
  BY SameBank
<1>2. /\ Wealth' = Wealth + (0 + (HeldOf(e) - HeldOf(house[h])))
      /\ Wealth \in Int /\ HeldOf(house[h]) \in Int
  BY <1>1, WealthMoves
<1> QED BY <1>2

LEMMA OwnerBooks ==
    ASSUME BooksInv, BooksInv', NEW c \in Citizens, NEW h \in Estates,
           MoveOut(c, h) \/ CancelMoveOut(c, h) \/ AcceptTransfer(c, h) \/ EndTransfer(c, h)
    PROVE  Wealth' = Wealth
<1> DEFINE f == house[h]
<1>1. /\ f \in HouseType /\ Backed(f) /\ f.internalBid \in Nat /\ Rent \in Nat
      /\ f.internalBid + Rent \in Nat /\ balance \in [Citizens -> Nat]
  BY FieldTypes
<1>2. ASSUME NEW s \in {"moveOut", "rented"}, Becomes(h, [f EXCEPT !.state = s]),
             f.state \in {"moveOut", "rented"}, UNCHANGED balance
      PROVE  Wealth' = Wealth
  <2> DEFINE e == [f EXCEPT !.state = s]
  <2>1. /\ e \in HouseType /\ e.state = s /\ e.bidder = f.bidder
        /\ e.internalBid = f.internalBid /\ e.transferStatus = f.transferStatus
    BY <1>1 DEF HouseType
  <2> HIDE DEF e
  <2>2. HeldOf(e) = HeldOf(f)
    BY <1>2, <2>1 DEF HeldOf, HoldsOf
  <2> QED BY <1>2, <2>1, <2>2, SameHeld DEF e
<1>3. CASE AcceptTransfer(c, h)
  <2> DEFINE e == [f EXCEPT !.transferStatus = TRUE]
             paid == -(Rent + f.internalBid)
  <2>1. Becomes(h, e) /\ Pays(c, Rent + f.internalBid) /\ ~f.transferStatus
        /\ f.state = "transfer" /\ Rent + f.internalBid \in Nat
    BY <1>1, <1>3 DEF AcceptTransfer
  <2>2. /\ e \in HouseType /\ e.internalBid = f.internalBid /\ e.transferStatus = TRUE
        /\ e.state = f.state
    BY <1>1 DEF HouseType
  <2> HIDE DEF e
  <2>3. HeldOf(e) = f.internalBid + Rent /\ HeldOf(f) = 0
    BY <2>1, <2>2 DEF HeldOf, HoldsOf
  <2>4. Total(balance', Citizens) = Total(balance, Citizens) - (Rent + f.internalBid)
    BY <2>1, PaysTotal
  <2>5. Total(balance', Citizens) = Total(balance, Citizens) + paid /\ paid \in Int
    BY <1>1, <2>4, BankTotal
  <2>6. Wealth' = Wealth + (paid + (HeldOf(e) - HeldOf(f))) /\ Wealth \in Int
    <3> HIDE DEF paid
    <3> QED BY <2>1, <2>2, <2>5, WealthMoves
  <2> QED BY <1>1, <2>3, <2>6
<1>4. CASE EndTransfer(c, h)
  <2> DEFINE e == [NoBuyer(f) EXCEPT !.state = "rented", !.transferStatus = FALSE]
             back == f.internalBid + Rent
  <2>1. Becomes(h, e) /\ f.state = "transfer" /\ f.bidder \in Citizens
    BY <1>1, <1>4 DEF EndTransfer, TransferEnds, Backed, HouseType
  <2>2. e \in HouseType /\ e.state = "rented" /\ e.bidder = Vacant
    BY <1>1 DEF HouseType, NoBuyer
  <2> HIDE DEF e
  <2>3. HeldOf(e) = 0
    BY <2>2 DEF HeldOf, HoldsOf
  <2>4. CASE f.transferStatus
    <3>1. balance' = [balance EXCEPT ![f.bidder] = @ + f.internalBid + Rent]
      BY <1>4, <2>4 DEF EndTransfer, TransferEnds
    <3>2. /\ balance'[f.bidder] = balance[f.bidder] + back
          /\ \A x \in Citizens \ {f.bidder} : balance[x] = balance'[x]
      BY <1>1, <2>1, <3>1
    <3>3. balance' \in [Citizens -> Nat] /\ balance \in [Citizens -> Nat] /\ back \in Int
      BY <1>1 DEF BooksInv
    <3>4. HeldOf(f) = back
      BY <2>1, <2>4 DEF HeldOf, HoldsOf
    <3> DEFINE d == f.bidder
    <3> HIDE DEF back, d
    <3>5. Total(balance', Citizens) = Total(balance, Citizens) + back
      <4>1. /\ d \in Citizens /\ balance'[d] = balance[d] + back
            /\ \A x \in Citizens \ {d} : balance[x] = balance'[x]
        BY <2>1, <3>2 DEF d
      <4> QED BY ONLY <4>1, <3>3, OneAccount
    <3>6. Wealth' = Wealth + (back + (HeldOf(e) - HeldOf(f))) /\ Wealth \in Int
      BY <2>1, <2>2, <3>3, <3>5, WealthMoves
    <3> QED BY <2>3, <3>3, <3>4, <3>6
  <2>5. CASE ~f.transferStatus
    <3>1. UNCHANGED balance
      BY <1>4, <2>5 DEF EndTransfer, TransferEnds
    <3>2. HeldOf(f) = 0
      BY <2>1, <2>5 DEF HeldOf, HoldsOf
    <3> QED BY <2>1, <2>2, <2>3, <3>1, <3>2, SameHeld
  <2> QED BY <2>4, <2>5
<1> QED BY <1>2, <1>3, <1>4 DEF MoveOut, CancelMoveOut

LEMMA TransferBooks ==
    ASSUME BooksInv, BooksInv', NEW c \in Citizens, NEW d \in Citizens, NEW h \in Estates,
           NEW price \in Prices, Transfer(c, d, h, price)
    PROVE  Wealth' = Wealth \/ TransferLoses(c, h)
<1> DEFINE f == house[h]
           e == [f EXCEPT !.state = "transfer", !.bidder = d, !.internalBid = price]
           held == IF f.transferStatus THEN price + Rent ELSE 0
<1>1. /\ f \in HouseType /\ Backed(f) /\ Marked(h, f) /\ price \in Nat /\ Rent \in Nat
      /\ f.state = "rented" /\ Becomes(h, e) /\ UNCHANGED balance
  BY FieldTypes DEF Transfer
<1>2. /\ e \in HouseType /\ e.state = "transfer" /\ e.transferStatus = f.transferStatus
      /\ e.internalBid = price
  BY <1>1 DEF HouseType
<1> HIDE DEF e
<1>3. HeldOf(e) = held
  BY <1>2 DEF HeldOf, HoldsOf
<1>4. /\ Wealth' = Wealth + (0 + (HeldOf(e) - HeldOf(f)))
      /\ Wealth \in Int /\ HeldOf(e) \in Int /\ HeldOf(f) \in Int
  <2>1. Total(balance', Citizens) = Total(balance, Citizens) + 0
    BY <1>1, SameBank
  <2> QED BY <1>1, <1>2, <2>1, WealthMoves
<1>5. CASE f.bidder # Vacant \/ h \in paidFor
  <2>1. Wealth' = Wealth - Held(h) + held
    <3> HIDE DEF held
    <3> QED BY <1>3, <1>4, HeldIs
  <2> QED BY <1>5, <2>1 DEF TransferLoses
<1>6. CASE f.bidder = Vacant /\ h \notin paidFor
  <2>1. ~f.transferStatus
    BY <1>1, <1>6 DEF Marked
  <2>2. HeldOf(f) = 0 /\ HeldOf(e) = 0
    BY <1>1, <1>3, <1>6, <2>1 DEF HeldOf, HoldsOf
  <2> QED BY <1>4, <2>2
<1> QED BY <1>5, <1>6

\* What a settled house has cost.
LEMMA CostIs ==
    ASSUME BooksInv, NEW h \in Estates, NEW e \in HouseType, Becomes(h, e)
    PROVE  /\ house'[h] = e
           /\ Won(h) <=> house[h].state = "available" /\ house[h].bidder # Vacant
           /\ Won(h)' <=> e.state = "available" /\ e.bidder # Vacant
<1>1. house'[h] = e
  BY DEF Becomes, BooksInv
<1> QED BY <1>1 DEF Won

LEMMA LoadBooks ==
    ASSUME BooksInv, BooksInv', NEW h \in Estates, loadHouseInfo(h)
    PROVE  Wealth' = Wealth - Cost(h)
<1> DEFINE f == house[h]
           Read(g) == [g EXCEPT !.bidHolderLimit = g.internalBid]
<1>1. /\ f \in HouseType /\ Backed(f) /\ f.internalBid \in Nat /\ f.highestBid \in Nat
      /\ Rent \in Nat /\ Vacant \notin Citizens /\ balance \in [Citizens -> Nat]
  BY FieldTypes
<1>2. ASSUME NEW e \in HouseType, Becomes(h, e), UNCHANGED balance, HeldOf(e) = HeldOf(f),
             Cost(h) = 0
      PROVE  Wealth' = Wealth - Cost(h)
  <2>1. Wealth' = Wealth /\ Wealth \in Int
    <3>1. Total(balance', Citizens) = Total(balance, Citizens) + 0
      BY <1>2, SameBank
    <3>2. Wealth \in Int
      BY <1>2, <3>1, WealthMoves
    <3> QED BY <1>2, <3>2, SameHeld
  <2> QED BY <1>2, <2>1
<1>3. CASE SettleBid(h)
  <2> DEFINE e == Read(Owned(NoBid(f), f.bidder))
             change == f.internalBid - f.highestBid
  <2>1. /\ Becomes(h, e) /\ Refund(f.bidder, change)
        /\ f.state = "available" /\ f.bidder # Vacant
    BY <1>3 DEF SettleBid, Won, Loaded, Change
  <2>2. change \in Nat /\ f.bidder \in Citizens \cup {Vacant}
    BY <1>1, <2>1, FieldTypes DEF Backed
  <2>3. /\ e \in HouseType /\ e.state = "rented" /\ e.bidder = Vacant
    BY <1>1, <2>1 DEF HouseType, Owned, NoBid, NoBuyer, Backed
  <2> HIDE DEF e
  <2>4. HeldOf(e) = 0 /\ HeldOf(f) = f.internalBid + Rent
    BY <2>1, <2>3 DEF HeldOf, HoldsOf
  <2>5. Cost(h) = Rent + f.highestBid
    <3>1. house'[h] # f /\ Won(h) /\ ~Won(h)'
      BY <2>1, <2>3, CostIs
    <3> QED BY <3>1 DEF Cost
  <2>6. Total(balance', Citizens) = Total(balance, Citizens) + change /\ change \in Int
    <3> HIDE DEF change
    <3> QED BY <2>1, <2>2, RefundTotal
  <2>7. Wealth' = Wealth + (change + (HeldOf(e) - HeldOf(f))) /\ Wealth \in Int
    <3> HIDE DEF change
    <3> QED BY <2>1, <2>3, <2>6, WealthMoves
  <2> QED BY <1>1, <2>4, <2>5, <2>7
<1>4. CASE SettleTransfer(h) /\ f.transferStatus
  <2> DEFINE e == Read([Owned(NoBuyer(f), f.bidder) EXCEPT !.transferStatus = FALSE])
             price == IF f.owner = Vacant THEN 0 ELSE f.internalBid
  <2>1. /\ Becomes(h, e) /\ Refund(f.owner, f.internalBid)
        /\ f.state = "transfer" /\ f.transferStatus
    BY <1>4 DEF SettleTransfer, Loaded
  <2>2. f.owner \in Citizens \cup {Vacant} /\ price \in Int /\ f.bidder # Vacant
    BY <1>1, <2>1, FieldTypes DEF Backed
  <2>3. /\ e \in HouseType /\ e.state = "rented" /\ ~e.transferStatus /\ e.bidder = Vacant
    BY <1>1, <2>2 DEF HouseType, Owned, NoBuyer
  <2> HIDE DEF e
  <2>4. HeldOf(e) = 0 /\ HeldOf(f) = f.internalBid + Rent
    BY <2>1, <2>3 DEF HeldOf, HoldsOf
  <2>5. Cost(h) = Rent + (IF f.owner = Vacant THEN f.internalBid ELSE 0)
    <3>1. house'[h] # f /\ ~Won(h) /\ ~house'[h].transferStatus
      BY <2>1, <2>3, CostIs
    <3> QED BY <2>1, <3>1 DEF Cost
  <2>6. Total(balance', Citizens) = Total(balance, Citizens) + price
    BY <1>1, <2>1, <2>2, RefundTotal
  <2>7. Wealth' = Wealth + (price + (HeldOf(e) - HeldOf(f))) /\ Wealth \in Int
    <3> HIDE DEF price
    <3> QED BY <2>1, <2>2, <2>3, <2>6, WealthMoves
  <2> QED BY <1>1, <2>4, <2>5, <2>7
<1>5. CASE SettleTransfer(h) /\ ~f.transferStatus
  <2> DEFINE e == Read(Owned(NoBuyer(f), f.owner))
  <2>1. Becomes(h, e) /\ UNCHANGED balance /\ f.state = "transfer" /\ ~f.transferStatus
    BY <1>5 DEF SettleTransfer, Loaded
  <2>2. /\ e \in HouseType /\ e.bidder = Vacant /\ ~e.transferStatus
        /\ e.state = (IF f.owner = Vacant THEN "available" ELSE "rented")
    BY <1>1, <2>1, FieldTypes DEF HouseType, Owned, NoBuyer
  <2> HIDE DEF e
  <2>3. HeldOf(e) = 0 /\ HeldOf(f) = 0
    BY <2>1, <2>2 DEF HeldOf, HoldsOf
  <2>4. Cost(h) = 0
    <3>1. ~Won(h)
      BY <2>1 DEF Won
    <3> QED BY <2>1, <3>1 DEF Cost
  <2> QED BY <1>2, <2>1, <2>2, <2>3, <2>4
<1>6. CASE SettleMoveOut(h)
  <2> DEFINE e == Read(Owned(f, Vacant))
  <2>1. Becomes(h, e) /\ UNCHANGED balance /\ f.state = "moveOut"
    BY <1>6 DEF SettleMoveOut, Loaded
  <2>2. /\ e \in HouseType /\ e.bidder = f.bidder /\ e.internalBid = f.internalBid
        /\ e.transferStatus = f.transferStatus /\ e.state = "available"
    BY <1>1 DEF HouseType, Owned
  <2> HIDE DEF e
  <2>3. HeldOf(e) = HeldOf(f)
    BY <2>1, <2>2 DEF HeldOf, HoldsOf
  <2>4. Cost(h) = 0
    <3>1. ~Won(h) /\ (house'[h].transferStatus <=> f.transferStatus)
      BY <2>1, <2>2, CostIs DEF Won
    <3> QED BY <3>1 DEF Cost
  <2> QED BY <1>2, <2>1, <2>2, <2>3, <2>4
<1>7. CASE LoadAsIs(h)
  <2> DEFINE e == Read(f)
  <2>1. Becomes(h, e) /\ UNCHANGED balance
    BY <1>7 DEF LoadAsIs, Loaded
  <2>2. /\ e \in HouseType /\ e.state = f.state /\ e.bidder = f.bidder
        /\ e.internalBid = f.internalBid /\ e.transferStatus = f.transferStatus
    BY <1>1 DEF HouseType
  <2> HIDE DEF e
  <2>3. HeldOf(e) = HeldOf(f)
    BY <2>2 DEF HeldOf, HoldsOf
  <2>4. Cost(h) = 0
    <3>1. Won(h)' <=> Won(h)
      BY <2>1, <2>2, CostIs
    <3>2. house'[h].transferStatus <=> f.transferStatus
      BY <2>1, <2>2, CostIs
    <3> QED BY <3>1, <3>2 DEF Cost
  <2> QED BY <1>2, <2>1, <2>2, <2>3, <2>4
<1> QED BY <1>3, <1>4, <1>5, <1>6, <1>7 DEF loadHouseInfo

LEMMA RentBooks ==
    ASSUME BooksInv, BooksInv', NEW h \in Estates, payHouses(h)
    PROVE  Wealth' \in {Wealth, Wealth - Rent}
<1> DEFINE f == house[h]
<1>1. /\ f \in HouseType /\ Backed(f) /\ Rent \in Nat /\ balance \in [Citizens -> Nat]
      /\ f.owner \in Citizens \cup {Vacant}
  BY FieldTypes
<1>2. CASE UNCHANGED <<balance, house>>
  BY <1>2, WealthIs
<1>3. CASE f.owner # Vacant /\ Pays(f.owner, Rent) /\ UNCHANGED house
  <2>1. Total(balance', Citizens) = Total(balance, Citizens) - Rent
    BY <1>1, <1>3, PaysTotal
  <2>2. Total(balance, Citizens) \in Int /\ Total(HeldIn(house), Estates) \in Int
    BY <1>1, BankTotal, HousesTotal DEF BooksInv
  <2>3. HeldIn(house') = HeldIn(house)
    BY <1>3
  <2>4. Wealth' = Wealth - Rent
    BY <1>1, <2>1, <2>2, <2>3, WealthIs
  <2> QED BY <2>4
<1>4. CASE f.owner # Vacant /\ Becomes(h, [f EXCEPT !.owner = Vacant]) /\ UNCHANGED balance
  <2> DEFINE e == [f EXCEPT !.owner = Vacant]
  <2>1. /\ e \in HouseType /\ e.state = f.state /\ e.bidder = f.bidder
        /\ e.internalBid = f.internalBid /\ e.transferStatus = f.transferStatus
    BY <1>1 DEF HouseType
  <2> HIDE DEF e
  <2>2. HeldOf(e) = HeldOf(f)
    BY <2>1 DEF HeldOf, HoldsOf
  <2>3. Becomes(h, e)
    BY <1>4 DEF e
  <2> QED BY <1>4, <2>1, <2>2, <2>3, SameHeld
<1> QED BY <1>2, <1>3, <1>4 DEF payHouses

\* Houses as their rows say hold what they held: the mark of a settled transfer is
\* that of a house which is rented.
LEMMA RowHolds ==
    ASSUME BooksInv, toLoad # {}, NEW g \in Estates
    PROVE  Rows(g) \in HouseType /\ HeldOf(Rows(g)) = HeldOf(house[g])
<1>1. Marked(g, house[g])
  BY FieldTypes
<1>2. /\ Backed(Rows(g)) /\ Rows(g).state = house[g].state
      /\ Rows(g).transferStatus <=> g \in paidFor \/ house[g].transferStatus
      /\ Rows(g).bidder = house[g].bidder /\ Rows(g).internalBid = house[g].internalBid
  BY RowIs
<1>3. house[g].state = "transfer" => (Rows(g).transferStatus <=> house[g].transferStatus)
  BY <1>1, <1>2 DEF Marked
<1> QED BY <1>2, <1>3 DEF HeldOf, HoldsOf, Backed

\* A start dies, and one house may have new fields.
LEMMA CrashMoves ==
    ASSUME BooksInv, BooksInv', NEW h \in toLoad, NEW e \in HouseType, NEW gold \in Int,
           house' = [g \in Estates |-> IF g = h THEN e ELSE Rows(g)],
           Total(balance', Citizens) = Total(balance, Citizens) + gold
    PROVE  /\ Wealth' = Wealth + (gold + (HeldOf(e) - HeldOf(house[h])))
           /\ Wealth \in Int /\ HeldOf(e) \in Int /\ HeldOf(house[h]) \in Int
<1>1. /\ house \in [Estates -> HouseType] /\ house' \in [Estates -> HouseType]
      /\ balance \in [Citizens -> Nat] /\ h \in Estates /\ toLoad # {}
  BY DEF BooksInv
<1>2. house'[h] = e /\ \A k \in Estates \ {h} : house'[k] = Rows(k)
  BY <1>1
<1> DEFINE f == HeldIn(house)
           g == HeldIn(house')
<1>3. IsFiniteSet(Estates) /\ Total(f, Estates) \in Int /\ Total(balance, Citizens) \in Int
  BY <1>1, HousesTotal, BankTotal
<1>4. \A k \in Estates : f[k] \in Int /\ g[k] \in Int
  BY <1>1, HousesTotal
<1>5. \A k \in Estates \ {h} : f[k] = g[k]
  BY <1>1, <1>2, RowHolds, HousesTotal
<1>6. f[h] = HeldOf(house[h]) /\ g[h] = HeldOf(e)
  BY <1>1, <1>2, HousesTotal
<1>7. /\ Wealth = Total(balance, Citizens) + Total(f, Estates)
      /\ Wealth' = Total(balance', Citizens) + Total(g, Estates)
  BY WealthIs
<1> HIDE DEF f, g
<1>8. Total(g, Estates) = Total(f, Estates) + (g[h] - f[h])
  BY ONLY <1>1, <1>3, <1>4, <1>5, TotalChanged
<1>9. f[h] \in Int /\ g[h] \in Int
  BY <1>1, <1>4
<1> QED BY <1>3, <1>6, <1>7, <1>8, <1>9

LEMMA CrashBooks ==
    ASSUME BooksInv, BooksInv', NEW h \in Estates, DieBetween(h)
    PROVE  Wealth' \in {Wealth, Wealth + Change(h), Wealth - Held(h)}
<1> DEFINE f == house[h]
<1>1. /\ f \in HouseType /\ Backed(f) /\ f.bidder \in Citizens \cup {Vacant}
      /\ f.internalBid \in Nat /\ f.highestBid \in Nat
      /\ h \in toLoad /\ toLoad # {} /\ Held(h) = HeldOf(f)
  BY FieldTypes, HeldIs DEF DieBetween
<1>2. Rows(h) \in HouseType /\ HeldOf(Rows(h)) = HeldOf(f)
  BY <1>1, RowHolds
<1>3. CASE UNCHANGED balance /\ house' = [g \in Estates |-> Rows(g)]
  <2>1. house' = [g \in Estates |-> IF g = h THEN Rows(h) ELSE Rows(g)]
    BY <1>3
  <2>2. Total(balance', Citizens) = Total(balance, Citizens) + 0
    BY <1>3, SameBank
  <2>3. /\ Wealth' = Wealth + (0 + (HeldOf(Rows(h)) - HeldOf(f)))
        /\ Wealth \in Int /\ HeldOf(f) \in Int
    BY <1>1, <1>2, <2>1, <2>2, CrashMoves
  <2> QED BY <1>2, <2>3
<1>4. CASE Won(h) /\ Refund(f.bidder, Change(h)) /\ house' = [g \in Estates |-> Rows(g)]
  <2>1. house' = [g \in Estates |-> IF g = h THEN Rows(h) ELSE Rows(g)]
    BY <1>4
  <2>2. Change(h) \in Nat /\ f.bidder # Vacant
    BY <1>1, <1>4 DEF Change, Won, Backed
  <2>3. Total(balance', Citizens) = Total(balance, Citizens) + Change(h)
    BY <1>1, <1>4, <2>2, RefundTotal
  <2>4. /\ Wealth' = Wealth + (Change(h) + (HeldOf(Rows(h)) - HeldOf(f)))
        /\ Wealth \in Int /\ HeldOf(f) \in Int
    BY <1>1, <1>2, <2>1, <2>2, <2>3, CrashMoves
  <2> QED BY <1>2, <2>2, <2>4
<1>5. CASE /\ f.state = "transfer" /\ UNCHANGED balance
           /\ house' = [g \in Estates |-> IF g = h THEN Owned(NoBid(f), f.bidder) ELSE Rows(g)]
  <2> DEFINE e == Owned(NoBid(f), f.bidder)
  <2>1. e \in HouseType /\ e.state = "rented" /\ e.bidder = Vacant
    BY <1>1, <1>5 DEF HouseType, Owned, NoBid, NoBuyer, Backed
  <2>2. house' = [g \in Estates |-> IF g = h THEN e ELSE Rows(g)]
    BY <1>5
  <2> HIDE DEF e
  <2>3. Total(balance', Citizens) = Total(balance, Citizens) + 0
    BY <1>5, SameBank
  <2>4. /\ Wealth' = Wealth + (0 + (HeldOf(e) - HeldOf(f)))
        /\ Wealth \in Int /\ HeldOf(f) \in Int
    BY <1>1, <2>1, <2>2, <2>3, CrashMoves
  <2>5. HeldOf(e) = 0
    BY <2>1 DEF HeldOf, HoldsOf
  <2> QED BY <1>1, <2>4, <2>5
<1> QED BY <1>3, <1>4, <1>5 DEF DieBetween

Audited ==
    \/ UNCHANGED <<balance, house>>
    \/ Open /\ Wealth' = Wealth
    \/ \E h \in Estates :
          \/ \E c \in Citizens : TransferLoses(c, h) \/ BidLoses(c, h)
          \/ CrashLoses(h)
          \/ loadHouseInfo(h) /\ Wealth' = Wealth - Cost(h)
          \/ payHouses(h) /\ Wealth' \in {Wealth, Wealth - Rent}

LEMMA AuctionStepAudited ==
    ASSUME BooksInv, BooksInv', AuctionNext
    PROVE  Audited
<1>1. ASSUME NEW c \in Citizens, NEW h \in Estates, NEW bid \in Bids, Bid(c, h, bid)
      PROVE  Audited
  BY <1>1, BidBooks DEF Audited, Bid
<1>2. ASSUME NEW c \in Citizens, NEW h \in Estates, NEW price \in Prices, NEW d \in Citizens,
             Transfer(c, d, h, price)
      PROVE  Audited
  BY <1>2, TransferBooks DEF Audited, Transfer
<1>3. ASSUME NEW c \in Citizens, NEW h \in Estates,
             MoveOut(c, h) \/ CancelMoveOut(c, h) \/ AcceptTransfer(c, h) \/ EndTransfer(c, h)
      PROVE  Audited
  <2>1. Open
    BY <1>3 DEF MoveOut, CancelMoveOut, AcceptTransfer, EndTransfer
  <2> QED BY <1>3, <2>1, OwnerBooks DEF Audited
<1>4. CASE Restart
  BY <1>4, WealthIs DEF Audited, Restart
<1>5. ASSUME NEW h \in Estates, loadHouseInfo(h) \/ DieBetween(h) \/ payHouses(h)
      PROVE  Audited
  BY <1>5, LoadBooks, RentBooks, CrashBooks DEF Audited, CrashLoses
<1> QED BY <1>1, <1>2, <1>3, <1>4, <1>5 DEF AuctionNext

\* Whoever bids on a house in whatever state, is outbid, moves out, accepts or
\* rejects: between two starts gold is made or lost with the auctions only by a
\* transfer over a bid, by a bid on a house in transfer and by a start that dies, and
\* by as much as the property says; a start takes from the players what Cost says,
\* the price of a house from who has bid for it and the rent (AuctionBooks), for any
\* citizens, houses, bids and prices.
THEOREM AuctionsBalance == AuctionSpec => AuctionBooks
<1>1. BooksInv /\ BooksInv' /\ [AuctionNext]_auctionVars => [Audited]_auctionVars
  BY AuctionStepAudited
<1>2. BooksInv /\ [AuctionNext]_auctionVars => BooksInv'
  BY AuctionStepInv
<1> QED BY <1>1, <1>2, AuctionInitInv, PTL DEF AuctionSpec, AuctionBooks, Audited
=============================================================================
