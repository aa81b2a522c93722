----------------------------- MODULE TradeProofs -----------------------------
(***************************************************************************)
(* What holds of trades for any number of players, items, bags and places: *)
(* TradeInv, and, if a house is not left while its document is on offer,   *)
(* the three properties of the exchange.                                   *)
(***************************************************************************)
EXTENDS Trade, FiniteSetTheorems, TLAPS

\* What TradeAssumption says, in the form the proofs use.
LEMMA Kinds ==
    /\ Bags \subseteq Goods /\ Stackable \cap Bags = {}
    /\ Deed \notin Goods /\ Deed \notin Traders /\ Deed \notin Spots /\ Deed # Nobody
    /\ Nobody \notin Traders /\ Nobody \notin Goods
    /\ \A x \in Spots : x \in Int /\ x \notin Traders /\ x \notin Goods
    /\ \A p \in Traders : p \notin Spots /\ p \notin Goods
BY TradeAssumption DEF TradeAssumption

-----------------------------------------------------------------------------
(* The invariant holds in the beginning and is kept by closing trades.      *)

THEOREM TradeInitInv == TradeInit => TradeInv
<1> SUFFICES ASSUME TradeInit PROVE TradeInv
  OBVIOUS
<1> USE Kinds DEF TradeInit
<1>1. TradeTypeOK
  BY TradeAssumption DEF TradeTypeOK, TradeAssumption
<1>2. PartnersAgree
  BY DEF PartnersAgree
<1>3. LocksMatch
  BY DEF LocksMatch
<1>4. TradersInReach
  BY DEF TradersInReach
<1>5. DeedInTrade
  BY DEF DeedInTrade
<1> QED BY <1>1, <1>2, <1>3, <1>4, <1>5 DEF TradeInv

\* A set of players that with a player contains the partner: nobody outside
\* loses a partner when their trades are reset.
Closed(S) == S \subseteq Traders
             /\ \A p \in Traders : tradePartner[p] # Nobody => (p \in S <=> tradePartner[p] \in S)

\* The players a trade involves are such a set.
LEMMA InvolvedClosed ==
    ASSUME TradeInv, NEW S, S \subseteq Traders
    PROVE  Closed(Involved(S))
BY Kinds DEF TradeInv, TradeTypeOK, PartnersAgree, Closed, Involved

\* Clearing the trades of such a set keeps all that is said of states and locks;
\* what is left is the document, who stands where and who carries what.
LEMMA ClearedKeeps ==
    ASSUME TradeInv, NEW S, Closed(S), TradesCleared(S)
    PROVE  /\ tradeState' \in [Traders -> {"none", "initiated", "acknowledge", "accept"}]
           /\ tradePartner' \in [Traders -> Traders \cup {Nobody}]
           /\ tradeItem' \in [Traders -> Goods \cup {Deed, Nobody}]
           /\ tradeItems' \subseteq tradeItems
           /\ PartnersAgree'
           /\ tradeItems' = {tradeItem'[p] : p \in Traders} \ {Nobody}
           /\ \A p, q \in Traders : tradeItem'[p] = tradeItem'[q] /\ p # q => tradeItem'[p] = Nobody
           /\ \A p \in Traders : \/ tradePartner'[p] = Nobody /\ tradeItem'[p] = Nobody /\ p \in S
                                 \/ /\ p \notin S /\ tradePartner'[p] = tradePartner[p]
                                    /\ tradeItem'[p] = tradeItem[p]
<1> USE Kinds
<1>1. /\ tradeState' \in [Traders -> {"none", "initiated", "acknowledge", "accept"}]
      /\ tradePartner' \in [Traders -> Traders \cup {Nobody}]
      /\ tradeItem' \in [Traders -> Goods \cup {Deed, Nobody}]
      /\ tradeItems' \subseteq tradeItems
  BY DEF TradeInv, TradeTypeOK, TradesCleared, Closed
<1>3. \A p \in Traders :
         /\ p \in S => tradeState'[p] = "none" /\ tradePartner'[p] = Nobody /\ tradeItem'[p] = Nobody
         /\ p \notin S => /\ tradeState'[p] = tradeState[p] /\ tradePartner'[p] = tradePartner[p]
                          /\ tradeItem'[p] = tradeItem[p]
  BY DEF TradesCleared, TradeInv, TradeTypeOK
<1>4. PartnersAgree'
  BY <1>1, <1>3 DEF TradeInv, TradeTypeOK, PartnersAgree, Closed
<1>5. \A p, q \in Traders : tradeItem'[p] = tradeItem'[q] /\ p # q => tradeItem'[p] = Nobody
  BY <1>3 DEF TradeInv, LocksMatch
<1>6. tradeItems' = {tradeItem'[p] : p \in Traders} \ {Nobody}
  <2>1. tradeItems' = tradeItems \ {tradeItem[p] : p \in S}
    BY DEF TradesCleared
  <2>2. tradeItems = {tradeItem[p] : p \in Traders} \ {Nobody}
    BY DEF TradeInv, LocksMatch
  <2>3. \A p, q \in Traders : tradeItem[p] = tradeItem[q] /\ p # q => tradeItem[p] = Nobody
    BY DEF TradeInv, LocksMatch
  <2>4. S \subseteq Traders
    BY DEF Closed
  <2> QED BY <1>3, <2>1, <2>2, <2>3, <2>4
<1> QED BY <1>1, <1>3, <1>4, <1>5, <1>6

\* What is said of the house and its document.
HouseOK ==
    /\ houseOwner \in Traders \cup {Nobody} /\ transferItem \in BOOLEAN
    /\ onRestart \in BOOLEAN /\ promised \subseteq Traders \cup {Nobody}
    /\ DeedInTrade

LEMMA InvHouse == TradeInv => HouseOK
BY DEF TradeInv, TradeTypeOK, HouseOK

\* A trade of the document that is cancelled takes the document with it.
LEMMA ResetKeepsHouse ==
    ASSUME TradeInv, NEW S, Closed(S), Reset(S)
    PROVE  HouseOK'
<1> USE Kinds
<1>1. TradesCleared(S) /\ UNCHANGED <<houseOwner, onRestart, promised>>
  BY DEF Reset
<1>2. \A p \in Traders : \/ tradeItem'[p] = Nobody /\ p \in S
                         \/ p \notin S /\ tradeItem'[p] = tradeItem[p]
  BY <1>1, ClearedKeeps
<1>3. transferItem' = (transferItem /\ \A p \in S : tradeItem[p] # Deed)
  BY DEF Reset
<1>4. \A p, q \in Traders : tradeItem[p] = tradeItem[q] /\ p # q => tradeItem[p] = Nobody
  BY DEF TradeInv, LocksMatch
<1>5. S \subseteq Traders
  BY DEF Closed
<1>6. OwnershipIsDue' = OwnershipIsDue
  BY <1>1 DEF OwnershipIsDue
<1>7. DeedInTrade'
  <2>1. /\ (\E p \in Traders : tradeItem[p] = Deed) => transferItem
        /\ transferItem => (\E p \in Traders : tradeItem[p] = Deed) \/ OwnershipIsDue
    BY DEF TradeInv, DeedInTrade
  <2>2. (\E p \in Traders : tradeItem'[p] = Deed) => transferItem'
    BY <1>2, <1>3, <1>4, <1>5, <2>1
  <2>3. transferItem' => (\E p \in Traders : tradeItem'[p] = Deed) \/ OwnershipIsDue'
    BY <1>2, <1>3, <1>6, <2>1
  <2> QED BY <2>2, <2>3 DEF DeedInTrade
<1> QED BY <1>1, <1>3, <1>7 DEF HouseOK, TradeInv, TradeTypeOK

-----------------------------------------------------------------------------
(* Every step keeps the invariant.                                          *)

\* InRange does not care who of the two is asked.
LEMMA InRangeSymmetric ==
    ASSUME NEW x \in Int, NEW y \in Int, NEW d \in Int
    PROVE  InRange(x, y, d) <=> InRange(y, x, d)
BY DEF InRange

\* What a player offers is not Nobody, is not in a trade already, and neither
\* is what it is in or what is in it.
LEMMA StartKeeps ==
    ASSUME TradeInv, NEW p \in Traders, NEW q \in Traders, NEW i \in Goods \cup {Deed},
           p # q, MayStart(p, q), InRange(pos[p], pos[q], 2),
           internalStartTrade(p, q, i),
           UNCHANGED <<pos, place, houseOwner, onRestart, promised>>,
           i \notin tradeItems,
           i \in Goods => ~BeingTraded(i) /\ Reaches(p, i) /\ UNCHANGED transferItem,
           i = Deed => transferItem' = TRUE
    PROVE  TradeInv'
<1> USE Kinds
<1>1. TradeTypeOK'
  <2>1. transferItem' \in BOOLEAN
    BY DEF TradeInv, TradeTypeOK
  <2> QED BY <2>1 DEF TradeInv, TradeTypeOK, internalStartTrade
<1>2. /\ tradePartner'[p] = q /\ tradePartner'[q] = p /\ tradeItem[p] = Nobody /\ tradeItem'[p] = i
      /\ tradeState'[p] = "initiated"
      /\ tradeState'[q] = IF tradeState[q] = "none" THEN "acknowledge" ELSE tradeState[q]
      /\ \A r \in Traders \ {p} : tradeItem'[r] = tradeItem[r]
      /\ \A r \in Traders \ {p, q} : tradePartner'[r] = tradePartner[r] /\ tradeState'[r] = tradeState[r]
  BY DEF TradeInv, TradeTypeOK, PartnersAgree, internalStartTrade, MayStart
<1>3. \A r \in Traders \ {p, q} : tradePartner[r] \notin {p, q}
  BY DEF TradeInv, TradeTypeOK, PartnersAgree, MayStart
<1>4. PartnersAgree'
  <2> SUFFICES ASSUME NEW r \in Traders
               PROVE  /\ tradeState'[r] = "none" <=> tradePartner'[r] = Nobody
                      /\ tradePartner'[r] # Nobody =>
                            /\ tradePartner'[r] # r /\ tradePartner'[tradePartner'[r]] = r
                            /\ tradeItem'[r] # Nobody \/ tradeItem'[tradePartner'[r]] # Nobody
                      /\ tradeState'[r] \in {"none", "acknowledge"} => tradeItem'[r] = Nobody
                      /\ tradeState'[r] = "initiated" => tradeItem'[r] # Nobody
    BY DEF PartnersAgree
  <2>1. CASE r = p
    BY <2>1, <1>2
  <2>2. CASE r = q
    BY <2>2, <1>2 DEF TradeInv, PartnersAgree, MayStart
  <2>3. CASE r \notin {p, q}
    BY <2>3, <1>2, <1>3 DEF TradeInv, TradeTypeOK, PartnersAgree
  <2> QED BY <2>1, <2>2, <2>3
<1>5. tradeItems' = tradeItems \cup {i}
  BY DEF internalStartTrade
<1>6. LocksMatch'
  <2>1. tradeItems' = {tradeItem'[r] : r \in Traders} \ {Nobody}
    <3>1. tradeItems = {tradeItem[r] : r \in Traders} \ {Nobody}
      BY DEF TradeInv, LocksMatch
    <3> QED BY <1>2, <1>5, <3>1
  <2>2. \A r1, r2 \in Traders : tradeItem'[r1] = tradeItem'[r2] /\ r1 # r2 => tradeItem'[r1] = Nobody
    BY <1>2 DEF TradeInv, LocksMatch
  <2>3. \A j \in tradeItems' \cap Goods : place'[j] \notin tradeItems'
    <3> SUFFICES ASSUME NEW j \in tradeItems' \cap Goods PROVE place[j] \notin tradeItems'
      OBVIOUS
    <3>1. place[j] \in Traders \cup Spots \cup Bags /\ (j \in Bags => place[j] \notin Bags)
      BY DEF TradeInv, TradeTypeOK
    <3>2. CASE j = i
      BY <3>1, <3>2, <1>5 DEF BeingTraded
    <3>3. CASE j # i
      BY <3>1, <3>3, <1>5 DEF TradeInv, LocksMatch, BeingTraded
    <3> QED BY <3>2, <3>3
  <2> QED BY <2>1, <2>2, <2>3 DEF LocksMatch
<1>7. TradersInReach'
  <2>1. InRange(pos[q], pos[p], 2)
    BY InRangeSymmetric DEF TradeInv, TradeTypeOK
  <2> QED BY <1>2, <2>1 DEF TradeInv, TradersInReach, Reaches, Within, Carrier
<1>8. DeedInTrade'
  BY <1>2 DEF TradeInv, DeedInTrade, OwnershipIsDue
<1> QED BY <1>1, <1>4, <1>6, <1>7, <1>8 DEF TradeInv

\* Trades are reset and things are moved: what is left in the trades lies
\* where it lay, and who trades stands near enough.
LEMMA CloseKeeps ==
    ASSUME TradeInv, NEW S, Closed(S), TradesCleared(S), HouseOK',
           pos' \in [Traders -> Spots], place' \in [Goods -> Traders \cup Spots \cup Bags],
           \A i \in Bags : place'[i] \notin Bags,
           \A p \in Traders \ S : tradePartner[p] # Nobody =>
                 InRange(pos'[p], pos'[tradePartner[p]], 2),
           \A p \in Traders \ S, i \in Goods : tradeItem[p] = i =>
                 place'[i] = place[i] /\ Reaches(p, i)'
    PROVE  TradeInv'
<1> USE Kinds
<1>1. /\ PartnersAgree' /\ DeedInTrade'
      /\ tradeItems' = {tradeItem'[p] : p \in Traders} \ {Nobody}
      /\ tradeItems' \subseteq tradeItems
      /\ \A p, q \in Traders : tradeItem'[p] = tradeItem'[q] /\ p # q => tradeItem'[p] = Nobody
      /\ \A p \in Traders : \/ tradePartner'[p] = Nobody /\ tradeItem'[p] = Nobody /\ p \in S
                            \/ /\ p \notin S /\ tradePartner'[p] = tradePartner[p]
                               /\ tradeItem'[p] = tradeItem[p]
  BY ClearedKeeps DEF HouseOK
<1>2. TradeTypeOK'
  BY ClearedKeeps DEF TradeInv, TradeTypeOK, HouseOK
<1>3. LocksMatch'
  <2>1. \A i \in tradeItems' \cap Goods : place'[i] = place[i]
    BY <1>1
  <2>2. \A i \in tradeItems' \cap Goods : place'[i] \notin tradeItems'
    BY <1>1, <2>1 DEF TradeInv, LocksMatch
  <2> QED BY <1>1, <2>2 DEF LocksMatch
<1>4. TradersInReach'
  BY <1>1 DEF TradersInReach, Reaches
<1> QED BY <1>1, <1>2, <1>3, <1>4 DEF TradeInv

\* Who carries an item does not change when neither the item nor the bag it is
\* in is moved.
LEMMA CarrierKept ==
    ASSUME TradeTypeOK, NEW i \in Goods, place'[i] = place[i],
           place[i] \in Bags => place'[place[i]] = place[place[i]]
    PROVE  Carrier(i)' = Carrier(i)
BY DEF Carrier

\* Closing trades where nothing moves and nobody walks.
LEMMA CloseOnlyKeeps ==
    ASSUME TradeInv, NEW S, Closed(S), Reset(S), UNCHANGED <<pos, place>>
    PROVE  TradeInv'
<1>1. \A p \in Traders, i \in Goods : tradeItem[p] = i => Reaches(p, i)'
  BY DEF TradeInv, TradersInReach, Reaches, Within, Carrier
<1>2. TradesCleared(S) /\ HouseOK'
  BY ResetKeepsHouse DEF Reset
<1> QED BY <1>1, <1>2, CloseKeeps DEF TradeInv, TradeTypeOK, TradersInReach

LEMMA RequestKeeps ==
    ASSUME TradeInv, NEW p \in Traders, NEW q \in Traders, NEW i \in Goods,
           playerRequestTrade(p, q, i)
    PROVE  TradeInv'
<1>1. i \notin tradeItems
  BY DEF playerRequestTrade, BeingTraded
<1> QED BY <1>1, StartKeeps, Kinds DEF playerRequestTrade, houseVars

\* What happens to the house alone is nothing to the trades.
LEMMA HouseKeeps ==
    ASSUME TradeInv, HouseOK',
           UNCHANGED <<tradeState, tradePartner, tradeItem, tradeItems, pos, place>>
    PROVE  TradeInv'
BY DEF TradeInv, TradeTypeOK, PartnersAgree, LocksMatch, TradersInReach, HouseOK,
       Reaches, Within, Carrier, InRange

LEMMA StartTradeKeeps ==
    ASSUME TradeInv, NEW p \in Traders, NEW q \in Traders, startTrade(p, q)
    PROVE  TradeInv'
<1>1. CASE OwnershipIsDue
  <2>1. /\ UNCHANGED <<tradeState, tradePartner, tradeItem, tradeItems, pos, place>>
        /\ UNCHANGED <<houseOwner, onRestart, promised>> /\ transferItem' = TRUE
    BY <1>1 DEF startTrade
  <2>2. HouseOK'
    BY <1>1, <2>1 DEF TradeInv, TradeTypeOK, HouseOK, DeedInTrade, OwnershipIsDue
  <2> QED BY <2>1, <2>2, HouseKeeps
<1>2. CASE ~OwnershipIsDue
  <2>1. Deed \notin tradeItems
    BY Kinds DEF startTrade, TradeInv, LocksMatch, DeedInTrade
  <2> QED BY <1>2, <2>1, StartKeeps, Kinds DEF startTrade
<1> QED BY <1>1, <1>2

LEMMA CloseTradeKeeps ==
    ASSUME TradeInv, NEW p \in Traders, playerCloseTrade(p)
    PROVE  TradeInv'
<1>1. Closed(Involved({p}))
  BY InvolvedClosed
<1> QED BY <1>1, CloseOnlyKeeps DEF playerCloseTrade, internalCloseTrade, TradeInv, TradeTypeOK

LEMMA WalkKeeps ==
    ASSUME TradeInv, NEW p \in Traders, NEW x \in Spots, Walk(p, x)
    PROVE  TradeInv'
<1> DEFINE S == Involved(IF LeftBehind(p, x) THEN {p} ELSE {})
<1> USE Kinds
<1>1. Closed(S) /\ TradesCleared(S) /\ HouseOK'
  <2>1. Closed(S)
    BY InvolvedClosed
  <2>2. Reset(S)
    BY DEF Walk, internalCloseTrade
  <2> QED BY <2>1, <2>2, ResetKeepsHouse DEF Reset
<1>2. pos' = [pos EXCEPT ![p] = x] /\ place' = place
  BY DEF Walk
<1>3. /\ \A y, i : Within(y, i)' = Within(y', i)
      /\ \A i : Carrier(i)' = Carrier(i)
      /\ pos'[p] = x /\ \A s \in Traders \ {p} : pos'[s] = pos[s]
  BY <1>2 DEF Within, InRange, Carrier, TradeInv, TradeTypeOK
<1>4. ASSUME NEW r \in Traders \ S
      PROVE  /\ tradePartner[r] # Nobody => InRange(pos'[r], pos'[tradePartner[r]], 2)
             /\ \A i \in Goods : tradeItem[r] = i => Reaches(r, i)'
  <2>1. /\ tradePartner[r] # Nobody => InRange(pos[r], pos[tradePartner[r]], 2)
        /\ tradeItem[r] \in Goods => Reaches(r, tradeItem[r])
        /\ tradePartner[r] \in Traders \cup {Nobody} /\ tradePartner[r] # r
        /\ tradePartner[r] # Nobody => tradePartner[tradePartner[r]] = r
    BY DEF TradeInv, TradersInReach, TradeTypeOK, PartnersAgree
  <2>2. \A i : Reaches(r, i)' = (Carrier(i) = r \/ Within(pos'[r], i))
    BY <1>3 DEF Reaches
  <2>3. CASE r = p
    <3>1. ~LeftBehind(p, x)
      BY <2>3, <1>4 DEF Involved
    <3> QED BY <2>1, <2>2, <2>3, <3>1, <1>3 DEF LeftBehind
  <2>4. CASE r # p
    <3>1. CASE tradePartner[r] = p
      <4>1. ~LeftBehind(p, x) /\ tradePartner[p] = r
        BY <3>1, <1>4, <2>1 DEF Involved
      <4>2. InRange(x, pos[r], 2) /\ pos[r] \in Int /\ x \in Int
        BY <4>1 DEF LeftBehind, TradeInv, TradeTypeOK
      <4>3. InRange(pos[r], x, 2)
        BY <4>2, InRangeSymmetric
      <4> QED BY <1>3, <2>1, <2>2, <2>4, <3>1, <4>3 DEF Reaches
    <3>2. CASE tradePartner[r] # p
      BY <1>3, <2>1, <2>2, <2>4, <3>2 DEF Reaches
    <3> QED BY <3>1, <3>2
  <2> QED BY <2>3, <2>4
<1> QED BY <1>1, <1>2, <1>4, CloseKeeps DEF TradeInv, TradeTypeOK

LEMMA MoveItemKeeps ==
    ASSUME TradeInv, NEW p \in Traders, NEW i \in Goods,
           NEW to \in Traders \cup Spots \cup Bags, MoveItem(p, i, to)
    PROVE  TradeInv'
<1> DEFINE D == {q \in Traders :
                    tradeItem[q] # Nobody /\ Disturbs(i, place[i], to, tradeItem[q])}
           S == Involved(D)
<1> USE Kinds
<1>1. Closed(S) /\ TradesCleared(S) /\ HouseOK' /\ D \subseteq S
  <2>1. Closed(S)
    BY InvolvedClosed
  <2>2. Reset(S)
    BY DEF MoveItem, internalCloseTrade
  <2> QED BY <2>1, <2>2, ResetKeepsHouse DEF Reset, Involved
<1>2. place' = [place EXCEPT ![i] = to] /\ pos' = pos
  BY DEF MoveItem
<1>3. place' \in [Goods -> Traders \cup Spots \cup Bags] /\ \A j \in Bags : place'[j] \notin Bags
  BY <1>2 DEF TradeInv, TradeTypeOK, MoveItem
<1>4. ASSUME NEW q \in Traders \ S, NEW t \in Goods, tradeItem[q] = t
      PROVE  place'[t] = place[t] /\ Reaches(q, t)'
  <2>1. t # i /\ ~(i \in Bags /\ t \in Content(i))
    BY <1>1, <1>4 DEF Disturbs
  <2>2. place'[t] = place[t] /\ (place[t] \in Bags => place'[place[t]] = place[place[t]])
    BY <1>2, <2>1 DEF TradeInv, TradeTypeOK, Content
  <2>3. Carrier(t)' = Carrier(t)
    BY <2>2, CarrierKept DEF TradeInv
  <2>4. Reaches(q, t)
    BY <1>4 DEF TradeInv, TradersInReach
  <2> QED BY <1>2, <2>2, <2>3, <2>4 DEF Reaches, Within, InRange
<1> QED BY <1>1, <1>2, <1>3, <1>4, CloseKeeps DEF TradeInv, TradeTypeOK, TradersInReach

\* Both sides of a trade.
LEMMA BothClosed ==
    ASSUME TradeInv, NEW p \in Traders, tradePartner[p] # Nobody
    PROVE  /\ Closed({p, tradePartner[p]}) /\ tradePartner[p] \in Traders \ {p}
           /\ tradePartner[tradePartner[p]] = p
BY Kinds DEF TradeInv, TradeTypeOK, PartnersAgree, Closed

\* Where things are when the first item of an exchange has been moved.
After(i1) == IF i1 = Deed THEN place ELSE [place EXCEPT ![i1] = place'[i1]]

\* What is exchanged are two things, and nothing else is moved.
LEMMA ExchangeMoves ==
    ASSUME TradeInv, NEW p \in Traders, NEW q \in Traders, p # q, tradePartner[p] = q, Exchange(p, q),
           NEW i1, NEW i2, tradeItem[p] = i1, tradeItem[q] = i2
    PROVE  /\ i1 \in Goods \cup {Deed} /\ i2 \in Goods \cup {Deed} /\ i1 # i2
           /\ place' \in [Goods -> Traders \cup Spots \cup Bags]
           /\ \A i \in Bags : place'[i] \notin Bags
           /\ \A i \in Goods \ {i1, i2} : place'[i] = place[i]
           /\ i1 \in Goods => place'[i1] \in Places(q, i1, place)
           /\ i2 \in Goods => \/ Places(p, i2, After(i1)) = {} /\ place'[i2] = place[i2]
                              \/ place'[i2] \in Places(p, i2, After(i1))
<1> USE Kinds
<1>1. i1 # Nobody /\ i2 # Nobody
  BY DEF Exchange, CanAdd
<1>2. i1 \in Goods \cup {Deed} /\ i2 \in Goods \cup {Deed} /\ i1 # i2
  BY <1>1 DEF TradeInv, TradeTypeOK, LocksMatch
<1>3. PICK d1 \in Places(q, i1, place) :
         LET at == IF i1 = Deed THEN place ELSE [place EXCEPT ![i1] = d1]
         IN  IF i2 = Deed \/ Places(p, i2, at) = {}
             THEN place' = at
             ELSE \E d2 \in Places(p, i2, at) : place' = [at EXCEPT ![i2] = d2]
  BY DEF Exchange, Moved
<1> DEFINE at == IF i1 = Deed THEN place ELSE [place EXCEPT ![i1] = d1]
<1>4. /\ at \in [Goods -> Traders \cup Spots \cup Bags]
      /\ \A i \in Bags : at[i] \notin Bags
      /\ \A i \in Goods \ {i1} : at[i] = place[i]
      /\ i1 \in Goods => at[i1] = d1
  BY <1>2, <1>3 DEF TradeInv, TradeTypeOK, Places
<1>5. CASE i2 = Deed \/ Places(p, i2, at) = {}
  <2>1. place' = at
    BY <1>3, <1>5
  <2>2. at = After(i1)
    BY <1>2, <1>4, <2>1 DEF After
  <2> QED BY <1>2, <1>3, <1>4, <1>5, <2>1, <2>2
<1>6. CASE i2 # Deed /\ Places(p, i2, at) # {}
  <2>1. PICK d2 \in Places(p, i2, at) : place' = [at EXCEPT ![i2] = d2]
    BY <1>3, <1>6
  <2>2. place'[i2] = d2 /\ \A i \in Goods \ {i2} : place'[i] = at[i]
    BY <1>2, <1>4, <1>6, <2>1
  <2>3. d2 = p \/ (d2 \in Bags /\ i2 \notin Bags)
    BY <2>1 DEF Places
  <2>4. place' \in [Goods -> Traders \cup Spots \cup Bags] /\ \A i \in Bags : place'[i] \notin Bags
    BY <1>2, <1>4, <1>6, <2>1, <2>2, <2>3
  <2>5. (i1 \in Goods => place'[i1] = d1) /\ at = After(i1)
    BY <1>2, <1>4, <2>2 DEF After
  <2>6. \A i \in Goods \ {i1, i2} : place'[i] = place[i]
    BY <1>4, <2>2
  <2>7. i1 \in Goods => place'[i1] \in Places(q, i1, place)
    BY <1>3, <2>5
  <2>8. i2 \in Goods => place'[i2] \in Places(p, i2, After(i1))
    BY <2>1, <2>2, <2>5
  <2> QED BY <1>2, <2>4, <2>6, <2>7, <2>8
<1> QED BY <1>5, <1>6

\* A document that is handed over is the only one, and stays only when the house
\* was promised before.
LEMMA TransferredKeepsHouse ==
    ASSUME TradeInv, NEW p \in Traders, NEW q \in Traders, Closed({p, q}),
           Transferred(tradeItem[p], tradeItem[q], p, q)
    PROVE  HouseOK'
<1> USE Kinds
<1>1. \A r \in Traders : \/ tradeItem'[r] = Nobody /\ r \in {p, q}
                         \/ r \notin {p, q} /\ tradeItem'[r] = tradeItem[r]
  BY ClearedKeeps DEF Transferred
<1>2. \A r1, r2 \in Traders : tradeItem[r1] = tradeItem[r2] /\ r1 # r2 => tradeItem[r1] = Nobody
  BY DEF TradeInv, LocksMatch
<1>3. HouseOK
  BY InvHouse
<1>4. CASE tradeItem[p] # Deed /\ tradeItem[q] # Deed
  <2>1. UNCHANGED houseVars
    BY <1>4 DEF Transferred
  <2> QED BY <1>1, <1>3, <1>4, <2>1 DEF houseVars, HouseOK, DeedInTrade, OwnershipIsDue
<1>5. ASSUME NEW r \in {p, q}, executeTransfer(r), tradeItem[p] = Deed \/ tradeItem[q] = Deed
      PROVE  HouseOK'
  <2>1. \A x \in Traders : tradeItem'[x] # Deed
    BY <1>1, <1>2, <1>5
  <2>2. CASE OwnershipIsDue
    <3>1. UNCHANGED houseVars
      BY <1>5, <2>2 DEF executeTransfer, houseVars
    <3> QED BY <1>3, <2>1, <2>2, <3>1 DEF houseVars, HouseOK, DeedInTrade, OwnershipIsDue
  <2>3. CASE ~OwnershipIsDue
    BY <1>3, <1>5, <2>1, <2>3 DEF executeTransfer, HouseOK, DeedInTrade
  <2> QED BY <2>2, <2>3
<1> QED BY <1>4, <1>5 DEF Transferred

LEMMA ExchangeKeeps ==
    ASSUME TradeInv, NEW p \in Traders, NEW q \in Traders, tradePartner[p] = q,
           Exchange(p, q), pos' = pos
    PROVE  TradeInv'
<1> USE Kinds
<1> DEFINE i1 == tradeItem[p]
           i2 == tradeItem[q]
<1>1. Closed({p, q}) /\ p # q /\ TradesCleared({p, q})
  BY BothClosed DEF Exchange, Transferred
<1>2. HouseOK'
  BY <1>1, TransferredKeepsHouse DEF Exchange
<1>3. /\ place' \in [Goods -> Traders \cup Spots \cup Bags] /\ \A i \in Bags : place'[i] \notin Bags
      /\ \A i \in Goods \ {i1, i2} : place'[i] = place[i]
  <2> HIDE DEF i1, i2
  <2>1. tradeItem[p] = i1 /\ tradeItem[q] = i2
    BY DEF i1, i2
  <2> QED BY <1>1, <2>1, ExchangeMoves
<1>4. ASSUME NEW r \in Traders \ {p, q}, NEW t \in Goods, tradeItem[r] = t
      PROVE  place'[t] = place[t] /\ Reaches(r, t)'
  <2>1. t \notin {i1, i2} /\ i1 \in tradeItems \cup {Nobody} /\ i2 \in tradeItems \cup {Nobody}
        /\ t \in tradeItems /\ place[t] \notin tradeItems
    BY <1>4 DEF TradeInv, LocksMatch
  <2>2. place[t] \in Bags => place[t] \notin {i1, i2}
    BY <2>1
  <2>3. place'[t] = place[t] /\ (place[t] \in Bags => place'[place[t]] = place[place[t]])
    BY <1>3, <2>1, <2>2
  <2>4. Carrier(t)' = Carrier(t)
    BY <2>3, CarrierKept DEF TradeInv
  <2>5. Reaches(r, t)
    BY <1>4 DEF TradeInv, TradersInReach
  <2> QED BY <2>3, <2>4, <2>5 DEF Reaches, Within, InRange
<1> QED BY <1>1, <1>2, <1>3, <1>4, CloseKeeps DEF TradeInv, TradeTypeOK, TradersInReach

LEMMA AcceptKeeps ==
    ASSUME TradeInv, NEW p \in Traders, playerAcceptTrade(p)
    PROVE  TradeInv'
<1> DEFINE q == tradePartner[p]
<1> USE Kinds
<1>1. /\ tradeState[p] \in {"acknowledge", "initiated"} /\ q # Nobody /\ pos' = pos
  BY DEF playerAcceptTrade
<1>2. q \in Traders \ {p} /\ tradePartner[q] = p /\ Closed({p, q})
  BY <1>1, BothClosed
<1>3. CASE Exchange(p, q)
  BY <1>1, <1>2, <1>3, ExchangeKeeps
<1>4. CASE Fail(p, q)
  BY <1>1, <1>2, <1>4, CloseOnlyKeeps DEF Fail, TradeInv, TradeTypeOK
<1>5. CASE /\ tradeState' = [tradeState EXCEPT ![p] = "accept"]
           /\ UNCHANGED <<tradePartner, tradeItem, tradeItems, place, houseVars>>
  <2>1. TradeTypeOK'
    BY <1>1, <1>5 DEF TradeInv, TradeTypeOK, houseVars
  <2>2. PartnersAgree'
    BY <1>1, <1>5 DEF TradeInv, TradeTypeOK, PartnersAgree
  <2>3. LocksMatch' /\ DeedInTrade'
    BY <1>5 DEF TradeInv, LocksMatch, DeedInTrade, houseVars, OwnershipIsDue
  <2>4. TradersInReach'
    BY <1>1, <1>5 DEF TradeInv, TradersInReach, Reaches, Within, Carrier, InRange
  <2> QED BY <2>1, <2>2, <2>3, <2>4 DEF TradeInv
<1> QED BY <1>3, <1>4, <1>5 DEF playerAcceptTrade

THEOREM TradeStepInv == TradeInv /\ [TradeNext]_tradeVars => TradeInv'
<1> SUFFICES ASSUME TradeInv, [TradeNext]_tradeVars PROVE TradeInv'
  OBVIOUS
<1>1. CASE \E p, q \in Traders : startTrade(p, q) \/ \E i \in Goods : playerRequestTrade(p, q, i)
  BY <1>1, StartTradeKeeps, RequestKeeps
<1>2. CASE \E p \in Traders : playerAcceptTrade(p) \/ playerCloseTrade(p)
  BY <1>2, AcceptKeeps, CloseTradeKeeps
<1>3. CASE \E p \in Traders : leaveHouse(p) \/ buyHouse(p)
  <2>1. ASSUME NEW p \in Traders, leaveHouse(p) PROVE HouseOK'
    BY <2>1, InvHouse, Kinds DEF leaveHouse, HouseOK, DeedInTrade, OwnershipIsDue
  <2>2. ASSUME NEW p \in Traders, buyHouse(p) PROVE HouseOK'
    BY <2>2, InvHouse DEF buyHouse, HouseOK, DeedInTrade, OwnershipIsDue
  <2> QED BY <1>3, <2>1, <2>2, HouseKeeps DEF leaveHouse, buyHouse
<1>4. CASE \E p \in Traders, x \in Spots : Walk(p, x)
  BY <1>4, WalkKeeps
<1>5. CASE \E p \in Traders, i \in Goods, to \in Traders \cup Spots \cup Bags : MoveItem(p, i, to)
  BY <1>5, MoveItemKeeps
<1>6. CASE UNCHANGED tradeVars
  <2>1. HouseOK'
    BY <1>6, InvHouse DEF tradeVars, houseVars, HouseOK, DeedInTrade, OwnershipIsDue
  <2> QED BY <1>6, <2>1, HouseKeeps DEF tradeVars
<1> QED BY <1>1, <1>2, <1>3, <1>4, <1>5, <1>6 DEF TradeNext

\* Partners name each other, the locks are the items of the trades, who trades
\* is in reach, and a house keeps a document that nobody offers only when it has
\* been promised from the next restart on.
THEOREM TradeInvariance == TradeSpec => []TradeInv
BY TradeInitInv, TradeStepInv, PTL DEF TradeSpec

-----------------------------------------------------------------------------
(* The house on offer.                                                      *)

\* Who offers a house has it, and has not promised it to anybody.
DeedOfOwner == \A p \in Traders : tradeItem[p] = Deed => houseOwner = p /\ ~OwnershipIsDue

\* What clearing the trades of a set of players does to what they offer.
LEMMA ResetItems ==
    ASSUME TradeInv, NEW S, TradesCleared(S), NEW p \in Traders
    PROVE  tradeItem'[p] = IF p \in S THEN Nobody ELSE tradeItem[p]
BY DEF TradesCleared

LEMMA ExchangeKeepsDeed ==
    ASSUME TradeInv, DeedOfOwner, NEW p \in Traders, NEW q \in Traders, Exchange(p, q)
    PROVE  DeedOfOwner'
<1> USE Kinds
<1> SUFFICES ASSUME NEW r \in Traders, tradeItem'[r] = Deed
             PROVE  houseOwner' = r /\ ~OwnershipIsDue'
  BY DEF DeedOfOwner
<1>1. tradeItem[r] = Deed /\ r \notin {p, q}
  BY ResetItems DEF Exchange, Transferred
<1>2. tradeItem[p] # Deed /\ tradeItem[q] # Deed
  BY <1>1 DEF TradeInv, LocksMatch
<1>3. UNCHANGED houseVars
  BY <1>2 DEF Exchange, Transferred
<1> QED BY <1>1, <1>3 DEF houseVars, DeedOfOwner, OwnershipIsDue

LEMMA DeedStep ==
    ASSUME LeaveWhileTrading = FALSE, TradeInv, DeedOfOwner, [TradeNext]_tradeVars
    PROVE  DeedOfOwner'
<1> USE Kinds
<1>1. ASSUME NEW S, Reset(S) PROVE DeedOfOwner'
  BY <1>1, ResetItems DEF Reset, DeedOfOwner, OwnershipIsDue
<1>2. ASSUME NEW p \in Traders, NEW q \in Traders, NEW i \in Goods, playerRequestTrade(p, q, i)
      PROVE  DeedOfOwner'
  BY <1>2 DEF playerRequestTrade, internalStartTrade, DeedOfOwner, TradeInv, TradeTypeOK,
              houseVars, OwnershipIsDue
<1>3. ASSUME NEW p \in Traders, NEW q \in Traders, startTrade(p, q) PROVE DeedOfOwner'
  <2>1. \A r \in Traders : tradeItem[r] # Deed
    BY <1>3 DEF startTrade, TradeInv, DeedInTrade
  <2>2. houseOwner = p /\ houseOwner' = houseOwner /\ OwnershipIsDue' = OwnershipIsDue
    BY <1>3 DEF startTrade, OwnershipIsDue
  <2>3. CASE OwnershipIsDue
    BY <1>3, <2>1, <2>3 DEF startTrade, DeedOfOwner
  <2>4. CASE ~OwnershipIsDue
    BY <1>3, <2>1, <2>2, <2>4
       DEF startTrade, internalStartTrade, DeedOfOwner, TradeInv, TradeTypeOK
  <2> QED BY <2>3, <2>4
<1>4. ASSUME NEW p \in Traders, playerAcceptTrade(p) PROVE DeedOfOwner'
  <2>1. tradePartner[p] \in Traders
    BY <1>4 DEF playerAcceptTrade, TradeInv, TradeTypeOK
  <2>2. CASE Exchange(p, tradePartner[p])
    BY <2>1, <2>2, ExchangeKeepsDeed
  <2>3. CASE Fail(p, tradePartner[p])
    BY <2>3, <1>1 DEF Fail
  <2>4. CASE UNCHANGED <<tradePartner, tradeItem, tradeItems, place, houseVars>>
    BY <2>4 DEF DeedOfOwner, houseVars, OwnershipIsDue
  <2> QED BY <1>4, <2>2, <2>3, <2>4 DEF playerAcceptTrade
<1>5. ASSUME NEW p \in Traders, playerCloseTrade(p) PROVE DeedOfOwner'
  BY <1>1, <1>5 DEF playerCloseTrade, internalCloseTrade
<1>6. ASSUME NEW p \in Traders, NEW x \in Spots, Walk(p, x) PROVE DeedOfOwner'
  BY <1>1, <1>6 DEF Walk, internalCloseTrade
<1>7. ASSUME NEW p \in Traders, NEW i \in Goods, NEW to, MoveItem(p, i, to) PROVE DeedOfOwner'
  BY <1>1, <1>7 DEF MoveItem, internalCloseTrade
<1>8. ASSUME NEW p \in Traders, leaveHouse(p) PROVE DeedOfOwner'
  BY <1>8 DEF leaveHouse, DeedOfOwner, TradeInv, DeedInTrade
<1>9. ASSUME NEW p \in Traders, buyHouse(p) PROVE DeedOfOwner'
  BY <1>9 DEF buyHouse, DeedOfOwner, OwnershipIsDue
<1>10. CASE UNCHANGED tradeVars
  BY <1>10 DEF tradeVars, houseVars, DeedOfOwner, OwnershipIsDue
<1> QED BY <1>2, <1>3, <1>4, <1>5, <1>6, <1>7, <1>8, <1>9, <1>10 DEF TradeNext

\* Who offers a house owns it and has not promised it, as long as it is not left
\* meanwhile.
THEOREM DeedInvariance ==
    ASSUME LeaveWhileTrading = FALSE
    PROVE  TradeSpec => []DeedOfOwner
<1>1. TradeInit => DeedOfOwner
  BY Kinds DEF TradeInit, DeedOfOwner
<1>2. TradeInv /\ DeedOfOwner /\ [TradeNext]_tradeVars => DeedOfOwner'
  BY DeedStep
<1> QED BY <1>1, <1>2, TradeInvariance, PTL DEF TradeSpec

\* executeTransfer gives a house away for the one who offered it, who still
\* has it and has not promised it to anybody, and to the partner.
THEOREM SoldByOwner ==
    ASSUME LeaveWhileTrading = FALSE
    PROVE  TradeSpec => HouseSoldByOwner
<1>1. ASSUME TradeInv, DeedOfOwner, NEW p \in Traders,
             <<houseOwner, promised>>' # <<houseOwner, promised>>, playerAcceptTrade(p)
      PROVE  \E seller \in {p, tradePartner[p]} :
                 /\ houseOwner = seller /\ tradeItem[seller] = Deed /\ ~OwnershipIsDue
                 /\ Given(Deed, tradePartner[seller])
  <2> DEFINE q == tradePartner[p]
  <2>1. q \in Traders \ {p} /\ tradePartner[q] = p
    BY <1>1, BothClosed DEF playerAcceptTrade
  <2>2. Exchange(p, q)
    BY <1>1 DEF playerAcceptTrade, Fail, Reset, houseVars
  <2>3. Transferred(tradeItem[p], tradeItem[q], p, q)
    BY <2>2 DEF Exchange
  <2>4. CASE tradeItem[p] = Deed
    <3>1. tradeItem[q] # Deed
      BY <1>1, <2>1, <2>4, Kinds DEF TradeInv, LocksMatch
    <3>2. executeTransfer(q) /\ houseOwner = p /\ ~OwnershipIsDue
      BY <1>1, <2>3, <2>4, <3>1 DEF Transferred, DeedOfOwner
    <3>3. Given(Deed, q)
      BY <3>2 DEF executeTransfer, Given
    <3> QED BY <2>4, <3>2, <3>3
  <2>5. CASE tradeItem[p] # Deed /\ tradeItem[q] = Deed
    <3>1. executeTransfer(p) /\ houseOwner = q /\ ~OwnershipIsDue
      BY <1>1, <2>1, <2>3, <2>5 DEF Transferred, DeedOfOwner
    <3>2. Given(Deed, p)
      BY <3>1 DEF executeTransfer, Given
    <3> QED BY <2>1, <2>5, <3>1, <3>2
  <2>6. CASE tradeItem[p] # Deed /\ tradeItem[q] # Deed
    <3>1. UNCHANGED houseVars
      BY <2>3, <2>6 DEF Transferred
    <3> QED BY <1>1, <3>1 DEF houseVars
  <2> QED BY <2>4, <2>5, <2>6
<1>2. TradeInv /\ DeedOfOwner /\ [TradeNext]_tradeVars =>
        [\A p \in Traders :
            <<houseOwner, promised>>' # <<houseOwner, promised>> /\ playerAcceptTrade(p) =>
               \E seller \in {p, tradePartner[p]} :
                  /\ houseOwner = seller /\ tradeItem[seller] = Deed /\ ~OwnershipIsDue
                  /\ Given(Deed, tradePartner[seller])]_tradeVars
  BY <1>1
<1> QED BY <1>2, TradeInvariance, DeedInvariance, PTL DEF TradeSpec, HouseSoldByOwner

-----------------------------------------------------------------------------
(* What is exchanged.                                                       *)

\* Who offers an item carries it or stands next to it: nobody else carries it.
LEMMA OthersDoNotCarry ==
    ASSUME TradeInv, NEW p \in Traders, NEW q \in Traders, p # q,
           NEW i \in Goods, tradeItem[p] = i
    PROVE  Carrier(i) # q
BY Kinds DEF TradeInv, TradersInReach, Reaches, Within

\* An exchange leaves what is in a bag of any trade where it is.
LEMMA ExchangeKeepsContent ==
    ASSUME TradeInv, NEW p \in Traders, NEW bag \in Bags, tradeItem[p] = bag,
           NEW a \in Traders, NEW b \in Traders, a # b, tradePartner[a] = b, Exchange(a, b)
    PROVE  Content(bag)' = Content(bag)
<1> USE Kinds
<1> DEFINE i1 == tradeItem[a]
           i2 == tradeItem[b]
<1>1. /\ i1 \in Goods \cup {Deed} /\ i2 \in Goods \cup {Deed} /\ i1 # i2
      /\ \A i \in Goods \ {i1, i2} : place'[i] = place[i]
      /\ i1 \in Goods => place'[i1] \in Places(b, i1, place)
      /\ i2 \in Goods => \/ Places(a, i2, After(i1)) = {} /\ place'[i2] = place[i2]
                         \/ place'[i2] \in Places(a, i2, After(i1))
  <2> HIDE DEF i1, i2
  <2>1. tradeItem[a] = i1 /\ tradeItem[b] = i2
    BY DEF i1, i2
  <2> QED BY <2>1, ExchangeMoves
<1>2. \A i \in {i1, i2} \cap Goods : place[i] # bag
  BY DEF TradeInv, LocksMatch
<1>3. bag \in Goods /\ place[bag] \notin Bags /\ Carrier(bag) = place[bag]
  BY DEF Carrier, TradeInv, TradeTypeOK
<1>4. i1 \in Goods => place'[i1] # bag
  <2> SUFFICES ASSUME i1 \in Goods, place'[i1] = bag PROVE FALSE
    OBVIOUS
  <2>1. i1 \notin Bags /\ place[bag] = b /\ bag # tradeItem[b]
    BY <1>1 DEF Places
  <2>2. p # b /\ Carrier(bag) = b
    BY <1>3, <2>1
  <2> QED BY <2>2, <1>3, OthersDoNotCarry
<1>5. i2 \in Goods => place'[i2] # bag
  <2> SUFFICES ASSUME i2 \in Goods, place'[i2] = bag PROVE FALSE
    OBVIOUS
  <2>1. i2 \notin Bags /\ After(i1)[bag] = a /\ bag # i1
    BY <1>1, <1>2 DEF Places
  <2>2. p # a /\ Carrier(bag) = a
    BY <1>3, <2>1 DEF After, TradeInv, TradeTypeOK
  <2> QED BY <2>2, <1>3, OthersDoNotCarry
<1> QED BY <1>1, <1>2, <1>4, <1>5 DEF Content

LEMMA AcceptKeepsContent ==
    ASSUME TradeInv, NEW p \in Traders, NEW bag \in Bags, tradeItem[p] = bag,
           NEW a \in Traders, playerAcceptTrade(a)
    PROVE  Content(bag)' = Content(bag)
<1>1. CASE Exchange(a, tradePartner[a])
  BY <1>1, BothClosed, ExchangeKeepsContent DEF playerAcceptTrade
<1>2. CASE place' = place
  BY <1>2 DEF Content
<1> QED BY <1>1, <1>2 DEF playerAcceptTrade, Fail

\* What a player was shown is what is exchanged.
THEOREM ShownGiven == TradeSpec => ShownIsGiven
<1>1. ASSUME TradeInv, TradeNext, NEW bag \in Bags, NEW p \in Traders, tradeItem[p] = bag,
             tradeItem'[p] = bag \/ \E q \in Traders : playerAcceptTrade(q)
      PROVE  Content(bag)' = Content(bag)
  <2>1. CASE \E q \in Traders : playerAcceptTrade(q)
    BY <1>1, <2>1, AcceptKeepsContent
  <2>2. CASE place' = place
    BY <2>2 DEF Content
  <2>3. ASSUME NEW q \in Traders, NEW i \in Goods, NEW to \in Traders \cup Spots \cup Bags,
               MoveItem(q, i, to), tradeItem'[p] = bag
        PROVE  Content(bag)' = Content(bag)
    <3> DEFINE D == {r \in Traders :
                        tradeItem[r] # Nobody /\ Disturbs(i, place[i], to, tradeItem[r])}
    <3>1. Reset(Involved(D)) /\ place' = [place EXCEPT ![i] = to]
      BY <2>3 DEF MoveItem, internalCloseTrade
    <3>2. p \notin D
      BY <1>1, <2>3, <3>1, ResetItems, Kinds DEF Reset, Involved
    <3>3. bag \notin {i, place[i], to}
      BY <1>1, <3>2, Kinds DEF Disturbs
    <3> QED BY <1>1, <3>1, <3>3 DEF Content, TradeInv, TradeTypeOK
  <2> QED BY <1>1, <2>1, <2>2, <2>3 DEF TradeNext, startTrade, playerRequestTrade,
             playerCloseTrade, leaveHouse, buyHouse, Walk
<1>2. TradeInv /\ [TradeNext]_tradeVars =>
        [\A bag \in Bags, p \in Traders :
            /\ tradeItem[p] = bag
            /\ tradeItem'[p] = bag \/ \E q \in Traders : playerAcceptTrade(q)
            => Content(bag)' = Content(bag)]_tradeVars
  BY <1>1
<1> QED BY <1>2, TradeInvariance, PTL DEF TradeSpec, ShownIsGiven

\* There is no less room for the second item when the first one is gone.
LEMMA RoomStays ==
    ASSUME TradeInv, NEW p \in Traders, NEW q \in Traders, p # q,
           NEW i1 \in Goods \cup {Deed}, NEW i2 \in Goods, tradeItem[p] = i1, tradeItem[q] = i2,
           place' \in [Goods -> Traders \cup Spots \cup Bags],
           i1 \in Goods => place'[i1] \in Places(q, i1, place),
           Places(p, i2, place) # {}
    PROVE  Places(p, i2, After(i1)) # {}
<1> USE Kinds
<1>1. CASE i1 = Deed
  BY <1>1 DEF After
<1>2. CASE i1 \in Goods
  <2> DEFINE d == place'[i1]
             at == After(i1)
  <2>1. at = [place EXCEPT ![i1] = d] /\ at[i1] = d /\ \A i \in Goods \ {i1} : at[i] = place[i]
    BY <1>2 DEF After, TradeInv, TradeTypeOK
  <2>2. d = q \/ (d \in Bags /\ d # i1 /\ place[d] = q)
    BY <1>2 DEF Places
  <2>3. CASE SlotFree(p, place)
    <3>1. {i \in Goods : at[i] = p} \subseteq {i \in Goods : place[i] = p}
      BY <2>1, <2>2
    <3>2. IsFiniteSet({i \in Goods : place[i] = p})
      BY TradeAssumption, FS_Subset DEF TradeAssumption
    <3>3. /\ Cardinality({i \in Goods : at[i] = p}) \in Nat
          /\ Cardinality({i \in Goods : place[i] = p}) \in Nat
          /\ Cardinality({i \in Goods : at[i] = p}) <= Cardinality({i \in Goods : place[i] = p})
      BY <3>1, <3>2, FS_Subset, FS_CardinalityType
    <3>4. Slots[p] \in Nat
      BY TradeAssumption DEF TradeAssumption
    <3>5. SlotFree(p, at)
      BY <2>3, <3>3, <3>4 DEF SlotFree
    <3> QED BY <3>5 DEF Places
  <2>4. CASE ~SlotFree(p, place)
    <3>1. PICK bag \in Bags \ {i1} : i2 \notin Bags /\ place[bag] = p /\ BagFree(bag, place)
      BY <2>4 DEF Places
    <3>2. at[bag] = p /\ d # bag
      BY <2>1, <2>2, <3>1
    <3>3. {i \in Goods : at[i] = bag} \subseteq {i \in Goods : place[i] = bag}
      BY <2>1, <3>2
    <3>4. IsFiniteSet({i \in Goods : place[i] = bag})
      BY TradeAssumption, FS_Subset DEF TradeAssumption
    <3>5. /\ Cardinality({i \in Goods : at[i] = bag}) \in Nat
          /\ Cardinality({i \in Goods : place[i] = bag}) \in Nat
          /\ Cardinality({i \in Goods : at[i] = bag}) <= Cardinality({i \in Goods : place[i] = bag})
      BY <3>3, <3>4, FS_Subset, FS_CardinalityType
    <3>6. BagSize \in Nat
      BY TradeAssumption DEF TradeAssumption
    <3>7. BagFree(bag, at)
      BY <3>1, <3>5, <3>6 DEF BagFree
    <3> QED BY <3>1, <3>2, <3>7 DEF Places
  <2> QED BY <2>3, <2>4
<1> QED BY <1>1, <1>2

\* Who is handed an item that a trade has found a place for carries it.
LEMMA PlacedIsGiven ==
    ASSUME TradeInv, NEW p \in Traders, NEW q \in Traders, p # q, NEW i \in Goods,
           tradeItem[p] = i, NEW c \in {q} \cup Bags, place'[i] = c,
           c \in Bags => place[c] = q /\ place'[c] = q
    PROVE  place'[i] # place[i] /\ Carrier(i)' = q
<1> USE Kinds
<1>1. Carrier(i) # q
  BY OthersDoNotCarry
<1>2. CASE c = q
  BY <1>1, <1>2 DEF Carrier
<1>3. CASE c \in Bags
  BY <1>1, <1>3 DEF Carrier
<1> QED BY <1>2, <1>3

LEMMA ExchangeGives ==
    ASSUME TradeInv, DeedOfOwner, NEW p \in Traders, NEW q \in Traders, p # q,
           tradePartner[p] = q, Exchange(p, q),
           NEW i1 \in Goods \cup {Deed}, NEW i2 \in Goods \cup {Deed},
           tradeItem[p] = i1, tradeItem[q] = i2
    PROVE  /\ Given(i1, q)
           /\ Given(i2, p) \/ (i2 \in Stackable /\ p \in Piles /\ Places(p, i2, place) = {})
<1> USE Kinds
<1>1. /\ i1 # i2 /\ place' \in [Goods -> Traders \cup Spots \cup Bags]
      /\ \A i \in Goods \ {i1, i2} : place'[i] = place[i]
      /\ i1 \in Goods => place'[i1] \in Places(q, i1, place)
      /\ i2 \in Goods => \/ Places(p, i2, After(i1)) = {} /\ place'[i2] = place[i2]
                         \/ place'[i2] \in Places(p, i2, After(i1))
  BY ExchangeMoves
<1>2. Given(i1, q)
  <2>1. CASE i1 = Deed
    <3>1. i2 # Deed
      BY <1>1, <2>1
    <3>2. Transferred(i1, i2, p, q)
      BY DEF Exchange
    <3>3. executeTransfer(q) /\ ~OwnershipIsDue
      BY <2>1, <3>1, <3>2 DEF Transferred, DeedOfOwner
    <3> QED BY <2>1, <3>3 DEF Given, executeTransfer
  <2>2. CASE i1 \in Goods
    <3> DEFINE c == place'[i1]
    <3>1. c \in {q} \cup Bags /\ (c \in Bags => c # i1 /\ c # i2 /\ place[c] = q)
      BY <1>1, <2>2 DEF Places
    <3>2. c \in Bags => place'[c] = q
      BY <1>1, <3>1
    <3> QED BY <2>2, <3>1, <3>2, PlacedIsGiven DEF Given
  <2> QED BY <2>1, <2>2
<1>3. CASE i2 = Deed
  <2>1. i1 # Deed
    BY <1>1, <1>3
  <2>2. Transferred(i1, i2, p, q)
    BY DEF Exchange
  <2>3. executeTransfer(p) /\ ~OwnershipIsDue
    BY <1>3, <2>1, <2>2 DEF Transferred, DeedOfOwner
  <2>4. Given(i2, p)
    BY <1>3, <2>3 DEF Given, executeTransfer
  <2> QED BY <1>2, <2>4
<1>4. CASE i2 \in Goods /\ place'[i2] \in Places(p, i2, After(i1))
  <2> DEFINE c == place'[i2]
  <2>1. c \in {p} \cup Bags /\ (c \in Bags => c # i1 /\ c # i2 /\ After(i1)[c] = p)
    BY <1>4 DEF Places
  <2>2. c \in Bags => place'[c] = p /\ place[c] = p
    BY <1>1, <2>1 DEF After, TradeInv, TradeTypeOK
  <2>3. Given(i2, p)
    BY <1>4, <2>1, <2>2, PlacedIsGiven DEF Given
  <2> QED BY <1>2, <2>3
<1>5. CASE i2 \in Goods /\ Places(p, i2, After(i1)) = {}
  <2>1. Places(p, i2, place) = {}
    BY <1>1, <1>5, RoomStays
  <2>2. CanAdd(p, i2)
    BY DEF Exchange
  <2> QED BY <1>2, <2>1, <2>2 DEF CanAdd
<1> QED BY <1>1, <1>2, <1>3, <1>4, <1>5

\* Both get what they were offered, or neither, but for the stack that the test
\* counts on and the move does not use.
THEOREM AllOrNothing ==
    ASSUME LeaveWhileTrading = FALSE
    PROVE  TradeSpec => TradeAllOrNothing
<1>1. ASSUME TradeInv, DeedOfOwner, NEW p \in Traders, NEW q \in Traders,
             NEW i1 \in Goods \cup {Deed}, NEW i2 \in Goods \cup {Deed},
             tradePartner[p] = q, tradeItem[p] = i1, tradeItem[q] = i2, playerAcceptTrade(p)
      PROVE  \/ Given(i1, q) <=> Given(i2, p)
             \/ i2 \in Stackable /\ p \in Piles /\ Places(p, i2, place) = {}
  <2>1. p # q
    BY <1>1, BothClosed, Kinds
  <2>2. CASE Exchange(p, q)
    BY <1>1, <2>1, <2>2, ExchangeGives
  <2>3. CASE UNCHANGED <<place, houseOwner, onRestart, promised>>
    <3>1. ASSUME NEW r1 \in Traders, NEW r2 \in Traders, r1 # r2, tradeItem[r1] = Deed
          PROVE  ~Given(Deed, r2)
      <4>1. houseOwner = r1 /\ (onRestart => promised = {})
        BY <1>1, <3>1 DEF DeedOfOwner, OwnershipIsDue
      <4> QED BY <2>3, <3>1, <4>1 DEF Given
    <3>2. \A i \in Goods, r \in Traders : ~Given(i, r)
      BY <2>3, Kinds DEF Given
    <3> QED BY <1>1, <2>1, <3>1, <3>2
  <2> QED BY <1>1, <2>2, <2>3 DEF playerAcceptTrade, Fail, Reset, houseVars
<1>2. TradeInv /\ DeedOfOwner /\ [TradeNext]_tradeVars =>
        [\A p \in Traders : \A q \in {tradePartner[p]} \ {Nobody} :
            \A i1 \in {tradeItem[p]} \ {Nobody}, i2 \in {tradeItem[q]} \ {Nobody} :
               playerAcceptTrade(p) =>
                  \/ Given(i1, q) <=> Given(i2, p)
                  \/ i2 \in Stackable /\ p \in Piles /\ Places(p, i2, place) = {}]_tradeVars
  <2>1. TradeInv => /\ tradePartner \in [Traders -> Traders \cup {Nobody}]
                    /\ tradeItem \in [Traders -> Goods \cup {Deed, Nobody}]
    BY DEF TradeInv, TradeTypeOK
  <2> QED BY <1>1, <2>1
<1> QED BY <1>2, TradeInvariance, DeedInvariance, PTL DEF TradeSpec, TradeAllOrNothing
=============================================================================
