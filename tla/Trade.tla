------------------------------- MODULE Trade -------------------------------
(***************************************************************************)
(* Trading between players: Game::playerRequestTrade, playerAcceptTrade,   *)
(* playerCloseTrade and what closes a trade by itself (game/game.cpp,      *)
(* creatures/players/player.cpp), with the sale of a house, whose document *)
(* is an item of the trade (map/house/house.cpp).  All of it runs on the   *)
(* dispatcher, so a handler is one step.                                   *)
(***************************************************************************)
EXTENDS Integers, FiniteSets

CONSTANTS
    Traders,
    Goods,      \* the items there are
    Bags,       \* those that are containers; no bag is put into another
    Stackable,  \* those of a kind that stacks
    Deed,       \* the HouseTransferItem of the one house
    Nobody,     \* nullptr, and owner 0 of a house
    Spots,      \* positions in a row, at most MapWidth
    Slots,      \* places for items a player has besides bags
    Piles,      \* players with a stack that has room for one more of the Stackable
    BagSize,    \* capacity of a bag
    Start,      \* where things are in the beginning
    LeaveWhileTrading  \* whether !leavehouse is used while the document is traded

ASSUME TradeAssumption ==
    /\ Bags \subseteq Goods /\ Stackable \subseteq Goods \ Bags /\ Piles \subseteq Traders
    /\ IsFiniteSet(Goods) /\ Deed \notin Goods \cup Traders \cup Spots \cup {Nobody}
    /\ Nobody \notin Traders \cup Goods /\ Spots \subseteq Int /\ Traders \cap Spots = {}
    /\ Goods \cap (Traders \cup Spots) = {}
    /\ Slots \in [Traders -> Nat] /\ BagSize \in Nat
    /\ Start.pos \in [Traders -> Spots] /\ Start.owner \in Traders
    /\ Start.place \in [Goods -> Traders \cup Spots]
    /\ LeaveWhileTrading \in BOOLEAN

VARIABLES
    tradeState, tradePartner, tradeItem,  \* fields of Player
    tradeItems,   \* Game::tradeItems, the items that are being traded
    pos,          \* where a player stands
    place,        \* who carries an item, where it lies, or the bag it is in
    houseOwner,   \* House::owner
    transferItem, \* whether House::transferItem exists
    onRestart,    \* togglehouseTransferOnRestart of the configuration, off by default
    promised      \* who owns the house from the next restart on: {} or {owner}

houseVars == <<houseOwner, transferItem, onRestart, promised>>
tradeVars == <<tradeState, tradePartner, tradeItem, tradeItems, pos, place, houseVars>>

TradeInit ==
    /\ tradeState = [p \in Traders |-> "none"]
    /\ tradePartner = [p \in Traders |-> Nobody]
    /\ tradeItem = [p \in Traders |-> Nobody]
    /\ tradeItems = {}
    /\ pos = Start.pos /\ place = Start.place
    /\ houseOwner = Start.owner /\ transferItem = FALSE
    /\ onRestart \in BOOLEAN /\ promised = {}

InRange(x, y, d) == x - y <= d /\ y - x <= d
Content(bag) == {i \in Goods : place[i] = bag}
Carrier(i) == IF place[i] \in Bags THEN place[place[i]] ELSE place[i]
Within(x, i) == Carrier(i) \in Spots /\ InRange(x, Carrier(i), 1)
Reaches(p, i) == Carrier(i) = p \/ Within(pos[p], i)

-----------------------------------------------------------------------------
(* Room: Player::queryDestination, and what internalAddItem tests of it     *)

SlotFree(p, at) == Cardinality({i \in Goods : at[i] = p}) < Slots[p]
BagFree(bag, at) == Cardinality({i \in Goods : at[i] = bag}) < BagSize

\* Where an item goes that must not be stacked: a slot of the player, or else
\* a bag other than the one the player is trading away.
Places(p, i, at) ==
    IF SlotFree(p, at) THEN {p}
    ELSE {bag \in Bags \ {tradeItem[p]} :
             i \notin Bags /\ at[bag] = p /\ BagFree(bag, at)}

\* The test of internalAddItem may count on a stack with room.
CanAdd(p, i) ==
    /\ i # Nobody
    /\ Places(p, i, place) # {} \/ (i \in Stackable /\ p \in Piles)

-----------------------------------------------------------------------------
(* Starting a trade                                                         *)

\* internalStartTrade's early returns.
MayStart(p, q) ==
    /\ tradeState[p] = "none" \/ (tradeState[p] = "acknowledge" /\ tradePartner[p] = q)
    /\ tradeState[q] = "none" \/ tradePartner[q] = p

internalStartTrade(p, q, i) ==
    /\ tradePartner' = [tradePartner EXCEPT ![p] = q, ![q] = p]
    /\ tradeItem' = [tradeItem EXCEPT ![p] = i]
    /\ tradeState' = [tradeState EXCEPT
          ![p] = "initiated", ![q] = IF @ = "none" THEN "acknowledge" ELSE @]
    /\ tradeItems' = tradeItems \cup {i}

\* The item, the bag it is in or something in it is being traded.
BeingTraded(i) ==
    \/ i \in tradeItems \/ place[i] \in tradeItems
    \/ i \in Bags /\ \E j \in tradeItems \cap Goods : place[j] = i

\* Too far away, out of sight or refused by a script: nothing happens.
playerRequestTrade(p, q, i) ==
    /\ p # q /\ InRange(pos[p], pos[q], 2) /\ Reaches(p, i) /\ ~BeingTraded(i)
    /\ MayStart(p, q) /\ internalStartTrade(p, q, i)
    /\ UNCHANGED <<pos, place, houseVars>>

\* hasNewOwnership, as the scripts see it.
OwnershipIsDue == onRestart /\ promised # {}

startTrade_AnyOwner(p, q) ==
    /\ p # q /\ InRange(pos[p], pos[q], 2)
    /\ ~transferItem /\ transferItem' = TRUE
    /\ IF OwnershipIsDue
       THEN UNCHANGED <<tradeState, tradePartner, tradeItem, tradeItems>>
       ELSE MayStart(p, q) /\ internalStartTrade(p, q, Deed)
    /\ UNCHANGED <<pos, place, houseOwner, onRestart, promised>>

\* house:startTrade, !sellhouse: the document is made for this trade, and
\* resetTransferItem takes it back when the trade does not start.  But not when
\* ownership is due: there is no trade then, and the document stays.
startTrade(p, q) ==
    /\ p # q /\ InRange(pos[p], pos[q], 2)
    /\ houseOwner = p /\ ~transferItem /\ transferItem' = TRUE
    /\ IF OwnershipIsDue
       THEN UNCHANGED <<tradeState, tradePartner, tradeItem, tradeItems>>
       ELSE MayStart(p, q) /\ internalStartTrade(p, q, Deed)
    /\ UNCHANGED <<pos, place, houseOwner, onRestart, promised>>

-----------------------------------------------------------------------------
(* Closing one                                                              *)

Involved(S) == S \cup {q \in Traders : tradePartner[q] \in S}

\* The fields of all players in S are reset.
TradesCleared(S) ==
    /\ tradeState' = [p \in Traders |-> IF p \in S THEN "none" ELSE tradeState[p]]
    /\ tradePartner' = [p \in Traders |-> IF p \in S THEN Nobody ELSE tradePartner[p]]
    /\ tradeItem' = [p \in Traders |-> IF p \in S THEN Nobody ELSE tradeItem[p]]
    /\ tradeItems' = tradeItems \ {tradeItem[p] : p \in S}

\* ON_TRADE_CANCEL takes back the document of a house.
Reset(S) ==
    /\ TradesCleared(S)
    /\ transferItem' = (transferItem /\ \A p \in S : tradeItem[p] # Deed)
    /\ UNCHANGED <<houseOwner, onRestart, promised>>

internalCloseTrade_OneSide(S) == Reset(S)
internalCloseTrade(S) == Reset(Involved(S))

playerCloseTrade(p) ==
    /\ tradeState[p] # "none"
    /\ internalCloseTrade({p}) /\ UNCHANGED <<pos, place>>

-----------------------------------------------------------------------------
(* Accepting                                                                *)

\* The house is given away at once, or from the next restart on, and refused when it
\* is promised already: then the document stays, although no player has it.
executeTransfer(newOwner) ==
    /\ onRestart' = onRestart
    /\ IF OwnershipIsDue THEN UNCHANGED <<houseOwner, transferItem, promised>>
       ELSE /\ transferItem' = FALSE
            /\ IF onRestart THEN promised' = {newOwner} /\ houseOwner' = houseOwner
               ELSE houseOwner' = newOwner /\ promised' = promised

Transferred(i1, i2, p, q) ==
    /\ TradesCleared({p, q})
    /\ CASE i1 = Deed -> executeTransfer(q)
         [] i2 = Deed -> executeTransfer(p)
         [] OTHER -> UNCHANGED houseVars

\* i1 is moved to q, then i2 to p.  The second move has its own idea of where
\* there is room, and nobody looks at its result.
Moved(i1, i2, p, q) ==
    \E d1 \in Places(q, i1, place) :
       LET at == IF i1 = Deed THEN place ELSE [place EXCEPT ![i1] = d1]
       IN  IF i2 = Deed \/ Places(p, i2, at) = {}
           THEN place' = at
           ELSE \E d2 \in Places(p, i2, at) : place' = [at EXCEPT ![i2] = d2]

Exchange_OneTest(p, q) ==
    /\ CanAdd(q, tradeItem[p])
    /\ tradeItem[q] # Nobody
    /\ Moved(tradeItem[p], tradeItem[q], p, q)
    /\ Transferred(tradeItem[p], tradeItem[q], p, q)

Exchange(p, q) ==
    /\ CanAdd(q, tradeItem[p]) /\ CanAdd(p, tradeItem[q])
    /\ Moved(tradeItem[p], tradeItem[q], p, q)
    /\ Transferred(tradeItem[p], tradeItem[q], p, q)

\* A test or the first move fails, or a script refuses: all that is left of
\* the trade is taken back.
Fail(p, q) == Reset({p, q}) /\ place' = place

playerAcceptTrade(p) ==
    LET q == tradePartner[p]
    IN  /\ tradeState[p] \in {"acknowledge", "initiated"} /\ q # Nobody
        /\ IF tradeState[q] = "accept"
           THEN Exchange(p, q) \/ Fail(p, q)
           ELSE /\ tradeState' = [tradeState EXCEPT ![p] = "accept"]
                /\ UNCHANGED <<tradePartner, tradeItem, tradeItems, place, houseVars>>
        /\ UNCHANGED pos

-----------------------------------------------------------------------------
(* What else players do                                                     *)

\* Player::onCreatureMove: whose item or partner is out of range now.
LeftBehind(p, x) ==
    \/ tradeItem[p] \in Goods /\ Carrier(tradeItem[p]) # p /\ ~Within(x, tradeItem[p])
    \/ tradePartner[p] # Nobody /\ ~InRange(x, pos[tradePartner[p]], 2)

Walk(p, x) ==
    /\ x # pos[p] /\ pos' = [pos EXCEPT ![p] = x]
    /\ internalCloseTrade(IF LeftBehind(p, x) THEN {p} ELSE {})
    /\ place' = place

Disturbs_NotInside(i, from, to, t) == t = i \/ t = from \/ (i \in Bags /\ t \in Content(i))

\* checkTradeState and its callers: taking i from where it is and putting it
\* somewhere else concerns a traded item t that is i, a bag i was in or is put
\* into, or something in i.
Disturbs(i, from, to, t) == t \in {i, from, to} \/ (i \in Bags /\ t \in Content(i))

\* A player moves an item: picks it up, drops it, puts it into a bag.
MoveItem(p, i, to) ==
    /\ Reaches(p, i) /\ to # place[i] /\ to # i
    /\ to \in {p, pos[p]} \/ (to \in Bags /\ i \notin Bags /\ Reaches(p, to))
    /\ to = p => SlotFree(p, place)
    /\ to \in Bags => BagFree(to, place)
    /\ place' = [place EXCEPT ![i] = to]
    /\ internalCloseTrade({q \in Traders :
          tradeItem[q] # Nobody /\ Disturbs(i, place[i], to, tradeItem[q])})
    /\ pos' = pos

\* !leavehouse and !buyhouse: neither looks at transferItem.
leaveHouse(p) ==
    /\ houseOwner = p /\ (LeaveWhileTrading \/ ~transferItem) /\ ~OwnershipIsDue
    /\ IF onRestart THEN promised' = {Nobody} /\ houseOwner' = houseOwner
       ELSE houseOwner' = Nobody /\ promised' = promised
    /\ UNCHANGED <<tradeState, tradePartner, tradeItem, tradeItems, pos, place,
                   transferItem, onRestart>>
buyHouse(p) ==
    /\ houseOwner = Nobody /\ houseOwner' = p
    /\ UNCHANGED <<tradeState, tradePartner, tradeItem, tradeItems, pos, place,
                   transferItem, onRestart, promised>>

TradeNext ==
    \/ \E p, q \in Traders : startTrade(p, q) \/ \E i \in Goods : playerRequestTrade(p, q, i)
    \/ \E p \in Traders :
          \/ playerAcceptTrade(p) \/ playerCloseTrade(p) \/ leaveHouse(p) \/ buyHouse(p)
          \/ \E x \in Spots : Walk(p, x)
          \/ \E i \in Goods, to \in Traders \cup Spots \cup Bags : MoveItem(p, i, to)

TradeSpec == TradeInit /\ [][TradeNext]_tradeVars

-----------------------------------------------------------------------------
(* Properties *)

TradeTypeOK ==
    /\ tradeState \in [Traders -> {"none", "initiated", "acknowledge", "accept"}]
    /\ tradePartner \in [Traders -> Traders \cup {Nobody}]
    /\ tradeItem \in [Traders -> Goods \cup {Deed, Nobody}]
    /\ tradeItems \subseteq Goods \cup {Deed}
    /\ pos \in [Traders -> Spots]
    /\ place \in [Goods -> Traders \cup Spots \cup Bags]
    /\ \A i \in Bags : place[i] \notin Bags
    /\ houseOwner \in Traders \cup {Nobody} /\ transferItem \in BOOLEAN
    /\ onRestart \in BOOLEAN /\ promised \subseteq Traders \cup {Nobody}

\* Both sides of a trade agree that it is theirs, and one of them has begun it.
PartnersAgree ==
    \A p \in Traders :
        /\ tradeState[p] = "none" <=> tradePartner[p] = Nobody
        /\ tradePartner[p] # Nobody =>
              /\ tradePartner[p] # p /\ tradePartner[tradePartner[p]] = p
              /\ tradeItem[p] # Nobody \/ tradeItem[tradePartner[p]] # Nobody
        /\ tradeState[p] \in {"none", "acknowledge"} => tradeItem[p] = Nobody
        /\ tradeState[p] = "initiated" => tradeItem[p] # Nobody

\* Game::tradeItems names the items of the trades, and none of them is in
\* another one.
LocksMatch ==
    /\ tradeItems = {tradeItem[p] : p \in Traders} \ {Nobody}
    /\ \A p, q \in Traders : tradeItem[p] = tradeItem[q] /\ p # q => tradeItem[p] = Nobody
    /\ \A i \in tradeItems \cap Goods : place[i] \notin tradeItems

\* Who trades stands next to the partner and to the item.
TradersInReach ==
    \A p \in Traders :
        /\ tradePartner[p] # Nobody => InRange(pos[p], pos[tradePartner[p]], 2)
        /\ tradeItem[p] \in Goods => Reaches(p, tradeItem[p])

\* A document that is offered is the one of its house, and a house keeps none
\* that nobody offers, except when it has a new owner from the next restart on:
\* then a document is left behind, and no other is made.
DeedInTrade ==
    LET offered == \E p \in Traders : tradeItem[p] = Deed
    IN  /\ offered => transferItem
        /\ transferItem => offered \/ OwnershipIsDue

\* What a trade relies on, whoever walks, moves items, accepts or gives up.
TradeInv == TradeTypeOK /\ PartnersAgree /\ LocksMatch /\ TradersInReach /\ DeedInTrade

\* In a step: r gets i.
Given(i, r) == IF i = Deed THEN IF onRestart THEN promised' = {r} ELSE houseOwner' = r
                           ELSE place'[i] # place[i] /\ Carrier(i)' = r

\* playerAcceptTrade: both get what they were offered, or neither.  What the
\* code does not catch: the test of p counts on a stack with room, and the move
\* does not stack (FLAG_IGNOREAUTOSTACK).
TradeAllOrNothing ==
    [][\A p \in Traders : \A q \in {tradePartner[p]} \ {Nobody} :
          \A i1 \in {tradeItem[p]} \ {Nobody}, i2 \in {tradeItem[q]} \ {Nobody} :
             playerAcceptTrade(p) =>
                \/ Given(i1, q) <=> Given(i2, p)
                \/ i2 \in Stackable /\ p \in Piles /\ Places(p, i2, place) = {}]_tradeVars

\* What a player was shown is what is exchanged: while a bag is being traded,
\* and when it is handed over, nothing is put into it or taken out.
ShownIsGiven ==
    [][\A bag \in Bags, p \in Traders :
         /\ tradeItem[p] = bag
         /\ tradeItem'[p] = bag \/ \E q \in Traders : playerAcceptTrade(q)
         => Content(bag)' = Content(bag)]_tradeVars

\* executeTransfer gives a house away for the one who offered it, who still has
\* it and has not promised it to anybody, and to the partner.
HouseSoldByOwner ==
    [][\A p \in Traders :
         <<houseOwner, promised>>' # <<houseOwner, promised>> /\ playerAcceptTrade(p) =>
            \E seller \in {p, tradePartner[p]} :
               /\ houseOwner = seller /\ tradeItem[seller] = Deed /\ ~OwnershipIsDue
               /\ Given(Deed, tradePartner[seller])]_tradeVars
=============================================================================
