---------------------------- MODULE HouseAuction ----------------------------
(***************************************************************************)
(* Houses under the auction of the Cyclopedia: bids, moving out and        *)
(* transfers (game/game.cpp), settled when the next start of the server    *)
(* loads the houses (io/iomapserialize.cpp), and the rent collected then   *)
(* (map/house/house.cpp).  The handlers run on the dispatcher.  The server *)
(* saves players and houses when it stops, and a process that dies before  *)
(* is left out; but it may die at its start, while the houses are being    *)
(* settled, which is done by statements of their own.                      *)
(*                                                                         *)
(* Left out: togglehouseTransferOnRestart (false unless configured), with  *)
(* which loadHouseInfo also reads new_owner (323-332) and a moved house is *)
(* made available when its items reach the depot.                          *)
(***************************************************************************)
EXTENDS Integers, FiniteSets, Sums

CONSTANTS
    Citizens,
    Vacant,      \* guid 0
    Estates,     \* the houses
    Bids,        \* amounts a bid may name
    Prices,      \* prices a transfer may name: 0 is one, that nobody can accept
    Rent,        \* of every house
    Savings,     \* bank balance of a citizen in the beginning
    MaxHouses,   \* maxHousesLimit: how many houses an account may own
    MaxWealth    \* bound of the gold there may be (a crash or a bid may make some)

ASSUME AuctionAssumption ==
    /\ IsFiniteSet(Citizens) /\ Vacant \notin Citizens /\ IsFiniteSet(Estates)
    /\ Bids \subseteq Nat \ {0} /\ Prices \subseteq Nat /\ Rent \in Nat
    /\ Savings \in Nat /\ MaxHouses \in Nat /\ MaxWealth \in Nat

VARIABLES
    balance,  \* bank balances
    house,    \* the fields of each House
    toLoad,   \* houses that loadHouseInfo has still to load
    toPay,    \* houses payHouses has still to visit
    paidFor   \* houses whose row still says that a buyer has accepted, since
              \* setOwner leaves transfer_status and only saving the houses writes it

auctionVars == <<balance, house, toLoad, toPay, paidFor>>
startVars == <<toLoad, toPay, paidFor>>

\* The fields of a house without a bid, without one who buys, with a new owner:
\* setOwner makes it rented, or else as it was created.
NoBuyer(f) == [f EXCEPT !.bidder = Vacant, !.internalBid = 0]
NoBid(f) == [NoBuyer(f) EXCEPT !.highestBid = 0]
Owned(f, c) == [f EXCEPT !.owner = c, !.state = IF c = Vacant THEN "available" ELSE "rented"]

AuctionInit ==
    /\ balance = [c \in Citizens |-> Savings]
    /\ house = [h \in Estates |->
          [state |-> "available", owner |-> Vacant, bidder |-> Vacant, highestBid |-> 0,
           internalBid |-> 0, bidHolderLimit |-> 0, transferStatus |-> FALSE]]
    /\ toLoad = {} /\ toPay = {} /\ paidFor = {}

Won(h) == house[h].state = "available" /\ house[h].bidder # Vacant

\* The gold that a house owes to its bidder, or to the buyer who has accepted.
Holds(h) == IF house[h].state = "transfer" THEN house[h].transferStatus
            ELSE house[h].bidder # Vacant
Held(h) == IF Holds(h) THEN house[h].internalBid + Rent ELSE 0
Wealth == Total(balance, Citizens) + Total([h \in Estates |-> Held(h)], Estates)

Open == toLoad = {} /\ toPay = {}
Limit(c) == Cardinality({h \in Estates : house[h].owner = c}) >= MaxHouses
Pays(c, gold) == balance[c] >= gold /\ balance' = [balance EXCEPT ![c] = @ - gold]

Becomes(h, f) == house' = [house EXCEPT ![h] = f]

-----------------------------------------------------------------------------
(* Bids                                                                     *)

FirstBid(c, h, bid) ==
    /\ house[h].bidder = Vacant
    /\ Pays(c, Rent + bid)
    /\ Becomes(h, [house[h] EXCEPT !.bidder = c, !.highestBid = 0, !.internalBid = bid,
                                   !.bidHolderLimit = bid])

LowerBid(h, bid) ==
    /\ house[h].bidder # Vacant /\ bid <= house[h].internalBid
    /\ Becomes(h, [house[h] EXCEPT !.highestBid = bid]) /\ UNCHANGED balance

Outbid_RefundsPrice(c, h, bid) ==
    /\ house[h].bidder # Vacant /\ bid > house[h].internalBid
    /\ balance[c] >= Rent + bid
    /\ balance' = [balance EXCEPT ![c] = @ - (Rent + bid),
                                  ![house[h].bidder] = @ + house[h].highestBid + Rent]
    /\ Becomes(h, [house[h] EXCEPT !.bidder = c, !.highestBid = house[h].internalBid + 1,
                                   !.internalBid = bid, !.bidHolderLimit = bid])

\* processBankAuction gives the former bidder the gold back.
Outbid(c, h, bid) ==
    /\ house[h].bidder # Vacant /\ bid > house[h].internalBid
    /\ balance[c] >= Rent + bid
    /\ balance' = [balance EXCEPT ![c] = @ - (Rent + bid),
                                  ![house[h].bidder] = @ + house[h].bidHolderLimit + Rent]
    /\ Becomes(h, [house[h] EXCEPT !.bidder = c, !.highestBid = house[h].internalBid + 1,
                                   !.internalBid = bid, !.bidHolderLimit = bid])

\* playerCyclopediaHouseBid, on a house in any state.  Who is the bidder of a
\* house returns early, so a bid is never raised; what canBidHouse says is only
\* told to the player.
Bid(c, h, bid) ==
    /\ Open
    /\ ~Limit(c) /\ \A g \in Estates : house[g].bidder # c
    /\ FirstBid(c, h, bid) \/ LowerBid(h, bid) \/ Outbid(c, h, bid)
    /\ UNCHANGED startVars

-----------------------------------------------------------------------------
(* What an owner does, and who is to become one                             *)

MoveOut(c, h) ==
    /\ Open /\ house[h].state = "rented" /\ house[h].owner = c
    /\ Becomes(h, [house[h] EXCEPT !.state = "moveOut"]) /\ UNCHANGED <<balance, startVars>>

CancelMoveOut(c, h) ==
    /\ Open /\ house[h].state = "moveOut" /\ house[h].owner = c
    /\ Becomes(h, [house[h] EXCEPT !.state = "rented"]) /\ UNCHANGED <<balance, startVars>>

\* Over a bid that there may be.
Transfer(c, d, h, price) ==
    /\ Open /\ house[h].state = "rented" /\ house[h].owner = c /\ c # d /\ ~Limit(d)
    /\ Becomes(h, [house[h] EXCEPT !.state = "transfer", !.bidder = d, !.internalBid = price])
    /\ UNCHANGED <<balance, startVars>>

AcceptTransfer(c, h) ==
    /\ Open /\ house[h].state = "transfer" /\ house[h].bidder = c
    /\ ~house[h].transferStatus
    /\ house[h].internalBid > 0 /\ Pays(c, Rent + house[h].internalBid)
    /\ Becomes(h, [house[h] EXCEPT !.transferStatus = TRUE]) /\ UNCHANGED startVars

TransferEnds_KeepsStatus(h) ==
    /\ balance' = IF house[h].transferStatus
                  THEN [balance EXCEPT ![house[h].bidder] = @ + house[h].internalBid + Rent]
                  ELSE balance
    /\ Becomes(h, [NoBuyer(house[h]) EXCEPT !.state = "rented"])

\* Who has paid gets the gold back.
TransferEnds(h) ==
    /\ balance' = IF house[h].transferStatus
                  THEN [balance EXCEPT ![house[h].bidder] = @ + house[h].internalBid + Rent]
                  ELSE balance
    /\ Becomes(h, [NoBuyer(house[h]) EXCEPT !.state = "rented", !.transferStatus = FALSE])

\* CancelTransfer is the owner's, RejectTransfer the other side's.
EndTransfer(c, h) ==
    /\ Open /\ house[h].state = "transfer" /\ c \in {house[h].owner, house[h].bidder}
    /\ TransferEnds(h) /\ UNCHANGED startVars

-----------------------------------------------------------------------------
(* The next start                                                           *)

\* The houses have been saved.
Restart ==
    /\ Open /\ toLoad' = Estates /\ toPay' = Estates
    /\ paidFor' = {h \in paidFor : house[h].transferStatus}
    /\ UNCHANGED <<balance, house>>

Change(h) == house[h].internalBid - house[h].highestBid

\* increaseBankBalance: an UPDATE of one row, of nobody for guid 0.
Refund(c, gold) ==
    balance' = IF c = Vacant THEN balance ELSE [balance EXCEPT ![c] = @ + gold]

\* Whatever has been settled, internalBid is written as it is and read back as
\* bidHolderLimit.
Loaded(h, f) == Becomes(h, [f EXCEPT !.bidHolderLimit = f.internalBid])

SettleBid(h) ==
    /\ Won(h) /\ Refund(house[h].bidder, Change(h)) /\ UNCHANGED paidFor
    /\ Loaded(h, Owned(NoBid(house[h]), house[h].bidder))

SettleTransfer(h) ==
    /\ house[h].state = "transfer"
    /\ IF house[h].transferStatus
       THEN /\ Refund(house[h].owner, house[h].internalBid) /\ paidFor' = paidFor \cup {h}
            /\ Loaded(h, [Owned(NoBuyer(house[h]), house[h].bidder) EXCEPT !.transferStatus = FALSE])
       ELSE /\ UNCHANGED <<balance, paidFor>>
            /\ Loaded(h, Owned(NoBuyer(house[h]), house[h].owner))

SettleMoveOut(h) ==
    /\ house[h].state = "moveOut"
    /\ UNCHANGED <<balance, paidFor>> /\ Loaded(h, Owned(house[h], Vacant))

\* The date has not come, or there is nothing to settle.
LoadAsIs(h) == UNCHANGED <<balance, paidFor>> /\ Loaded(h, house[h])

loadHouseInfo(h) ==
    /\ h \in toLoad /\ toLoad' = toLoad \ {h} /\ UNCHANGED toPay
    /\ SettleBid(h) \/ SettleTransfer(h) \/ SettleMoveOut(h) \/ LoadAsIs(h)

\* What the rows say of the houses: a transfer that has been settled in this
\* start is again one that a buyer has accepted, of a house that is rented.
\* (A move-out writes nothing and would be settled again: here it stays.)
Rows(g) == IF g \in paidFor THEN [house[g] EXCEPT !.transferStatus = TRUE] ELSE house[g]

\* The process dies in its start, and the loop begins again at the next one:
\* before it settles a house, or after the first of the two statements that
\* settle a bid or an accepted transfer.
DieBetween(h) ==
    /\ h \in toLoad /\ toLoad' = Estates /\ toPay' = Estates
    /\ \/ UNCHANGED <<balance, paidFor>> /\ house' = [g \in Estates |-> Rows(g)]
       \/ /\ Won(h) /\ Refund(house[h].bidder, Change(h)) /\ UNCHANGED paidFor
          /\ house' = [g \in Estates |-> Rows(g)]
       \/ /\ house[h].state = "transfer" /\ house[h].transferStatus
          /\ UNCHANGED balance /\ paidFor' = paidFor \cup {h}
          /\ house' = [g \in Estates |->
                IF g = h THEN Owned(NoBid(house[h]), house[h].bidder) ELSE Rows(g)]

\* An owner pays, is warned, or loses the house: setOwner(0) leaves the state
\* as it is.
payHouses(h) ==
    /\ toLoad = {} /\ h \in toPay /\ toPay' = toPay \ {h} /\ UNCHANGED <<toLoad, paidFor>>
    /\ \/ UNCHANGED <<balance, house>>
       \/ house[h].owner # Vacant /\ Pays(house[h].owner, Rent) /\ UNCHANGED house
       \/ house[h].owner # Vacant /\ Becomes(h, [house[h] EXCEPT !.owner = Vacant]) /\ UNCHANGED balance

AuctionNext ==
    /\ \/ \E c \in Citizens, h \in Estates :
             \/ \E bid \in Bids : Bid(c, h, bid)
             \/ \E d \in Citizens, price \in Prices : Transfer(c, d, h, price)
             \/ MoveOut(c, h) \/ CancelMoveOut(c, h) \/ AcceptTransfer(c, h) \/ EndTransfer(c, h)
       \/ Restart
       \/ \E h \in Estates : loadHouseInfo(h) \/ DieBetween(h) \/ payHouses(h)
    /\ Wealth' <= MaxWealth

AuctionSpec == AuctionInit /\ [][AuctionNext]_auctionVars

-----------------------------------------------------------------------------
(* Properties *)

AuctionTypeOK ==
    /\ balance \in [Citizens -> Nat]
    /\ house \in [Estates ->
          [state : {"available", "rented", "transfer", "moveOut"},
           owner : Citizens \cup {Vacant}, bidder : Citizens \cup {Vacant},
           highestBid : Nat, internalBid : Nat, bidHolderLimit : Nat,
           transferStatus : BOOLEAN]]
    /\ toLoad \subseteq Estates /\ toPay \subseteq Estates /\ paidFor \subseteq Estates

\* What a house says of bids and transfers is what it holds, in whatever state
\* it was bid for: nobody pays more than the bid, who is outbid gets back all of
\* it, nobody has bid for two houses, and the mark of a buyer who has accepted
\* does not outlive the transfer but through a crash of a start.
BidsAreBacked ==
    /\ AuctionTypeOK
    /\ \A h \in Estates : LET f == house[h] IN
          /\ f.bidder = Vacant => f.internalBid = 0 /\ f.state # "transfer"
          /\ f.bidder # Vacant /\ f.state # "transfer" =>
                /\ f.internalBid > 0 /\ f.highestBid <= f.internalBid
                /\ f.bidHolderLimit = f.internalBid
          /\ f.state = "available" => f.owner = Vacant
          /\ f.transferStatus => f.state = "transfer" \/ h \in paidFor
          /\ \A g \in Estates \ {h} :
                house[g].bidder = f.bidder /\ "transfer" \notin {f.state, house[g].state} =>
                   f.bidder = Vacant

\* What loading a house takes from the players: the rent, with the price of a
\* house that had no owner; a seller who has lost the house gets nothing.
Cost(h) ==
    IF house'[h] = house[h] THEN 0
    ELSE IF Won(h) /\ ~Won(h)' THEN Rent + house[h].highestBid
    ELSE IF house[h].transferStatus /\ ~house'[h].transferStatus
         THEN Rent + IF house[h].owner = Vacant THEN house[h].internalBid ELSE 0
    ELSE 0

\* Gold that a step takes from a house or gives it without an account for it: a
\* transfer goes over a bid, or finds the mark a crash has left; a bid on a
\* house in transfer refunds bidHolderLimit, whatever the buyer has paid; a
\* crash leaves the second statement of a settlement undone.
TransferLoses(c, h) ==
    \E d \in Citizens, price \in Prices :
        /\ Transfer(c, d, h, price) /\ (house[h].bidder # Vacant \/ h \in paidFor)
        /\ Wealth' = Wealth - Held(h) + IF house[h].transferStatus THEN price + Rent ELSE 0
BidLoses(c, h) ==
    \E bid \in Bids :
        /\ Bid(c, h, bid) /\ house[h].state = "transfer"
        /\ Wealth' = Wealth + house[h].bidHolderLimit
                     - IF house[h].transferStatus THEN house[h].internalBid ELSE bid
CrashLoses(h) ==
    DieBetween(h) /\ Wealth' \in {Wealth, Wealth + Change(h), Wealth - Held(h)}

\* Between two starts no gold appears or disappears with an auction, whoever
\* bids, is outbid, accepts, cancels or rejects, but for the three steps above
\* and by their amounts; a settlement takes the price from who has bid.
AuctionBooks ==
    [][\/ UNCHANGED <<balance, house>>
       \/ Open /\ Wealth' = Wealth
       \/ \E h \in Estates :
             \/ \E c \in Citizens : TransferLoses(c, h) \/ BidLoses(c, h)
             \/ CrashLoses(h)
             \/ loadHouseInfo(h) /\ Wealth' = Wealth - Cost(h)
             \/ payHouses(h) /\ Wealth' \in {Wealth, Wealth - Rent}]_auctionVars
=============================================================================
