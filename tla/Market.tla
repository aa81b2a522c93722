------------------------------- MODULE Market -------------------------------
(***************************************************************************)
(* The market: Game::playerCreateMarketOffer, playerCancelMarketOffer and  *)
(* playerAcceptMarketOffer (game/game.cpp) over the tables of IOMarket     *)
(* (io/iomarket.cpp), and the settlement of expired offers, whose rows a   *)
(* thread of the pool reads and a later task of the dispatcher pays out.   *)
(* A handler runs on the dispatcher.  It is one step up to what it next    *)
(* commits: a request of a player changes the table of offers, and only    *)
(* then saves the player, and the server may be killed in between.  One    *)
(* kind of item is traded; money in the inventory and in the bank is one   *)
(* sum.                                                                    *)
(***************************************************************************)
EXTENDS Integers, Sequences, FiniteSets, Sums

CONSTANTS
    Merchants,
    Capital,       \* what a merchant has in the beginning: [gold, goods]
    Price,         \* the price of one item
    Amounts,       \* how many items an offer is about
    MaxOffers,     \* bound on the offers ever made
    MaxKills,      \* bound on the kills that come between two commits of a handler
    LimitedInbox   \* whether maxInboxItems of the configuration is not 0

ASSUME MarketAssumption ==
    /\ IsFiniteSet(Merchants)
    /\ Capital \in [gold : Nat, goods : Nat] /\ Price \in Nat \ {0}
    /\ Amounts \subseteq Nat \ {0} /\ MaxOffers \in Nat
    /\ MaxKills \in Nat /\ LimitedInbox \in BOOLEAN

VARIABLES
    presence,   \* in Game::players, in m_deadPlayers, or neither
    live,       \* what the object of a player has; of an offline one, what is saved
    saved,      \* what the database says of a player
    offers,     \* the rows of market_offers
    nextOffer,  \* the next id of that table
    batch,      \* rows of expired offers that wait for the dispatcher
    settling,   \* whether processExpiredOffers has begun with the batch
    armed,      \* whether an event is scheduled that checks for expired offers
    unsaved,    \* the player of the request under way: its save is still to come
    claim,      \* what was accepted and has still to come off its row
    missed,     \* history: whose object lacks what the database has or was promised
    kills       \* how often the server was killed between two commits of a handler

marketVars ==
    <<presence, live, saved, offers, nextOffer, batch, settling, armed, unsaved, claim,
      missed, kills>>

NoClaim == [row |-> 0, sale |-> FALSE, amount |-> 0]

MarketInit ==
    /\ presence = [p \in Merchants |-> "online"]
    /\ live = [p \in Merchants |-> Capital] /\ saved = live
    /\ offers = <<>> /\ nextOffer = 1
    /\ batch = {} /\ settling = FALSE /\ armed = TRUE
    /\ unsaved = {} /\ claim = NoClaim /\ missed = {} /\ kills = 0

\* std::clamp with an upper limit below the lower one is undefined: libraries
\* return one or the other.
fees(total) ==
    LET twoPercent == (total * 2) \div 100
        maxFee == IF twoPercent < 1000000 THEN twoPercent ELSE 1000000
    IN  IF twoPercent < 20 THEN {20, twoPercent} ELSE {maxFee}

Plus(had, gold, goods) == [gold |-> had.gold + gold, goods |-> had.goods + goods]
Others(id) == [j \in DOMAIN offers \ {id} |-> offers[j]]

\* A player is saved: SaveManager in its default, synchronous mode.
SavedFor(S) == [p \in Merchants |-> IF p \in S THEN live'[p] ELSE saved[p]]

\* Those of S are saved from their objects.
Store(S) == UNCHANGED live /\ saved' = SavedFor(S) /\ missed' = missed \ S

\* The dispatcher is free for the next task.
Idle == ~settling /\ unsaved = {}

-----------------------------------------------------------------------------
(* The requests of a player in the market                                   *)

Create_Unsaved(p, sale, n, fee) ==
    LET gold == fee + IF sale THEN 0 ELSE Price * n
    IN  /\ fee \in fees(Price * n)
        /\ Idle /\ presence[p] = "online" /\ nextOffer <= MaxOffers
        /\ live[p].gold >= gold /\ (sale => live[p].goods >= n)
        /\ live' = [live EXCEPT ![p] = Plus(@, -gold, IF sale THEN -n ELSE 0)]
        /\ offers' = [j \in DOMAIN offers \cup {nextOffer} |->
              IF j = nextOffer THEN [owner |-> p, sale |-> sale, amount |-> n]
              ELSE offers[j]]
        /\ nextOffer' = nextOffer + 1
        /\ UNCHANGED <<saved, presence, batch, settling, armed, unsaved, claim, missed, kills>>

\* playerCreateMarketOffer up to its row: what is offered is taken and the row
\* is inserted.  The fee is nobody's.
Create(p, sale, n, fee) ==
    LET gold == fee + IF sale THEN 0 ELSE Price * n
    IN  /\ fee \in fees(Price * n)
        /\ Idle /\ presence[p] = "online" /\ nextOffer <= MaxOffers
        /\ live[p].gold >= gold /\ (sale => live[p].goods >= n)
        /\ live' = [live EXCEPT ![p] = Plus(@, -gold, IF sale THEN -n ELSE 0)]
        /\ offers' = [j \in DOMAIN offers \cup {nextOffer} |->
              IF j = nextOffer THEN [owner |-> p, sale |-> sale, amount |-> n]
              ELSE offers[j]]
        /\ nextOffer' = nextOffer + 1
        /\ unsaved' = {p}
        /\ UNCHANGED <<saved, presence, batch, settling, armed, claim, missed, kills>>

\* How many of n items there is room for in an inbox.
Delivered(n) == IF LimitedInbox THEN 0..n ELSE {n}

\* playerCancelMarketOffer up to its row, which goes whatever the inbox has
\* taken.
Cancel(p, id) ==
    /\ Idle /\ presence[p] = "online" /\ offers[id].owner = p
    /\ \E k \in Delivered(offers[id].amount) :
          live' = [live EXCEPT ![p] = IF offers[id].sale THEN Plus(@, 0, k)
                                      ELSE Plus(@, Price * offers[id].amount, 0)]
    /\ offers' = Others(id)
    /\ unsaved' = {p}
    /\ UNCHANGED <<saved, presence, nextOffer, batch, settling, armed, claim, missed, kills>>

\* playerAcceptMarketOffer up to the save of the owner: p sells to, or buys
\* from, the owner of the offer.  A dead owner's object is paid and not saved,
\* an offline owner is loaded, paid and saved.  When an inbox was too full the
\* payment stands, but that is all: the offer stays as it was and p is not
\* saved.  Two characters of one account may trade: each has an Account object
\* of its own, and the pointers are compared.
Accept(p, id, n) ==
    LET q     == offers[id].owner
        gold  == Price * n
        loose == {r \in {q} : presence[r] = "offline"}
    IN  /\ Idle /\ presence[p] = "online" /\ n \in 1..offers[id].amount
        /\ p # q
        /\ IF offers[id].sale THEN live[p].gold >= gold ELSE live[p].goods >= n
        /\ \E k \in Delivered(n) :
              /\ live' = IF offers[id].sale
                         THEN [live EXCEPT ![p] = Plus(@, -gold, k), ![q] = Plus(@, gold, 0)]
                         ELSE [live EXCEPT ![p] = Plus(@, gold, -n), ![q] = Plus(@, 0, k)]
              /\ IF k = n
                 THEN /\ unsaved' = {p} /\ missed' = missed
                      /\ claim' = [row |-> id, sale |-> offers[id].sale, amount |-> n]
                 ELSE missed' = missed \cup {p} /\ UNCHANGED <<unsaved, claim>>
        /\ saved' = SavedFor(loose)
        /\ UNCHANGED <<presence, offers, nextOffer, batch, settling, armed, kills>>

\* acceptOffer or deleteOffer.
Reduced(id, n) ==
    IF offers[id].amount = n THEN Others(id) ELSE [offers EXCEPT ![id].amount = @ - n]

\* playerAcceptMarketOffer goes on: what was accepted comes off the row.
ReduceOffer ==
    /\ claim # NoClaim /\ claim' = NoClaim
    /\ offers' = Reduced(claim.row, claim.amount)
    /\ UNCHANGED <<presence, live, saved, nextOffer, batch, settling, armed, unsaved, missed, kills>>

\* The last thing each of the three does: its player is saved.
FinishRequest ==
    /\ unsaved # {} /\ claim = NoClaim
    /\ Store(unsaved) /\ unsaved' = {}
    /\ UNCHANGED <<presence, offers, nextOffer, batch, settling, armed, claim, kills>>

-----------------------------------------------------------------------------
(* Expired offers                                                           *)

\* Those that were created a month ago: the oldest ones.
Expired(k) == {id \in DOMAIN offers : id <= k}

checkExpiredOffers_Once(k) ==
    /\ armed /\ batch = {} /\ Expired(k) # {}
    /\ batch' = {[id |-> id, owner |-> offers[id].owner, sale |-> offers[id].sale,
                   amount |-> offers[id].amount] : id \in Expired(k)}
    /\ armed' = FALSE
    /\ UNCHANGED <<presence, live, saved, offers, nextOffer, settling, unsaved, claim, missed, kills>>

\* checkExpiredOffers: the pool reads the rows and posts what it has read, and
\* the next check is scheduled.
checkExpiredOffers(k) ==
    /\ armed /\ batch = {} /\ Expired(k) # {}
    /\ batch' = {[id |-> id, owner |-> offers[id].owner, sale |-> offers[id].sale,
                   amount |-> offers[id].amount] : id \in Expired(k)}
    /\ armed' = TRUE
    /\ UNCHANGED <<presence, live, saved, offers, nextOffer, settling, unsaved, claim, missed, kills>>

\* getPlayerByGUID finds who is in the game; anybody else is loaded and saved,
\* or gets the gold by an UPDATE.  Of the dead the object does not learn of it.
Credit(q, gold, goods) ==
    /\ live' = IF presence[q] = "dead" THEN live
               ELSE [live EXCEPT ![q] = Plus(@, gold, goods)]
    /\ saved' = IF presence[q] = "online" THEN saved
                ELSE [saved EXCEPT ![q] = Plus(@, gold, goods)]
    /\ missed' = IF presence[q] = "dead" THEN missed \cup {q} ELSE missed

Settle_Unchecked(row) ==
    /\ offers' = Others(row.id)
    /\ \E k \in Delivered(row.amount) :
          IF row.sale THEN Credit(row.owner, 0, k)
          ELSE Credit(row.owner, Price * row.amount, 0)

\* moveOfferToHistory fails when the row is gone; what is paid back is what
\* the row said when it was read.
Settle(row) ==
    IF row.id \in DOMAIN offers
    THEN /\ offers' = Others(row.id)
         /\ \E k \in Delivered(row.amount) :
               IF row.sale THEN Credit(row.owner, 0, k)
               ELSE Credit(row.owner, Price * row.amount, 0)
    ELSE UNCHANGED <<offers, live, saved, missed>>

\* One turn of the loop of processExpiredOffers.
processExpiredOffers ==
    /\ unsaved = {}
    /\ \E row \in batch :
        /\ Settle(row)
        /\ batch' = batch \ {row} /\ settling' = (batch' # {})
        /\ UNCHANGED <<presence, nextOffer, armed, unsaved, claim, kills>>

-----------------------------------------------------------------------------
(* Coming and going; the saves are those of SaveManager                     *)

Appears(p, from, to) ==
    /\ Idle /\ presence[p] = from /\ presence' = [presence EXCEPT ![p] = to]
    /\ UNCHANGED <<offers, nextOffer, batch, settling, armed, unsaved, claim, kills>>

Enter(p) == Appears(p, "offline", "online") /\ UNCHANGED <<live, saved, missed>>
Leave(p) == Appears(p, "online", "offline") /\ Store({p})
Die(p) == Appears(p, "online", "dead") /\ Store({p})
Respawn(p) == Appears(p, "dead", "online") /\ UNCHANGED <<live, saved, missed>>

\* The object of a dead player is dropped, and with it what it was paid.
LeaveDead(p) ==
    /\ Appears(p, "dead", "offline")
    /\ live' = [live EXCEPT ![p] = saved[p]] /\ UNCHANGED saved /\ missed' = missed \ {p}

SaveAll ==
    /\ Idle /\ UNCHANGED <<presence, offers, nextOffer, batch, settling, armed, unsaved, claim, kills>>
    /\ Store({p \in Merchants : presence[p] = "online"})

\* The server is killed and started again, perhaps within a turn of
\* processExpiredOffers that has deleted its row and paid nobody yet.
Crash ==
    /\ presence' = [p \in Merchants |-> "offline"]
    /\ live' = saved /\ batch' = {} /\ settling' = FALSE /\ armed' = TRUE
    /\ unsaved' = {} /\ claim' = NoClaim /\ missed' = {}
    /\ \/ offers' = offers /\ kills' = IF unsaved = {} THEN kills ELSE kills + 1
       \/ /\ unsaved = {} /\ kills' = kills + 1
          /\ \E row \in batch : row.id \in DOMAIN offers /\ offers' = Others(row.id)
    /\ kills' <= MaxKills
    /\ UNCHANGED <<saved, nextOffer>>

MarketNext ==
    \/ \E p \in Merchants :
          \/ \E sale \in BOOLEAN, n \in Amounts : \E fee \in fees(Price * n) : Create(p, sale, n, fee)
          \/ \E id \in DOMAIN offers : Cancel(p, id) \/ \E n \in 1..offers[id].amount : Accept(p, id, n)
          \/ Enter(p) \/ Leave(p) \/ Die(p) \/ Respawn(p) \/ LeaveDead(p)
    \/ \E k \in DOMAIN offers : checkExpiredOffers(k)
    \/ ReduceOffer \/ FinishRequest \/ processExpiredOffers \/ SaveAll \/ Crash

MarketSpec == MarketInit /\ [][MarketNext]_marketVars

\* A scheduled check is made, every offer is old some day, the dispatcher goes
\* on with its task, and the server does not crash for ever.
MarketFairness ==
    /\ WF_marketVars(\E k \in DOMAIN offers : checkExpiredOffers(k))
    /\ WF_marketVars(processExpiredOffers)
    /\ WF_marketVars(ReduceOffer) /\ WF_marketVars(FinishRequest)
    /\ <>[][~Crash]_marketVars

-----------------------------------------------------------------------------
(* Properties *)

Purse == [gold : Nat, goods : Nat]
Offer == [owner : Merchants, sale : BOOLEAN, amount : Nat \ {0}]

\* The rows are numbered upwards, and nobody owes anything.
MarketTypeOK ==
    /\ presence \in [Merchants -> {"online", "dead", "offline"}]
    /\ live \in [Merchants -> Purse] /\ saved \in [Merchants -> Purse]
    /\ nextOffer \in Nat \ {0} /\ DOMAIN offers \subseteq 1..(nextOffer - 1)
    /\ \A id \in DOMAIN offers : offers[id] \in Offer
    /\ \A row \in batch : row.id \in 1..(nextOffer - 1) /\ row.amount \in Nat \ {0}
                          /\ row.sale \in BOOLEAN /\ row.owner \in Merchants
    /\ settling \in BOOLEAN /\ armed \in BOOLEAN /\ kills \in Nat
    /\ unsaved \subseteq Merchants /\ missed \subseteq Merchants
    /\ claim \in [row : Nat, sale : BOOLEAN, amount : Nat]

\* What an offer holds back of its owner's gold and goods; what was accepted it
\* holds no more, although the row still says so.
GoldIn(offer) == IF offer.sale THEN 0 ELSE Price * offer.amount
GoodsIn(offer) == IF offer.sale THEN offer.amount ELSE 0
Gold == Total([p \in Merchants |-> live[p].gold], Merchants)
        + Total([id \in DOMAIN offers |-> GoldIn(offers[id])], DOMAIN offers) - GoldIn(claim)
GoodsHeld == Total([p \in Merchants |-> live[p].goods], Merchants)
             + Total([id \in DOMAIN offers |-> GoodsIn(offers[id])], DOMAIN offers) - GoodsIn(claim)

\* A row that is settled although it has changed since it was read, or whose
\* owner is dead.
Stale ==
    \E row \in batch \ batch' :
        /\ row.id \in DOMAIN offers
        /\ offers[row.id].amount # row.amount \/ presence[row.owner] = "dead"

\* Gold and goods change hands, they are not made and not lost, but for the
\* fee: what is missing with one player is with another or in an offer.  What
\* the code does not catch is a row that was partly accepted between
\* checkExpiredOffers and processExpiredOffers.
MarketBooks ==
    [][presence' = presence /\ ~Crash =>
          \/ UNCHANGED <<live, offers, nextOffer, claim>>
          \/ Stale
          \/ /\ GoodsHeld' = GoodsHeld
             /\ \/ nextOffer' = nextOffer /\ Gold' = Gold
                \/ nextOffer' # nextOffer
                   /\ Gold - Gold' \in fees(Price * offers'[nextOffer].amount)]_marketVars

\* When the server is killed, nobody gets back what was put into an offer or
\* given to another player, by this or any earlier request: only the request
\* under way, whose row is written and whose player is not saved yet, may be
\* undone by halves.  Excepted are also who was dead when an expired offer was
\* paid back, and who paid for goods that found no room.
NothingTakenBack ==
    \A p \in Merchants \ (unsaved \cup missed) :
        saved[p].gold <= live[p].gold /\ saved[p].goods <= live[p].goods

\* An expired offer is settled some day.
ExpiredIsSettled == \A id \in 1..MaxOffers : id \in DOMAIN offers ~> id \notin DOMAIN offers
=============================================================================
