----------------------------- MODULE MCHandlers -----------------------------
(***************************************************************************)
(* Eight components that live on the dispatcher alone, checked side by     *)
(* side by one run of TLC.  A handler is one step (SerialIsExclusive), and *)
(* no two of these components share a variable: in a behaviour one of      *)
(* them, the subject, takes all the steps.                                 *)
(***************************************************************************)
EXTENDS WaitingList, Trade, Market, HouseAuction, Decay, Party, Spawns, Raids, TLC

VARIABLE subject

CONSTANTS
    gm, n1, n2, p1, p2,                  \* players at the waiting list
    a, b, c, coins, bag,                 \* traders and what they trade
    m1, m2,                              \* merchants
    c1, c2, c3, h1,                      \* citizens and a house
    i1, i2, torch, stub, off, ring, worn, \* items that decay
    o1, o2, o3, pa, pb,                  \* players and parties
    b1, b2,                              \* blocks of a spawn
    ra, rb, rc                           \* raids

\* Trader a has a bag and one free place, b the coins and room for more, c the
\* house and no room but on a stack.
TradeSlots == a :> 1 @@ b :> 2 @@ c :> 0
TradeStart ==
    [pos |-> a :> 0 @@ b :> 1 @@ c :> 1, place |-> coins :> b @@ bag :> a, owner |-> c]

MarketCapital == [gold |-> 1020, goods |-> 1]

Kind(time, to, stops, into) ==
    [time |-> time, decayTo |-> to, stopTime |-> stops, into |-> into]

\* A torch that burns down to a stub or is put out, and a ring.
DecayTypes ==
    torch :> Kind(2, stub, FALSE, {off}) @@ stub :> Kind(1, Vanish, FALSE, {})
    @@ off :> Kind(0, Never, FALSE, {torch})
    @@ ring :> Kind(0, Never, TRUE, {worn}) @@ worn :> Kind(2, Vanish, FALSE, {ring})
    @@ Never :> Kind(0, Never, FALSE, {})

\* One raid has no events at all.
RaidLength == ra :> 2 @@ rb :> 2 @@ rc :> 0

worldVars == <<tradeVars, auctionVars, decayVars, partyVars, raidVars>>
queueVars == <<waitVars, spawnVars>>
allVars == <<subject, worldVars, marketVars, queueVars>>

HandlersInit(subjects) ==
    /\ subject \in subjects
    /\ WaitInit /\ TradeInit /\ (subject # "trade" => ~onRestart)
    /\ MarketInit /\ AuctionInit /\ DecayInit
    /\ PartyInit /\ (subject # "party" => ~leavePartyOnDeath)
    /\ SpawnsInit /\ (subject # "spawns" => obstacle = [x \in Blocks |-> "none"])
    /\ RaidsInit /\ (subject # "raids" => ~disabled)

WorldNext ==
    /\ UNCHANGED <<subject, queueVars>>
    /\ \/ subject = "market" /\ MarketNext /\ UNCHANGED worldVars
       \/ subject # "market" /\ UNCHANGED marketVars
    /\ \/ subject = "market"
       \/ /\ subject = "trade" /\ TradeNext
          /\ UNCHANGED <<auctionVars, decayVars, partyVars, raidVars>>
       \/ /\ subject = "auction" /\ AuctionNext
          /\ UNCHANGED <<tradeVars, decayVars, partyVars, raidVars>>
       \/ /\ subject = "decay" /\ DecayNext
          /\ UNCHANGED <<tradeVars, auctionVars, partyVars, raidVars>>
       \/ /\ subject = "party" /\ PartyNext
          /\ UNCHANGED <<tradeVars, auctionVars, decayVars, raidVars>>
       \/ /\ subject = "raids" /\ RaidsNext
          /\ UNCHANGED <<tradeVars, auctionVars, decayVars, partyVars>>

QueuesNext ==
    /\ UNCHANGED <<subject, worldVars>>
    /\ \/ subject = "waiting" /\ WaitNext /\ UNCHANGED <<marketVars, spawnVars>>
       \/ subject = "market" /\ MarketNext /\ UNCHANGED <<waitVars, spawnVars>>
       \/ subject = "spawns" /\ SpawnsNext /\ UNCHANGED <<waitVars, marketVars>>

WorldSpec ==
    /\ HandlersInit({"market", "trade", "auction", "decay", "party", "raids"})
    /\ [][WorldNext]_allVars

\* Of what is not the subject no fair action is ever enabled.
QueuesSpec ==
    /\ HandlersInit({"waiting", "market", "spawns"}) /\ [][QueuesNext]_allVars
    /\ WaitFairness /\ MarketFairness /\ SpawnsFairness
=============================================================================
