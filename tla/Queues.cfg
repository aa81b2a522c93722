CONSTANTS
    gm = gm
    n1 = n1
    n2 = n2
    p1 = p1
    p2 = p2
    Players = {gm, n1, n2, p1, p2}
    Premium = {p1, p2}
    Exempt = {gm}
    MaxPlayers = 2
    TickLength = 10
    MaxDrift = 2
    a = a
    b = b
    c = c
    coins = coins
    bag = bag
    Deed = Deed
    Nobody = Nobody
    Traders = {a, b, c}
    Goods = {coins, bag}
    Bags = {bag}
    Stackable = {coins}
    Spots = {0, 1, 3}
    Slots <- TradeSlots
    Piles = {c}
    BagSize = 1
    Start <- TradeStart
    LeaveWhileTrading = FALSE
    m1 = m1
    m2 = m2
    Merchants = {m1, m2}
    Capital <- MarketCapital
    Price = 500
    Amounts = {2}
    MaxOffers = 2
    MaxKills = 0
    LimitedInbox = FALSE
    c1 = c1
    c2 = c2
    c3 = c3
    h1 = h1
    Citizens = {c1, c2, c3}
    Vacant = Vacant
    Estates = {h1}
    Bids = {1, 2}
    Prices = {0, 1}
    Rent = 1
    Savings = 3
    MaxHouses = 1
    MaxWealth = 10
    i1 = i1
    i2 = i2
    torch = torch
    stub = stub
    off = off
    ring = ring
    worn = worn
    Items = {i1, i2}
    Type <- DecayTypes
    Made = {torch, ring}
    Never = Never
    Vanish = Vanish
    Unset = Unset
    MinTicks = 1
    MaxTime = 2
    o1 = o1
    o2 = o2
    o3 = o3
    pa = pa
    pb = pb
    Persons = {o1, o2, o3}
    Parties = {pa, pb}
    None = None
    b1 = b1
    b2 = b2
    Blocks = {b1, b2}
    Blockable = {b1}
    MaxChains = 2
    MaxStrays = 1
    ra = ra
    rb = rb
    rc = rc
    Names = {ra, rb, rc}
    Repeatable = {rb}
    Length <- RaidLength
    NoRaid = NoRaid
SPECIFICATION QueuesSpec
INVARIANTS
    ReferencesMatch
    SpawnsWatched
PROPERTIES
    LoginsInOrder
    WaitEnds
    EmptyIsRefilled
    ExpiredIsSettled
CHECK_DEADLOCK FALSE
