SPECIFICATION FairSpec
CONSTANTS
    h = h
    x = x
    y = y
    Pools = {h, x, y}
    Coins = {h, x, y}
    NoPool = NoPool
    CoinOf <- PoolCoin
    Worlds <- SomeWorlds
    Healths <- SomeHealths
    Participants <- SomeParts
    Mains <- SomeMains
    Margins <- SomeMargins
    Interval = 3
    StartDelay = 1
    MaxCheck = 1
    MaxEdits = 1
    MaxCrashes = 1
CHECK_DEADLOCK FALSE
PROPERTIES
    NoBounce
    Paced
    ComesHome
