SPECIFICATION MarketsSpec
CONSTANTS
    p1 = p1
    p2 = p2
    b1 = b1
    b2 = b2
    HONE = HONE
    TOK = TOK
    Wild = Wild
    None = None
    c = c
    u = u
    req = req
    a = a
    v = v
    t1 = t1
    h1 = h1
    h2 = h2
    NoTask = NoTask
    s1 = s1
    s2 = s2
    usd = usd
INVARIANTS
    PoolExact
    Accounted
    CirculationCapped
    BridgeBacked
    FeesConserved
    QueueBacked
PROPERTIES
    DepositMintedOnce
    TasksEnd
    PurchaseExact
CHECK_DEADLOCK FALSE
