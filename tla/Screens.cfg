\* Every part is bounded (tickets, queues, payments, heights, edits) and so may
\* stop.
SPECIFICATION Spec
CONSTANTS
    Panels = {"send", "convert", "launch", "change"}
    MaxTickets = 2
    MaxKept = 1
    MaxSwitches = 1
    MaxQueue = 1
    Searches = TRUE
    Patient = FALSE
    Chain = {c1, c2}
    FirstChain = c1
    Name = {m, n}
    NoName = NoName
    Address = {a1, a2}
    NoAddress = NoAddress
    Home <- TwoHomes
    Slots = 2
    MaxChanges = 2
    Fails = TRUE
    Traded = {c1}
    Currency = {x, y}
    Nowhere = Nowhere
    Pool = {b1, b2}
    NoPool = NoPool
    RouteAt <- Moving
    OutAt <- Paying
    MaxAt = 1
    MaxPay = 1
    MaxEdits = 3
    Leaves = FALSE
    Network = {test, vrsc, other}
    Worthless = {test}
    Pinned = {test, vrsc}
    Nameless = {other}
    ShippedPlaces = {1}
    FirstNetwork = test
    NoChain = NoChain
    MaxProbes = 1
    ByIdentity = {a1}
    Bought = a1
    MaxPayments = 2
    MaxForgets = 1
    MaxRestarts = 1
    Ids = {i, j}
    Nobody = Nobody
    MaxTransfers = 1
    Written = {1, 2, 4, 7}
    Growth = 7
    BlockWindow = 1
    MaxWindow = 2
    PageRows = 2
    MaxRequests = 24
    Backing = {x, y, z}
    Recipient = {r1}
    Blank = Blank
    Weights = {29, 40}
    Bits = 6
    Narrow = 30
    One = 29
    MaxReserves = 3
    Delays = {0, 1, 3}
    MaxTip = 4
    Authorities = {"ours", "theirs"}
    LockDelays = {1}
    Extra = {0}
    Life = 1
    LifeHeight = 4
    MaxRevisions = 2
    MaxReviews = 1
    k1 = k1
    k2 = k2
    NoKey = NoKey
    c1 = c1
    c2 = c2
    m = m
    n = n
    a1 = a1
    a2 = a2
    x = x
    y = y
    b1 = b1
    b2 = b2
    NoValue = NoValue
INVARIANTS
    TypeOK
    SentWasShown
    ArmNamesChain
    PermitsArmed
    PermitsBorneOut
    ShownIsHeld
    NothingSkipped
    CountedOnce
    WeightsAddUp
PROPERTIES
    ShownStays
CHECK_DEADLOCK FALSE
