\* Every part is bounded (heights, tickets, names, inputs) and so may stop.
SPECIFICATION Spec
CONSTANTS
    a = a
    b = b
    x = x
    y = y
    n = n
    m = m
    c1 = c1
    c2 = c2
    k1 = k1
    NoAccount = NoAccount
    NoNote = NoNote
    NoReading = NoReading
    NoClaim = NoClaim
    NoName = NoName
    quote = quote
    native = native
    third = third
    Coins = {a, b}
    Others = {x}
    TopHeight = 2
    Lag = 1
    Chains = {c1, c2}
    Checks = 1
    Tickets = 2
    Records = 3
    Refusals = 1
    Refusable = {"conversion"}
    Notes = {n, m}
    Born = 1
    Stride = 2
    Checkpoints = 1
    Length = 4
    Moves = 2
    Claims = {a, b}
    Names = {x, y}
    NameOf <- TwoNames
    Keys = {k1}
    Restarts = 1
INVARIANTS
    TypeOK
    
    SumsAddUp
    SentOnce
    StaysOnItsChain
    LaunchUnderItsName
CHECK_DEADLOCK FALSE
