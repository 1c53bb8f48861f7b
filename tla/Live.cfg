\* Every part is bounded, and nobody has to press anything. A deadlock of the
\* locks is a call that does not return, and is found as one.
SPECIFICATION FairSpec
CONSTANTS
    t1 = t1
    n1 = n1
    w1 = w1
    w2 = w2
    c0 = c0
    None = None
    NoValue = NoValue
    k1 = k1
    k2 = k2
    NoKey = NoKey
    c1 = c1
    c2 = c2
    m = m
    n = n
    NoName = NoName
    acc = acc
    a1 = a1
    a2 = a2
    NoAddress = NoAddress
    x = x
    y = y
    Nowhere = Nowhere
    b1 = b1
    b2 = b2
    NoPool = NoPool
    NoAccount = NoAccount
    NoNote = NoNote
    NoReading = NoReading
PROPERTIES
    BroadcastEnds
    SeenIsSettled
    EveryWaitEnds
CHECK_DEADLOCK FALSE
