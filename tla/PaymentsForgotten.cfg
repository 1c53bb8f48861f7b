SPECIFICATION Spec
CONSTANTS
    t1 = t1
    t2 = t2
    n1 = n1
    n2 = n2
    c1 = c1
    c2 = c2
    Tx = {t1, t2}
    AbsentAfter = 1
    Chain = {c1, c2}
    Node = {n1, n2}
    ChainOf <- TwoChains
    Home <- TwoHomes
    FirstChain = c1
    FailuresBeforeFailover = 1
    Slot = {s1, s2}
    MaxId = 2
    WritesFail = FALSE
    WorkersPanic = FALSE
    Crashes = TRUE
    NodesForget = FALSE
PROPERTY
    LetGoOnlyIfTaken
