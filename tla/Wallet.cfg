\* Every part is bounded (keys, time, starts) and so may stop.
SPECIFICATION Spec
CONSTANTS
    Keys = {k1, k2}
    NoKey = NoKey
    Labels = {main, savings, old}
    NoLabel = NoLabel
    MainLabel = main
    Passes = {p1, p2}
    ReadsFail = FALSE
    Core = core
    Workers = {w1, w2}
    None = None
    Accounts = {made, brought}
    Brought = {brought}
    Names = {one, two}
    Margin = 2
    Burst = 1
    Started = 7
    MaxTime = 4
    Urls = {1, 3}
    OurUrls = {1}
    NodeLists <- ThreeLists
    MaxHeight = 2
    FailuresBeforeFailover = 1
    MaxProbes = 1
    Places = 3
    Size <- TwoSizes
    Builds = {"old", "column", "scan"}
    WalletVersion <- WalletVersions
    CacheVersion <- CacheVersions
    CacheTable <- CacheTables
    Alter = 6
    Altered = 3
    MaxStarts = 4
INVARIANTS
    TypeOK
    NoKeyLost
    SecretsAreGuarded
    SkipsNothing
    SchemaIsThere
PROPERTIES
    WhatIsWrittenStays
CHECK_DEADLOCK FALSE
