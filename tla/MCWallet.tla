------------------------------ MODULE MCWallet ------------------------------
(* The wallet file and its locks, the shielded birthdays, the nodes, the      *)
(* proving parameters and the databases, each by itself: a behaviour is that  *)
(* of one part, chosen at the start, over the same variables.                 *)
EXTENDS TLC, Naturals, Sequences, FiniteSets

CONSTANTS
    \* the wallet file
    Keys, NoKey, Labels, NoLabel, MainLabel, Passes, ReadsFail,
    \* its locks
    Core, Workers, None,
    \* the birthdays: the keys, those of them that are brought in, their names
    Accounts, Brought, Names, Margin, Burst, Started, MaxTime,
    \* the nodes
    Urls, OurUrls, NodeLists, MaxHeight, FailuresBeforeFailover, MaxProbes,
    \* the proving parameters
    Places, Size,
    \* the databases
    Builds, WalletVersion, CacheVersion, CacheTable, Alter, Altered, MaxStarts

VARIABLES
    part,           \* whose behaviour this is
    s1, s2, s3, s4, s5, s6, s7, s8, s9, s10, s11, s12  \* its variables

slots == <<s1, s2, s3, s4, s5, s6, s7, s8, s9, s10, s11, s12>>
vars == <<part, slots>>

\* The slots a part leaves over are at rest.
Over11 == <<s12>>
Empty11 == s12 = 0
Over6 == <<s7, s8, s9, s10, s11, Over11>>
Empty6 == s7 = 0 /\ s8 = 0 /\ s9 = 0 /\ s10 = 0 /\ s11 = 0 /\ Empty11

Writes == {"new", "add", "rename", "pass", "flag"}
LateWrites == Writes \ {"add"}

\* What the small instance takes for the constants that are no sets of values: two
\* places to find parameters in and one's own, lists of endpoints that put them in
\* another order or leave one out, and three builds, one with a column more than the
\* one before it and one with another table of the cache.
TwoSizes == ("output" :> 2) @@ ("spend" :> 2)
ThreeLists ==
    {<<[url |-> 1, slash |-> FALSE], [url |-> 3, slash |-> FALSE]>>,
     <<[url |-> 3, slash |-> FALSE], [url |-> 1, slash |-> TRUE]>>,
     <<[url |-> 3, slash |-> FALSE]>>}
WalletVersions == ("old" :> 5) @@ ("column" :> 6) @@ ("scan" :> 6)
CacheVersions == ("old" :> 1) @@ ("column" :> 1) @@ ("scan" :> 2)
CacheTables == (1 :> {"kv"}) @@ (2 :> {"kv", "scan"})

-----------------------------------------------------------------------------
\* The wallet file; every write but that of a new key may fail.
V == INSTANCE Vault WITH
    up <- s1, file <- s2, bak <- s3, vault <- s4, dek <- s5, active <- s6, backup <- s7,
    shielded <- s8, used <- s9, stored <- s10, proven <- s11, Key <- Keys, Label <- Labels,
    Main <- MainLabel, Pass <- Passes, Write <- Writes, FailsIn <- LateWrites, Imports <- TRUE,
    MayCrash <- FALSE

\* Keys are generated here and no write fails; the process may end between
\* two of them.
N == INSTANCE Vault WITH
    up <- s1, file <- s2, bak <- s3, vault <- s4, dek <- s5, active <- s6, backup <- s7,
    shielded <- s8, used <- s9, stored <- s10, proven <- s11, Key <- Keys, Label <- Labels,
    Main <- MainLabel, Pass <- Passes, Write <- Writes, FailsIn <- {}, Imports <- FALSE,
    ReadsFail <- FALSE, MayCrash <- TRUE

\* The core and the workers that sign.
L == INSTANCE VaultLocks WITH
    op <- s1, pc <- s2, reading <- s3, writing <- s4, asking <- s5, dek <- s6,
    Worker <- Workers

\* Keys made here and keys brought in, each name given once, a clock that runs
\* on, and a chain that takes nothing back.
B == INSTANCE Birthday WITH
    time <- s1, clock <- s2, height <- s3, credit <- s4, tip <- s5, keyAt <- s6, active <- s7,
    known <- s8, pending <- s9, paid <- s10, from <- s11, had <- s12, Key <- Accounts,
    Imported <- Brought, Label <- Names, Reuse <- FALSE, ClockJumps <- FALSE, Reorgs <- FALSE

\* Builds with lists of their own; nobody gives a chain id that is not its
\* chain's, and a reading is done before the next thing happens.
K == INSTANCE Nodes WITH
    build <- s1, nodes <- s2, active <- s3, remembered <- s4, heights <- s5, probes <- s6,
    polling <- s7, unlocked <- s8, reading <- s9, shown <- s10, chosen <- s11, odd <- s12,
    Url <- Urls, Ours <- OurUrls, Builds <- NodeLists, Swift <- TRUE, Garbles <- FALSE

\* The places where other programs may have left parameters, and the wallet's own.
P == INSTANCE Params WITH
    files <- s1, temp <- s2, name <- s3, written <- s4, progress <- s5, result <- s6

\* The databases, opened by one build after another.
S == INSTANCE StoreOpen WITH
    build <- s1, at <- s2, step <- s3, wallet <- s4, cache <- s5, starts <- s6, Build <- Builds

-----------------------------------------------------------------------------
Init ==
    \/ part = "vault" /\ V!Init /\ Empty11
    \/ part = "created" /\ N!Init /\ Empty11
    \/ part = "locks" /\ L!Init /\ Empty6
    \/ part = "birthday" /\ B!Init
    \/ part = "nodes" /\ K!Init
    \/ part = "params" /\ P!Init /\ Empty6
    \/ part = "store" /\ S!Init /\ Empty6

Next ==
    /\ UNCHANGED part
    /\ \/ part = "vault" /\ V!Next /\ UNCHANGED Over11
       \/ part = "created" /\ N!Next /\ UNCHANGED Over11
       \/ part = "locks" /\ L!Next /\ UNCHANGED Over6
       \/ part = "birthday" /\ B!Next
       \/ part = "nodes" /\ K!Next
       \/ part = "params" /\ P!Next /\ UNCHANGED Over6
       \/ part = "store" /\ S!Next /\ UNCHANGED Over6

Spec == Init /\ [][Next]_vars
-----------------------------------------------------------------------------
ASSUME WalletAssumption ==
    /\ V!VaultAssumption /\ N!VaultAssumption /\ L!VaultLocksAssumption
    /\ B!BirthdayAssumption /\ S!StoreOpenAssumption /\ S!NoTableBetween
    /\ K!NodesAssumption /\ K!BackoffGrows /\ P!ParamsAssumption

\* Each part keeps to its types.
TypeOK ==
    /\ part = "vault" => V!TypeOK
    /\ part = "created" => N!TypeOK
    /\ part = "locks" => L!TypeOK
    /\ part = "birthday" => B!TypeOK
    /\ part = "store" => S!TypeOK
    /\ part = "nodes" => K!TypeOK
    /\ part = "params" => P!TypeOK

\* A key that was written is in the wallet file or in its copy, the file is never
\* an empty wallet, and it opens with the passphrase and the names that memory
\* says (Vault::persist, change_passphrase, rename_key, Wallet::import).
NoKeyLost == part = "vault" => V!NoKeyLost /\ V!NoEmptyWallet /\ V!OpensAfterRestart

\* A key is in use only while the wallet is unlocked, whatever the core and its
\* workers are in the middle of (Vault::with_key and lock); the labels that stand
\* for a key still do after renames; only words that were typed back count as
\* backed up; and the shielded account is the active key's, and gone with the
\* data key (Wallet::refresh_shielded).
SecretsAreGuarded ==
    /\ part = "locks" => L!KeyOnlyWhileUnlocked
    /\ part = "vault" => V!ReferencesLive /\ V!BackedUpWasSeen /\ V!ShieldedIsActives
    /\ part = "created" => N!ReferencesLive /\ N!BackedUpWasSeen /\ N!ShieldedFollowsActive

\* A first scan starts at or below the first payment to its key, and for a key
\* made here not further below than the chain can have grown (light_birthday,
\* settle_birthday); when nothing is being read, the figures are of the node that
\* was chosen, over all starts and builds, and of the height it is said to have
\* (finish_tip, set_active_by_url).
SkipsNothing ==
    /\ part = "birthday" => B!SkipsNothing /\ B!SkipsTheRest
    /\ part = "nodes" => K!ActiveIsChosen /\ K!TipIsRead

\* Whatever builds ran before, in any order, and wherever their starts ended, a
\* build that runs has the schema it was written for, and reads from the cache
\* only what an older build or itself wrote (migrate.rs); and wherever a download
\* ended, a parameter file under its name is whole, and what was fetched is found
\* (params::fetch, find_in).
SchemaIsThere ==
    /\ part = "store" => S!SchemaIsThere /\ S!CacheIsUnderstood
    /\ part = "params" => P!WholeUnderItsName /\ P!FoundWhenFetched

\* No step takes a row of the user's away, an older build does not touch the
\* settings of a newer one, the wallet file never unsays a backup, a failover does
\* not leave the requested chain, and a download's progress does not go back
\* (migrate::wallet, Vault::mark_backed_up, fail_over, params::fetch).
WhatIsWrittenStays ==
    [][/\ part = "store" => S!RowsStay /\ S!FutureIsUntouched
       /\ part = "vault" => V!FlagStays
       /\ part = "nodes" => K!FailoverStaysOnChain
       /\ part = "params" => P!ProgressGrows]_vars
=============================================================================
