------------------------------ MODULE StoreOpen ------------------------------
(* How the two databases are opened (pecu-store/src/lib.rs, migrate.rs):      *)
(* wallet.sqlite, which is migrated and never thrown away, and cache.sqlite,  *)
(* which is thrown away and never missed.  Every statement of a migration is  *)
(* committed by itself, so the process may end between any two of them, and   *)
(* the next start may be of another build.                                    *)
(*                                                                            *)
(* Step n of the migration makes the n-th thing of the schema.  A table's     *)
(* content is that there is some.                                             *)
EXTENDS Naturals, FiniteSets

CONSTANTS
    Build,          \* the builds that are started
    WalletVersion,  \* of each build
    CacheVersion,   \* of each build
    CacheTable,     \* of each cache version: the tables it has
    Alter,          \* the step that adds a column; the others make tables
    Altered,        \* the table it adds it to
    MaxStarts       \* bound: starts of the process

StoreOpenAssumption ==
    /\ WalletVersion \in [Build -> Nat \ {0}]
    /\ \E b \in Build : \A c \in Build : WalletVersion[c] <= WalletVersion[b]
    /\ CacheVersion \in [Build -> Nat \ {0}]
    /\ \A a, b \in Build : CacheVersion[a] <= CacheVersion[b] =>
           CacheTable[CacheVersion[a]] \subseteq CacheTable[CacheVersion[b]]
    /\ {Alter, Altered} \subseteq Nat /\ Altered < Alter
    /\ MaxStarts \in Nat

Versions == {0} \cup {CacheVersion[b] : b \in Build}
Tables == UNION {CacheTable[CacheVersion[b]] : b \in Build}
Newest == CHOOSE n \in {WalletVersion[b] : b \in Build} :
              \A b \in Build : WalletVersion[b] <= n
Steps == 1 .. Newest
Wanted(b) == CacheTable[CacheVersion[b]]

\* A table that two versions of the cache have and one before them has not would be
\* left by that one with newer rows in it. There are two versions (CACHE_VERSION).
NoTableBetween ==
    \A a, b, c \in Build :
        CacheVersion[a] < CacheVersion[b] /\ CacheVersion[b] < CacheVersion[c] =>
            Wanted(b) \cap Wanted(c) \subseteq Wanted(a)

VARIABLES
    build,      \* the build that runs
    at,         \* how far Store::open has come
    step,       \* the next step of the migration
    wallet,     \* wallet.sqlite: its version, what it has, what has rows
    cache,      \* cache.sqlite: whether it can be read, version, tables, whose rows
    starts

vars == <<build, at, step, wallet, cache, starts>>

\* "open": both are; "without": the wallet runs with no store
At == {"down", "wallet", "cache", "wipe", "create", "open", "without"}

TypeOK ==
    /\ build \in Build
    /\ at \in At
    /\ step \in 0 .. Newest + 1
    /\ wallet \in [version : 0 .. Newest, has : SUBSET Steps, rows : SUBSET Steps]
    /\ wallet.rows \subseteq wallet.has \ {Alter}
    /\ cache \in [broken : BOOLEAN, version : Versions, has : SUBSET Tables,
                  rows : SUBSET (Tables \X Build)]
    /\ \A r \in cache.rows : r[1] \in cache.has
    /\ starts \in 0 .. MaxStarts

NoCache == [broken |-> FALSE, version |-> 0, has |-> {}, rows |-> {}]

Init ==
    /\ build \in Build
    /\ at = "down"
    /\ step = 0
    /\ wallet = [version |-> 0, has |-> {}, rows |-> {}]
    /\ cache = NoCache
    /\ starts = 0

-----------------------------------------------------------------------------
(* The wallet's database *)

\* Store::open reads the version once, and refuses one from the future.
Start(b) ==
    /\ at = "down" /\ starts < MaxStarts
    /\ starts' = starts + 1
    /\ build' = b
    /\ IF wallet.version > WalletVersion[b]
       THEN at' = "without" /\ UNCHANGED step
       ELSE at' = "wallet" /\ step' = wallet.version + 1
    /\ UNCHANGED <<wallet, cache>>

\* CREATE TABLE IF NOT EXISTS
CreateTable ==
    /\ at = "wallet" /\ step <= WalletVersion[build] /\ step # Alter
    /\ wallet' = [wallet EXCEPT !.has = @ \cup {step}]
    /\ step' = step + 1
    /\ UNCHANGED <<build, at, cache, starts>>

\* ALTER TABLE ADD COLUMN is an error when the column is there, and
\* Store::open fails with it.
AddColumn ==
    /\ at = "wallet" /\ step <= WalletVersion[build] /\ step = Alter
    /\ IF step \in wallet.has
       THEN at' = "without" /\ UNCHANGED <<wallet, step>>
       ELSE /\ wallet' = [wallet EXCEPT !.has = @ \cup {step}]
            /\ step' = step + 1
            /\ UNCHANGED at
    /\ UNCHANGED <<build, cache, starts>>

\* set_version, when every step is done
SetVersion ==
    /\ at = "wallet" /\ step > WalletVersion[build]
    /\ wallet' = [wallet EXCEPT !.version = WalletVersion[build]]
    /\ at' = "cache"
    /\ UNCHANGED <<build, step, cache, starts>>

-----------------------------------------------------------------------------
(* The cache *)

\* A cache that cannot be read is removed, and made anew.
OpenCache ==
    /\ at = "cache"
    /\ cache' = IF cache.broken THEN NoCache ELSE cache
    /\ at' = IF ~cache.broken /\ cache.version > CacheVersion[build]
             THEN "wipe" ELSE "create"
    /\ UNCHANGED <<build, step, wallet, starts>>

\* A newer build's cache: DROP TABLE, one for each table this build knows
DropTable(t) ==
    /\ at = "wipe"
    /\ t \in cache.has \cap Wanted(build)
    /\ cache' = [cache EXCEPT !.has = @ \ {t}, !.rows = {r \in @ : r[1] # t}]
    /\ UNCHANGED <<build, at, step, wallet, starts>>

\* ... and then its version is none
ForgetVersion ==
    /\ at = "wipe"
    /\ cache.has \cap Wanted(build) = {}
    /\ cache' = [cache EXCEPT !.version = 0]
    /\ at' = "create"
    /\ UNCHANGED <<build, step, wallet, starts>>

CreateCacheTable(t) ==
    /\ at = "create"
    /\ t \in Wanted(build) \ cache.has
    /\ cache' = [cache EXCEPT !.has = @ \cup {t}]
    /\ UNCHANGED <<build, at, step, wallet, starts>>

CacheReady ==
    /\ at = "create"
    /\ Wanted(build) \subseteq cache.has
    /\ cache' = [cache EXCEPT !.version = CacheVersion[build]]
    /\ at' = "open"
    /\ UNCHANGED <<build, step, wallet, starts>>

-----------------------------------------------------------------------------
(* What is written, and what goes wrong *)

\* What the user chose: a row of any table this build knows
WriteWallet(n) ==
    /\ at = "open" /\ n \in wallet.has \ {Alter} /\ n <= WalletVersion[build]
    /\ wallet' = [wallet EXCEPT !.rows = @ \cup {n}]
    /\ UNCHANGED <<build, at, step, cache, starts>>

WriteCache(t) ==
    /\ at = "open" /\ t \in cache.has \cap Wanted(build)
    /\ cache' = [cache EXCEPT !.rows =
                    {r \in @ : r[1] # t} \cup {<<t, build>>}]
    /\ UNCHANGED <<build, at, step, wallet, starts>>

\* The process ends, between any two statements.
Die ==
    /\ at # "down"
    /\ at' = "down"
    /\ step' = 0
    /\ UNCHANGED <<build, wallet, cache, starts>>

\* The cache is damaged while nothing runs.
Damage ==
    /\ at = "down"
    /\ cache' = [cache EXCEPT !.broken = TRUE]
    /\ UNCHANGED <<build, at, step, wallet, starts>>

-----------------------------------------------------------------------------

Opening ==
    \/ CreateTable \/ AddColumn \/ SetVersion
    \/ OpenCache \/ ForgetVersion \/ CacheReady
    \/ \E t \in Tables : DropTable(t) \/ CreateCacheTable(t)

Next ==
    \/ \E b \in Build : Start(b)
    \/ Opening
    \/ \E n \in Steps : WriteWallet(n)
    \/ \E t \in Tables : WriteCache(t)
    \/ Die
    \/ Damage

Spec == Init /\ [][Next]_vars

-----------------------------------------------------------------------------
(* Properties *)

\* What the user wrote stays, over any sequence of builds and of ends of the
\* process ("things that cannot be reconstructed", pecu-store lib.rs 5).
RowsStay == wallet.rows \subseteq wallet'.rows

\* A build writes only into databases that have the schema it was written for
\* (migrate::wallet, migrate::cache), however the starts before it ended.
SchemaIsThere ==
    at = "open" =>
        /\ 1 .. WalletVersion[build] \subseteq wallet.has
        /\ Wanted(build) \subseteq cache.has
        /\ ~cache.broken

\* A build that is older than the one that wrote the settings last does not
\* touch them ("guessing at a schema from the future is how a setting quietly
\* turns into something else", pecu-store lib.rs 10).
FutureIsUntouched == wallet.version > WalletVersion[build'] /\ at' # "down" => UNCHANGED wallet

\* What a build reads from the cache, an older build or itself wrote.
CacheIsUnderstood ==
    at = "open" => \A r \in cache.rows :
        r[1] \in Wanted(build) =>
            CacheVersion[r[2]] <= CacheVersion[build]

\* A start that goes on comes to an end, with a store or without one, unless the
\* process is ended.
Waiting == at \in {"wallet", "cache", "wipe", "create"}

\* A database this build can read is opened at every start ("Running it again
\* is a no-op, which is what makes every start safe", migrate.rs 277).
\* Does not hold: a start that ends between the step that adds the column and
\* the version leaves a file that every later start refuses.
EveryStartIsSafe == at = "without" => wallet.version > WalletVersion[build]
=============================================================================
