----------------------------- MODULE MCSpending -----------------------------
(* What decides over a payment: the coins two nodes vouch for, the sums of a  *)
(* send and of a shield, what is built and signed, the reviews of conversions *)
(* and of identity changes, the shielded notes, the halt of conversions, the  *)
(* launch of a currency and the prices. Each by itself: a behaviour is that   *)
(* of one part, chosen at the start, over the same variables.                 *)
EXTENDS TLC, Naturals, Sequences, FiniteSets

CONSTANTS
    a, b, x, y, n, m, c1, c2, k1, NoAccount, NoNote, NoReading, NoClaim, NoName, quote,
    native, third,
    \* the coins two nodes are asked for, and those of another chain
    Coins, Others, TopHeight, Lag,
    \* the reviews of conversions and identity changes
    Chains, Checks, Tickets, Records, Refusals, Refusable,
    \* the shielded notes of one account
    Notes, Born, Stride, Checkpoints, Length, Moves,
    \* the launches, under names that are claimed
    Claims, Names, NameOf, Keys, Restarts

VARIABLES
    part,           \* whose behaviour this is
    s1, s2, s3, s4, s5, s6, s7, s8, s9, s10, s11, s12, s13, s14, s15  \* its variables

slots == <<s1, s2, s3, s4, s5, s6, s7, s8, s9, s10, s11, s12, s13, s14, s15>>
vars == <<part, slots>>

\* The slots a part leaves over are at rest.
Over13 == <<s14, s15>>
Empty13 == s14 = 0 /\ s15 = 0
Over12 == <<s13, Over13>>
Empty12 == s13 = 0 /\ Empty13
Over10 == <<s11, s12, Over12>>
Empty10 == s11 = 0 /\ s12 = 0 /\ Empty12
Over8 == <<s9, s10, Over10>>
Empty8 == s9 = 0 /\ s10 = 0 /\ Empty10
Over3 == <<s4, s5, s6, s7, s8, Over8>>
Empty3 == s4 = 0 /\ s5 = 0 /\ s6 = 0 /\ s7 = 0 /\ s8 = 0 /\ Empty8
Over2 == <<s3, Over3>>
Empty2 == s3 = 0 /\ Empty3
Over1 == <<s2, Over2>>
Empty1 == s2 = 0 /\ Empty2

\* Whose the notes are, and at which height an account was made.
EachOne == (n :> a) @@ (m :> b)
AllToA == [note \in Notes |-> a]
OnlyN == n :> a
OnlyA == [account \in {a} |-> Born]
FromStart == (a :> 1) @@ (b :> 2)

SomePublications ==
    {<<>>, <<[upgrade |-> "disabledefi", height |-> 2]>>, <<[upgrade |-> "bridge", height |-> 1]>>}

TwoNames == (a :> x) @@ (b :> y)
HomeOf == [claim \in Claims |-> c1]
OneName == a :> x
OneHome == a :> c1

\* The reserves of the baskets, and what they publish: in the launch window,
\* trading, failed, and started with nothing issued.
BothAll == [p \in {1, 2} |-> {quote, native, third}]
Hop == [p \in {1, 2} |-> IF p = 1 THEN {native, third} ELSE {quote, native}]
AllTerms == {<<FALSE, FALSE, 0>>, <<FALSE, FALSE, 1>>, <<TRUE, FALSE, 1>>, <<TRUE, TRUE, 1>>,
             <<TRUE, FALSE, 0>>}
Trading == {<<TRUE, FALSE, 1>>}

KeyOfOutput == [o \in 1 .. 5 |-> IF o <= 4 THEN a ELSE b]
ValueOfOutput == <<4, 2, 0, 0, 3>>
TokensOfOutput == [o \in 1 .. 5 |-> (quote :> (CASE o = 3 -> 2 [] o = 4 -> 1 [] OTHER -> 0))
                                     @@ (third :> (IF o = 4 THEN 1 ELSE 0))]

-----------------------------------------------------------------------------
\* Coins of the chain and of another, offered by a node that need not be honest.
C == INSTANCE Corroboration WITH
    born <- s1, gone <- s2, honest <- s3, primary <- s4, secondary <- s5, want <- s6,
    step <- s7, offered <- s8, primaryTip <- s9, secondaryTip <- s10, held <- s11,
    withheld <- s12, result <- s13, Coin <- Coins, Foreign <- Others,
    MaxHeight <- TopHeight, CredibleLag <- Lag, Spending <- FALSE

\* Up to four coins worth one to five. The fee of a coin beyond the first is
\* more than the smallest coin is worth; two notes can be spent at once.
P == INSTANCE SpendPlan WITH
    FeeFloor <- 1, FeePerInput <- 2, FreeInputs <- 1, SmartFee <- 1, RelayFee <- 1,
    RelayPerOutput <- 1, MaxNotes <- 2
Sums == 0 .. 20

\* The values a key holds, in any order, as coins and as notes.
Receive == Len(s1) < 4 /\ \E v \in 1 .. 5 : s1' = Append(s1, v)

\* Two keys under three labels, three native coins and two outputs of tokens,
\* one of which holds two; neither selection nor labels change while a build
\* is under way, coins and prices do.
V == INSTANCE Building WITH
    keys <- s1, active <- s2, outputs <- s3, estimate <- s4, job <- s5, signed <- s6,
    review <- s7, payer <- s8, Key <- {a, b}, Label <- {x, y, m}, NoKey <- NoAccount,
    Output <- 1 .. 5, OwnerOf <- KeyOfOutput, ValueOf <- ValueOfOutput,
    TokensOf <- TokensOfOutput, Token <- {quote, third}, Amounts <- {2}, Estimates <- {90, 100},
    TransferFee <- 1, Steady <- TRUE, Quiet <- FALSE, FeeFloor <- 1, FeePerInput <- 1,
    FreeInputs <- 1, SmartFee <- 0, RelayFee <- 0, RelayPerOutput <- 1, MaxNotes <- 1

\* Every input of three bytes, and every three published values at every tip.
U == INSTANCE Upgrade WITH Half <- 3, MaxBytes <- 3
Heights == 0 .. 2

\* An input of one kind or of the other, put together one piece at a time.
Publish ==
    \/ s2 = <<>> /\ Len(s1) < 3 /\ (\E byte \in U!Byte : s1' = Append(s1, byte)) /\ UNCHANGED s2
    \/ s1 = <<>> /\ Len(s2) < 3 /\ (\E v \in U!Published(Heights) : s2' = Append(s2, v)) /\ UNCHANGED s1

\* Reviews on several chains, writes that fail, a permit that may be refused for
\* what needs no word.
R == INSTANCE Reviews WITH
    chain <- s1, ledger <- s2, closed <- s3, tickets <- s4, changes <- s5, confirms <- s6,
    conversions <- s7, broadcasting <- s8, jobs <- s9, refusals <- s10, typed <- s11,
    told <- s12, sent <- s13, Chain <- Chains, FirstChain <- c1, AbsentAfter <- Checks,
    MaxTickets <- Tickets, Tx <- 1 .. Tickets, MaxRecords <- Records, MaxRefusals <- Refusals,
    Refusing <- Refusable, WritesFail <- TRUE, Patient <- TRUE

\* Two accounts, one note each, on a chain that only grows.
S == INSTANCE ShieldedScan WITH
    blocks <- s1, forks <- s2, here <- s3, open <- s4, active <- s5, server <- s6, held <- s7,
    kept <- s8, job <- s9, paying <- s10, sent <- s11, moves <- s12, Account <- {a, b},
    Note <- {n, m}, OwnerOf <- EachOne, Chain <- {c1}, BornAt <- FromStart,
    MaxHeight <- 3, MaxForks <- 0, Changes <- 2, Away <- FALSE, Fails <- TRUE,
    Overlap <- FALSE, Removes <- FALSE, Leaves <- FALSE

\* One account with its notes; nothing but blocks while a payment is out, and no
\* reorganisation.
O == INSTANCE ShieldedScan WITH
    blocks <- s1, forks <- s2, here <- s3, open <- s4, active <- s5, server <- s6, held <- s7,
    kept <- s8, job <- s9, paying <- s10, sent <- s11, moves <- s12, Account <- {a},
    Note <- Notes, OwnerOf <- AllToA, Chain <- {c1}, BornAt <- OnlyA,
    MaxHeight <- Length, MaxForks <- 0, Changes <- Moves, Away <- FALSE, Fails <- TRUE,
    Overlap <- FALSE, Removes <- FALSE, Leaves <- FALSE

\* The light server is removed and put back, while no scan is under way.
D == INSTANCE ShieldedScan WITH
    blocks <- s1, forks <- s2, here <- s3, open <- s4, active <- s5, server <- s6, held <- s7,
    kept <- s8, job <- s9, paying <- s10, sent <- s11, moves <- s12, Account <- {a},
    Note <- {n}, OwnerOf <- OnlyN, Chain <- {c1}, BornAt <- OnlyA,
    MaxHeight <- 3, MaxForks <- 0, Changes <- 3, Away <- FALSE, Fails <- TRUE,
    Overlap <- FALSE, Removes <- TRUE, Leaves <- FALSE

\* One phrase on two chains; the chain is not changed while a scan is under
\* way.
T == INSTANCE ShieldedScan WITH
    blocks <- s1, forks <- s2, here <- s3, open <- s4, active <- s5, server <- s6, held <- s7,
    kept <- s8, job <- s9, paying <- s10, sent <- s11, moves <- s12, Account <- {a},
    Note <- {n}, OwnerOf <- OnlyN, Chain <- {c1, c2}, BornAt <- OnlyA,
    MaxHeight <- 3, MaxForks <- 0, Changes <- 2, Away <- FALSE, Fails <- TRUE,
    Overlap <- FALSE, Removes <- FALSE, Leaves <- FALSE

\* A chain that is reorganised, and a scan that can go back one block.
G == INSTANCE ShieldedScan WITH
    blocks <- s1, forks <- s2, here <- s3, open <- s4, active <- s5, server <- s6, held <- s7,
    kept <- s8, job <- s9, paying <- s10, sent <- s11, moves <- s12, Account <- {a},
    Note <- {n}, OwnerOf <- OnlyN, Chain <- {c1}, BornAt <- OnlyA,
    MaxHeight <- 3, MaxForks <- 1, Changes <- 1, Away <- FALSE,
    Fails <- FALSE, Overlap <- TRUE, Removes <- FALSE, Leaves <- FALSE

\* Nothing published, a halt to come and a bridge that is switched off, on
\* two chains.
H == INSTANCE Halt WITH
    chain <- s1, height <- s2, published <- s3, tip <- s4, halt <- s5, reading <- s6,
    jobs <- s7, shown <- s8, ever <- s9, halted <- s10, Chain <- {c1, c2}, FirstChain <- c1,
    Half <- 128, MaxBytes <- 9, Publications <- SomePublications, MaxHeight <- 2,
    Growing <- TRUE, Publishing <- TRUE, Patient <- TRUE

\* As before, and nothing changes on the chains.
Y == INSTANCE Halt WITH
    chain <- s1, height <- s2, published <- s3, tip <- s4, halt <- s5, reading <- s6,
    jobs <- s7, shown <- s8, ever <- s9, halted <- s10, Chain <- {c1, c2}, FirstChain <- c1,
    Half <- 128, MaxBytes <- 9, Publications <- SomePublications, MaxHeight <- 2,
    Growing <- FALSE, Publishing <- FALSE, Patient <- TRUE

\* Names of one chain, each of which may get a currency, and a process that dies.
L == INSTANCE Launch WITH
    chain <- s1, key <- s2, reservation <- s3, closed <- s4, ready <- s5, inFlight <- s6,
    intent <- s7, intentFile <- s8, launches <- s9, jobs <- s10, net <- s11, defined <- s12,
    wanted <- s13, dropped <- s14, restarts <- s15, Claim <- Claims, Name <- Names,
    Chain <- {c1}, FirstChain <- c1, Home <- HomeOf, Key <- Keys, FirstKey <- k1, Tidy <- TRUE,
    Patient <- TRUE, WritesFail <- FALSE, MaxRestarts <- Restarts

\* One name of one of two chains.
Z == INSTANCE Launch WITH
    chain <- s1, key <- s2, reservation <- s3, closed <- s4, ready <- s5, inFlight <- s6,
    intent <- s7, intentFile <- s8, launches <- s9, jobs <- s10, net <- s11, defined <- s12,
    wanted <- s13, dropped <- s14, restarts <- s15, Claim <- {a}, Name <- {x},
    NameOf <- OneName, Chain <- {c1, c2}, FirstChain <- c1, Home <- OneHome, Key <- {k1},
    FirstKey <- k1, Tidy <- TRUE, Patient <- TRUE, WritesFail <- FALSE, MaxRestarts <- 1

\* What two baskets may publish, once each or again.
B == INSTANCE Book WITH
    book <- s1, now <- s2, Pool <- {1, 2}, Reserves <- BothAll, Quote <- quote,
    Native <- native, Largest <- 1000, Coin <- 4, Held <- {0, 3}, Terms <- AllTerms,
    Window <- 2, MaxTime <- 0

\* Three times, and two baskets that need not publish at each; the first
\* holds no quote currency and is priced through the second.
K == INSTANCE Book WITH
    book <- s1, now <- s2, Pool <- {1, 2}, Reserves <- Hop, Quote <- quote, Native <- native,
    Largest <- 1000, Coin <- 4, Held <- {1, 3}, Terms <- Trading, Window <- 1, MaxTime <- 2

-----------------------------------------------------------------------------
Init ==
    \/ part = "coins" /\ C!Init /\ Empty13
    \/ part = "plan" /\ s1 = <<>> /\ Empty1
    \/ part = "build" /\ V!Init /\ Empty8
    \/ part = "upgrade" /\ s1 = <<>> /\ s2 = <<>> /\ s3 \in Heights /\ Empty3
    \/ part = "review" /\ R!Init /\ Empty13
    \/ part = "accounts" /\ S!Init /\ Empty12
    \/ part = "notes" /\ O!Init /\ Empty12
    \/ part = "server" /\ D!Init /\ Empty12
    \/ part = "chains" /\ T!Init /\ Empty12
    \/ part = "reorg" /\ G!Init /\ Empty12
    \/ part = "halt" /\ H!Init /\ Empty10
    \/ part = "steady" /\ Y!Init /\ Empty10
    \/ part = "launch" /\ L!Init
    \/ part = "homes" /\ Z!Init
    \/ part = "book" /\ B!Init /\ Empty2
    \/ part = "chart" /\ K!Init /\ Empty2

Next ==
    /\ UNCHANGED part
    /\ \/ part = "coins" /\ C!Next /\ UNCHANGED Over13
       \/ part = "plan" /\ Receive /\ UNCHANGED Over1
       \/ part = "build" /\ V!Next /\ UNCHANGED Over8
       \/ part = "upgrade" /\ Publish /\ UNCHANGED <<s3, Over3>>
       \/ part = "review" /\ R!Next /\ UNCHANGED Over13
       \/ part = "accounts" /\ S!Next /\ UNCHANGED Over12
       \/ part = "notes" /\ O!Next /\ UNCHANGED Over12
       \/ part = "server" /\ D!Next /\ UNCHANGED Over12
       \/ part = "chains" /\ T!Next /\ UNCHANGED Over12
       \/ part = "reorg" /\ G!Next /\ UNCHANGED Over12
       \/ part = "halt" /\ H!Next /\ UNCHANGED Over10
       \/ part = "steady" /\ Y!Next /\ UNCHANGED Over10
       \/ part = "launch" /\ L!Next
       \/ part = "homes" /\ Z!Next
       \/ part = "book" /\ B!Next /\ UNCHANGED Over2
       \/ part = "chart" /\ K!Next /\ UNCHANGED Over2

Spec == Init /\ [][Next]_vars
-----------------------------------------------------------------------------
ASSUME SpendingAssumption ==
    /\ C!CorroborationAssumption /\ P!SpendPlanAssumption /\ U!UpgradeAssumption
    /\ IsFiniteSet(Coins) /\ IsFiniteSet(Others)
    /\ R!ReviewsAssumption /\ Checks \in Nat \ {0} /\ "revocation" \notin Refusable
    /\ V!BuildingAssumption
    /\ V!KindsArePossible(BothAll) /\ V!LoudBelowFloor(3)
    /\ S!ShieldedScanAssumption /\ O!ShieldedScanAssumption /\ D!ShieldedScanAssumption
    /\ T!ShieldedScanAssumption /\ G!ShieldedScanAssumption /\ H!HaltAssumption /\ Y!HaltAssumption
    /\ L!LaunchAssumption /\ NoClaim \notin Claims
    /\ Z!LaunchAssumption
    /\ B!BookAssumption /\ K!BookAssumption

\* Each part keeps to its types.
TypeOK ==
    /\ part = "coins" => C!TypeOK
    /\ part = "build" => V!TypeOK
    /\ part = "review" => R!TypeOK
    /\ part = "accounts" => S!TypeOK
    /\ part = "chains" => T!TypeOK
    /\ part = "halt" => H!TypeOK
    /\ part = "launch" => L!TypeOK
    /\ part = "homes" => Z!TypeOK
    /\ part = "book" => B!TypeOK

\* Whatever the funding node says, and says again while the payment is built, no
\* coin is spent that the second node did not name; coins of another chain are
\* refused and two honest nodes not called dishonest, nor a payment refused that
\* both can fund (corroborate.rs, corroborated_funding).
SpendsOnlyVouched ==
    part = "coins" =>
        C!SpendsOnlyVouched /\ C!ForeignIsRefused /\ C!HonestNotAccused /\ C!RefusedOnlyIfShort

\* Amounts, fees and change add up at every boundary, the number of notes of a
\* shielded payment is enough whenever it can be, and the form's verdict is the
\* build's (send.rs, shield.rs, shielded.rs, validate_draft); every string of
\* bytes is one number, and the worst of what is published is what is said
\* (upgrade.rs); a value is off by its two roundings at most, no price comes from
\* a basket that has not started, and a chart is made of the past (market.rs); what
\* goes into a transaction comes out of it, in every currency, and its review says
\* what the payer is poorer by (token_inputs, review).
SumsAddUp ==
    /\ part = "plan" =>
          P!SendAllIsTheMost(s1) /\ P!ShieldBalances(s1, Sums) /\ P!NotesReach(s1, Sums)
          /\ P!VerdictIsTheBuild(s1, Sums)
    /\ part = "build" => V!NothingIsDestroyed /\ V!ReviewIsTrue
    /\ part = "upgrade" => U!EncodingUnique(s1) /\ U!StatusOfAll(s2, s3) /\ U!HaltIsSaid(s2, s3)
    /\ part = "book" => B!NeverFromUnlaunched /\ B!ValueWithinRounding
    /\ part = "chart" => K!PointUsesThePast /\ K!ChangeIsOfTheWindow

\* A review is sent once, a revocation only with its word; a conversion nobody
\* answered for stays undecided in its ledger; a note that the network took is
\* not offered again (confirm_conversion, finish_convert_broadcast,
\* confirm_identity_change, Shielded::spent_locally).
SentOnce ==
    /\ part = "review" => R!SentOnce /\ R!RevocationNeedsWord /\ R!UnansweredRecorded
    /\ part = "notes" => O!OfferedOnce

\* What is shown, sent and kept is of the chain, the account and the light server
\* it is used with (switch_network, Core::halt, Kept, shielded_scan_forgotten), a scan is of one
\* history (Shielded::sync),
\* a claim's salt is in its own chain's file whichever chain is open, and a payment
\* is signed by and reviewed for the key it was asked of (finish_prepare).
StaysOnItsChain ==
    /\ part = "build" => V!PaysAsAsked /\ V!ReviewIsOfPayer
    /\ part = "review" => R!ChangesOfThisChain
    /\ part = "accounts" => S!HeldIsActives
    /\ part = "server" => D!ForgottenStays
    /\ part = "chains" => T!ReadFromThisChain
    /\ part = "reorg" => G!OneHistory
    /\ part = "halt" => H!HaltIsOfThisChain /\ H!ClearWasRead
    /\ part = "steady" => Y!NothingSignedOnHalt
    /\ part = "homes" => Z!SaltsAtHome

\* A currency is defined under the name it was asked for with, and a name paid
\* for on its account is remembered until it is, over a restart (launch.rs,
\* continue_after_identity, resume_launch).
LaunchUnderItsName ==
    part = "launch" => L!LaunchUnderItsName /\ L!LaunchRemembered /\ L!ReadyIsRegistered
=============================================================================
