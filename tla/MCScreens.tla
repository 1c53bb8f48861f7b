----------------------------- MODULE MCScreens ------------------------------
(* What the window and the core tell each other, and what the core keeps of   *)
(* what nodes answer. Each part by itself: a behaviour is that of one part,   *)
(* chosen at the start, over the same variables.                              *)
EXTENDS TLC, Integers, Sequences, FiniteSets

CONSTANTS
    \* the panels
    Panels, MaxTickets, MaxKept, MaxSwitches, MaxQueue, Searches, Patient,
    \* the names
    Chain, FirstChain, Name, NoName, Address, NoAddress, Home, Slots, MaxChanges, Fails,
    \* the markets
    Traded, Currency, Nowhere, Pool, NoPool, RouteAt, OutAt, MaxAt, MaxPay, MaxEdits, Leaves,
    \* the gate
    Network, Worthless, Pinned, Nameless, ShippedPlaces, FirstNetwork, NoChain, MaxProbes,
    \* the address book
    ByIdentity, Bought, MaxPayments, MaxForgets, MaxRestarts,
    \* the watched identities
    Ids, Nobody, MaxTransfers,
    \* the pages of the history
    Written, Growth, BlockWindow, MaxWindow, PageRows, MaxRequests,
    \* the basket that is typed
    Backing, Recipient, Blank, Weights, Bits, Narrow, One, MaxReserves, Delays, MaxTip,
    \* the changes of an identity
    Authorities, LockDelays, Extra, Life, LifeHeight, MaxRevisions, MaxReviews,
    \* what the other parts are made of
    k1, k2, NoKey, c1, c2, m, n, a1, a2, x, y, b1, b2, NoValue

VARIABLES
    part,           \* whose behaviour this is
    s1, s2, s3, s4, s5, s6, s7, s8, s9, s10, s11, s12, s13, s14, s15, s16  \* its variables

slots == <<s1, s2, s3, s4, s5, s6, s7, s8, s9, s10, s11, s12, s13, s14, s15, s16>>
vars == <<part, slots>>

\* The slots a part leaves over are at rest.
Over15 == <<s16>>
Empty15 == s16 = 0
Over14 == <<s15, Over15>>
Empty14 == s15 = 0 /\ Empty15
Over13 == <<s14, Over14>>
Empty13 == s14 = 0 /\ Empty14
Over10 == <<s11, s12, s13, Over13>>
Empty10 == s11 = 0 /\ s12 = 0 /\ s13 = 0 /\ Empty13
Over9 == <<s10, Over10>>
Empty9 == s10 = 0 /\ Empty10
Over8 == <<s9, Over9>>
Empty8 == s9 = 0 /\ Empty9
Over4 == <<s5, s6, s7, s8, Over8>>
Empty4 == s5 = 0 /\ s6 = 0 /\ s7 = 0 /\ s8 = 0 /\ Empty8

\* What two names mean at first, on either chain the other way round.
TwoHomes == (c1 :> ((m :> a1) @@ (n :> a2))) @@ (c2 :> ((m :> a2) @@ (n :> a1)))

\* The second notarization pays less and leaves the pair another way.
Moving == (0 :> b1) @@ (1 :> b2)
Paying == (0 :> 2) @@ (1 :> 1)

\* An empty query meets everything; the other starts the last name and is in
\* the first.
Catalogue == c1 :> {1, 2, 3}
HitOf ==
    [s \in {"", "c"} \X (1 .. 3) |->
        IF s[1] = "" \/ s[2] = 1 THEN "inside" ELSE IF s[2] = 3 THEN "prefix" ELSE "none"]

\* What each block pays to each key, and when.
TwoAddresses == <<k1, k2>>
Effects ==
    (1 :> ((k1 :> 5) @@ (k2 :> 0))) @@ (2 :> ((k1 :> -3) @@ (k2 :> 2)))
    @@ (3 :> ((k1 :> 0) @@ (k2 :> 4)))
Times == (1 :> 0) @@ (2 :> 1) @@ (3 :> 3)

AllHere == [id \in Ids |-> FirstChain]

\* The blocks that hold a transaction.
TwoHistories == (c1 :> {1, 3, 4}) @@ (c2 :> {2})
OneHistory == [c \in {FirstChain} |-> Written]

\* Nobody types a name; every kind of name is typed.
Silent == {}
Names == {[name |-> text, padded |-> FALSE] : text \in {"", "free", "taken", "long", "bad"}}

-----------------------------------------------------------------------------
\* The four panels, presses that overtake what is on its way, and a change of
\* chain.
P == INSTANCE Panels WITH
    step <- s1, ticket <- s2, busy <- s3, problem <- s4, commands <- s5, events <- s6,
    tickets <- s7, held <- s8, jobs <- s9, broadcasting <- s10, kept <- s11, switches <- s12,
    pressed <- s13, backed <- s14, sent <- s15

\* Two panels, and one thing reviewed at a time.
Q == INSTANCE Panels WITH
    step <- s1, ticket <- s2, busy <- s3, problem <- s4, commands <- s5, events <- s6,
    tickets <- s7, held <- s8, jobs <- s9, broadcasting <- s10, kept <- s11, switches <- s12,
    pressed <- s13, backed <- s14, sent <- s15, Panels <- {"send", "convert"}, MaxTickets <- 2,
    MaxKept <- 1, MaxSwitches <- 0, MaxQueue <- 2, Searches <- FALSE, Patient <- TRUE

\* A key that is there and one that is added; presses while anything is under
\* way.
F == INSTANCE PhraseScreen WITH
    locked <- s1, keys <- s2, backedUp <- s3, backup <- s4, step <- s5, label <- s6,
    reReading <- s7, words <- s8, challenge <- s9, seen <- s10, held <- s11, closed <- s12,
    commands <- s13, events <- s14, Key <- {k1, k2}, NewKey <- k2, Patient <- FALSE,
    MaxQueue <- 3

\* As before, pressed only when all has arrived.
W == INSTANCE PhraseScreen WITH
    locked <- s1, keys <- s2, backedUp <- s3, backup <- s4, step <- s5, label <- s6,
    reReading <- s7, words <- s8, challenge <- s9, seen <- s10, held <- s11, closed <- s12,
    commands <- s13, events <- s14, Key <- {k1, k2}, NewKey <- k2, Patient <- TRUE,
    MaxQueue <- 4

\* Every wallet a start may find, three messages under way.
D == INSTANCE FrontDoor WITH
    vault <- s1, refreshing <- s2, exists <- s3, shut <- s4, busy <- s5, problem <- s6,
    restoring <- s7, commands <- s8, events <- s9, refused <- s10, MaxQueue <- 3

\* Two names that move twice, with other meanings on another chain; one lookup
\* at a time.
N == INSTANCE Names WITH
    net <- s1, means <- s2, changes <- s3, typed <- s4, identity <- s5, resolving <- s6,
    store <- s7, jobs <- s8, paid <- s9, meant <- s10, Patient <- TRUE

\* Two addresses, one of them an identity, on two chains; a start in between.
A == INSTANCE AddressBook WITH
    chain <- s1, book <- s2, known <- s3, records <- s4, ids <- s5, named <- s6, lookups <- s7,
    review <- s8, forgets <- s9, restarts <- s10, paid <- s11, spoken <- s12, gone <- s13,
    Identity <- ByIdentity, Currency <- Bought, Converts <- FALSE, Dies <- FALSE

\* One chain, with conversions, and a process that dies between two writes.
B == INSTANCE AddressBook WITH
    chain <- s1, book <- s2, known <- s3, records <- s4, ids <- s5, named <- s6, lookups <- s7,
    review <- s8, forgets <- s9, restarts <- s10, paid <- s11, spoken <- s12, gone <- s13,
    Chain <- {FirstChain}, Identity <- ByIdentity, Currency <- Bought, Converts <- TRUE,
    Dies <- TRUE

\* The form is edited while prices, balances and estimates come back.
K == INSTANCE Markets WITH
    chain <- s1, at <- s2, halted <- s3, book <- s4, markets <- s5, table <- s6, column <- s7,
    holdings <- s8, draft <- s9, ticket <- s10, ready <- s11, floor <- s12, quote <- s13,
    prepared <- s14, flight <- s15, Chain <- Traded

\* Searches, readings that fail, a node that comes and goes.
S == INSTANCE CurrencyPicker WITH
    asked <- s1, node <- s2, catalog <- s3, pending <- s4, fees <- s5, lists <- s6,
    charges <- s7, last <- s8, panel <- s9, Chain <- {c1}, Currency <- {1, 2, 3},
    Query <- {"", "c"}, Hit <- HitOf, None <- NoValue, Shown <- 2, MaxJobs <- 2

\* Readings overlap and fail, control changes, the program restarts.
I == INSTANCE Identities WITH
    chain <- s1, owned <- s2, transfers <- s3, identities <- s4, lookedUp <- s5, stored <- s6,
    open <- s7, eligible <- s8, screen <- s9, asks <- s10, flight <- s11, told <- s12,
    fresh <- s13, Chain <- {FirstChain}, Identity <- Ids, NoIdentity <- Nobody,
    HomeOf <- AllHere, MaxAsks <- 0, Overlap <- TRUE, Fails <- TRUE, Leaves <- FALSE,
    Restarts <- TRUE

\* One reading at a time, while control changes.
J == INSTANCE Identities WITH
    chain <- s1, owned <- s2, transfers <- s3, identities <- s4, lookedUp <- s5, stored <- s6,
    open <- s7, eligible <- s8, screen <- s9, asks <- s10, flight <- s11, told <- s12,
    fresh <- s13, Chain <- {FirstChain}, Identity <- Ids, NoIdentity <- Nobody,
    HomeOf <- AllHere, MaxTransfers <- 2, MaxAsks <- 3, Overlap <- FALSE, Fails <- TRUE,
    Leaves <- FALSE, Restarts <- FALSE

\* Two chains of four blocks, pages of two rows, windows of one block and the
\* one below; one thing out at a time.
H == INSTANCE History WITH
    net <- s1, tip <- s2, unlocked <- s3, history <- s4, refreshing <- s5, native <- s6,
    store <- s7, jobs <- s8, top <- s9, Chain <- {c1, c2}, FirstChain <- c1, None <- NoValue,
    Busy <- TwoHistories, Window <- BlockWindow, MaxHeight <- 4,
    Failures <- {"native", "some", "history"},
    Patient <- TRUE

\* Pages and refreshes out together, on one chain.
R == INSTANCE History WITH
    net <- s1, tip <- s2, unlocked <- s3, history <- s4, refreshing <- s5, native <- s6,
    store <- s7, jobs <- s8, top <- s9, Chain <- {FirstChain}, None <- NoValue,
    Busy <- OneHistory, Window <- BlockWindow, MaxHeight <- Growth,
    Failures <- {"some", "history"}, Patient <- FALSE

\* Baskets, with weights that do not fit a word and whose sum wraps around to one whole.
C == INSTANCE CurrencyDraft WITH
    draft <- s1, tip <- s2, checked <- s3, built <- s4, Kind <- {"basket"}, Currency <- Backing,
    Typed <- Weights, MaxAllocations <- 0

\* An identity that is locked, released, revoked and recovered.
L == INSTANCE IdentityLife WITH
    height <- s1, tip <- s2, draft <- s3, checks <- s4, problem <- s5, claim <- s6, mined <- s7,
    poll <- s8, ready <- s9, registering <- s10, view <- s11, id <- s12, reads <- s13,
    row <- s14, sheet <- s15, signed <- s16, Typed <- Silent, Claims <- FALSE, Hasty <- FALSE,
    Who <- Authorities, Delays <- LockDelays, MaxHeight <- LifeHeight, MaxChanges <- MaxRevisions

\* A name is claimed and registered, or not in time.
E == INSTANCE IdentityLife WITH
    height <- s1, tip <- s2, draft <- s3, checks <- s4, problem <- s5, claim <- s6, mined <- s7,
    poll <- s8, ready <- s9, registering <- s10, view <- s11, id <- s12, reads <- s13,
    row <- s14, sheet <- s15, signed <- s16, Typed <- Silent, Claims <- TRUE, Hasty <- FALSE,
    Who <- {"ours", "theirs"}, Delays <- {1}, Extra <- {0}, Life <- 1, MaxHeight <- 5,
    MaxChanges <- 0, MaxReviews <- 0

\* Names are typed faster than they are looked up.
G == INSTANCE IdentityLife WITH
    height <- s1, tip <- s2, draft <- s3, checks <- s4, problem <- s5, claim <- s6, mined <- s7,
    poll <- s8, ready <- s9, registering <- s10, view <- s11, id <- s12, reads <- s13,
    row <- s14, sheet <- s15, signed <- s16, Typed <- Names, Claims <- TRUE, Hasty <- FALSE,
    Who <- {"ours", "theirs"}, Delays <- {1}, Extra <- {0}, Life <- 1, MaxHeight <- 1,
    MaxChanges <- 0, MaxReviews <- 0

\* Three blocks in three half days, while nothing fails and no block arrives
\* during a reading.
O == INSTANCE Dashboard WITH
    tip <- s1, clock <- s2, job <- s3, older <- s4, shown <- s5, balance <- s6, history <- s7,
    rows <- s8, series <- s9, sheet <- s10, wanted <- s11, raws <- s12, cache <- s13,
    Key <- {k1, k2}, Order <- TwoAddresses, MaxTip <- 3, Effect <- Effects, Time <- Times,
    MaxClock <- 4, Day <- 2, Page <- 2, MaxPoints <- 3, Tenth <- 3, MaxHits <- 2, Still <- TRUE,
    Fails <- FALSE, Patient <- TRUE

\* Readings that fail.
X == INSTANCE Dashboard WITH
    tip <- s1, clock <- s2, job <- s3, older <- s4, shown <- s5, balance <- s6, history <- s7,
    rows <- s8, series <- s9, sheet <- s10, wanted <- s11, raws <- s12, cache <- s13,
    Key <- {k1, k2}, Order <- TwoAddresses, MaxTip <- 2,
    Effect <- [h \in 1 .. 2 |-> Effects[h]], Time <- [h \in 1 .. 2 |-> Times[h]], MaxClock <- 2,
    Day <- 2, Page <- 2, MaxPoints <- 3, Tenth <- 3, MaxHits <- 2, Still <- TRUE, Fails <- TRUE,
    Patient <- TRUE

\* Tokens with up to two allocations, amounts that overflow.
T == INSTANCE CurrencyDraft WITH
    draft <- s1, tip <- s2, checked <- s3, built <- s4, Kind <- {"token"}, Currency <- {x, y},
    Typed <- {0, 31, 40}, Bits <- 6, Narrow <- 10, One <- 4, MaxReserves <- 1,
    MaxAllocations <- 2, Delays <- {0, 1, 3}, MaxTip <- 4

\* The gate of every spend.
V == INSTANCE SpendGate WITH
    requested <- s1, nodes <- s2, active <- s3, allow <- s4, probes <- s5, word <- s6,
    said <- s7, permits <- s8, Chain <- Network, FirstChain <- FirstNetwork, Free <- Worthless,
    Position <- ShippedPlaces

-----------------------------------------------------------------------------
Init ==
    \/ part = "panels" /\ P!Init /\ Empty15
    \/ part = "patient" /\ Q!Init /\ Empty15
    \/ part = "phrase" /\ F!Init /\ Empty14
    \/ part = "slowly" /\ W!Init /\ Empty14
    \/ part = "door" /\ D!Init /\ Empty10
    \/ part = "names" /\ N!Init /\ Empty10
    \/ part = "gate" /\ V!Init /\ Empty8
    \/ part = "contacts" /\ A!Init /\ Empty13
    \/ part = "dies" /\ B!Init /\ Empty13
    \/ part = "markets" /\ K!Init /\ Empty15
    \/ part = "picker" /\ S!Init /\ Empty9
    \/ part = "watched" /\ I!Init /\ Empty13
    \/ part = "owned" /\ J!Init /\ Empty13
    \/ part = "pages" /\ H!Init /\ Empty9
    \/ part = "races" /\ R!Init /\ Empty9
    \/ part = "basket" /\ C!Init /\ Empty4
    \/ part = "life" /\ L!Init
    \/ part = "claim" /\ E!Init
    \/ part = "naming" /\ G!Init
    \/ part = "board" /\ O!Init /\ Empty13
    \/ part = "flaky" /\ X!Init /\ Empty13
    \/ part = "token" /\ T!Init /\ Empty4

Next ==
    /\ UNCHANGED part
    /\ \/ part = "panels" /\ P!Next /\ UNCHANGED Over15
       \/ part = "patient" /\ Q!Next /\ UNCHANGED Over15
       \/ part = "phrase" /\ F!Next /\ UNCHANGED Over14
       \/ part = "slowly" /\ W!Next /\ UNCHANGED Over14
       \/ part = "door" /\ D!Next /\ UNCHANGED Over10
       \/ part = "names" /\ N!Next /\ UNCHANGED Over10
       \/ part = "gate" /\ V!Next /\ UNCHANGED Over8
       \/ part = "contacts" /\ A!Next /\ UNCHANGED Over13
       \/ part = "dies" /\ B!Next /\ UNCHANGED Over13
       \/ part = "markets" /\ K!Next /\ UNCHANGED Over15
       \/ part = "picker" /\ S!Next /\ UNCHANGED Over9
       \/ part = "watched" /\ I!Next /\ UNCHANGED Over13
       \/ part = "owned" /\ J!Next /\ UNCHANGED Over13
       \/ part = "pages" /\ H!Next /\ UNCHANGED Over9
       \/ part = "races" /\ R!Next /\ UNCHANGED Over9
       \/ part = "basket" /\ C!Next /\ UNCHANGED Over4
       \/ part = "life" /\ L!Next
       \/ part = "claim" /\ E!Next
       \/ part = "naming" /\ G!Next
       \/ part = "board" /\ O!Next /\ UNCHANGED Over13
       \/ part = "flaky" /\ X!Next /\ UNCHANGED Over13
       \/ part = "token" /\ T!Next /\ UNCHANGED Over4

Spec == Init /\ [][Next]_vars
-----------------------------------------------------------------------------
ASSUME ScreensAssumption ==
    /\ P!PanelsAssumption /\ Q!PanelsAssumption /\ F!PhraseScreenAssumption
    /\ W!PhraseScreenAssumption /\ D!FrontDoorAssumption
    /\ N!NamesAssumption /\ V!ChainsAssumption
    /\ A!AddressBookAssumption /\ B!AddressBookAssumption /\ K!MarketsAssumption
    /\ S!PickerAssumption /\ I!IdentitiesAssumption /\ J!IdentitiesAssumption
    /\ H!HistoryAssumption /\ R!HistoryAssumption /\ L!IdentityLifeAssumption /\ E!IdentityLifeAssumption /\ G!IdentityLifeAssumption
    /\ C!DraftAssumption /\ T!DraftAssumption /\ O!DashboardAssumption /\ X!DashboardAssumption

\* Thinning a series of up to five points to three or four.
ASSUME ThinningAssumption == \A size \in 2 .. 5 : O!ThinningKeeps(size, 3) /\ O!ThinningKeeps(size, 4)

\* Transfers that cost one, payments and receipts of up to four.
ASSUME DirectionAssumption == O!DirectionKeeps(1, 4)

\* Each part keeps to its types.
TypeOK ==
    /\ part = "panels" => P!TypeOK
    /\ part = "phrase" => F!TypeOK
    /\ part = "door" => D!TypeOK
    /\ part = "names" => N!TypeOK
    /\ part = "contacts" => A!TypeOK
    /\ part = "markets" => K!TypeOK
    /\ part = "picker" => S!TypeOK
    /\ part = "watched" => I!TypeOK
    /\ part = "board" => O!TypeOK
    /\ part = "pages" => H!TypeOK
    /\ part = "basket" => C!TypeOK
    /\ part = "life" => L!TypeOK
    /\ part = "claim" => E!TypeOK
    /\ part = "gate" => V!TypeOK

\* What leaves the wallet was on the screen when the user said yes, once: no press
\* made for one review sends another (apply_review, confirm_send); what is paid
\* for a name is an address it had (finish_identity); and a conversion is signed
\* with the floor of the quote of this very draft (prepare_conversion).
SentWasShown ==
    /\ part = "panels" => P!SentWasShown /\ P!SentOnce
    /\ part = "names" => N!PaysWhatItMeant
    /\ part = "markets" => K!FloorWasShown /\ K!QuoteIsOfDraft

\* Spending is on only for the chain whose own name was typed, also after a change
\* of chain (set_allow_spending, switch_network).
ArmNamesChain == part = "gate" => V!ArmNamesChain

\* No permit for a chain that may be real money without that chain's own name
\* (evaluate).
PermitsArmed == part = "gate" => V!PermitsArmed

\* No permit through an endpoint that has not itself named the chain, however
\* late the answers of other endpoints are (record_success).
PermitsBorneOut == part = "gate" => V!PermitsBorneOut

\* The window and the core agree when all has arrived: what is signed is on a
\* screen and what is on its way is said (bridge.rs); words can be read only while
\* the button is held, are the named key's, and are dropped when the screen is
\* left (seed.rs, Wallet::backup); the forms are shown for the wallet there is;
\* what is watched is what a restart will watch, and what is offered is the
\* wallet's own; the table and the values are of one book, and what is said to be
\* fetched is under way; a search's answer is to the last search, in full; an
\* identity called Active can spend (identity.rs), a claim that is offered can be
\* finished, and what is said of a name is about the name that is typed; the balance
\* and the points of the chart were held, and what is kept is one whole reading.
ShownIsHeld ==
    /\ part = "patient" => Q!HeldIsShown /\ Q!OnItsWayIsSaid
    /\ part = "phrase" => F!LeftIsDropped
    /\ part = "slowly" => W!ReadableWhileHeld /\ W!OpenHasPhrase /\ W!WordsAreOfLabel
    /\ part = "door" => D!WindowIsOfWallet
    /\ part = "watched" => I!WatchedIsStored
    /\ part = "owned" => J!ShownIsControlled
    /\ part = "markets" => K!OneBook /\ K!FetchingIsUnderWay
    /\ part = "life" => L!LockIsSaid /\ L!EligibleCanSpend
    /\ part = "claim" => E!OfferedCanBeFinished /\ E!DoneIsTrue
    /\ part = "naming" => G!ProblemIsOfName
    /\ part = "board" => O!FiguresWereHeld /\ O!ChartWasHeld /\ O!HoverIsBehind /\ O!SheetIsOfOpened
    /\ part = "flaky" => X!FiguresWereHeld /\ X!HeadingsAreRight
    /\ part = "picker" => S!AnswerIsToLast /\ S!NothingLeftOut /\ S!FetchingIsUnderWay

\* The history has every transaction from the lowest block that was looked at up,
\* each once; it is said to be empty only for a chain without any; and nothing of
\* one chain is kept as the other's (load_more_history, finish_refresh).
NothingSkipped ==
    /\ part = "pages" => H!NothingSkipped /\ H!KeptAtHome
    /\ part = "races" => R!EmptyIsOfChain
    /\ part = "board" => O!ReadIsNotAbsent /\ O!HeadingsAreRight /\ O!PaletteIsTrue({0, 2})

\* Each payment is counted once in the address book, and whoever was paid is known
\* over restarts and deaths of the process (note_payment, remember_recipient); and a
\* name is asked about once at a time (maybe_resolve_identity).
CountedOnce ==
    /\ part = "contacts" => A!CountedOnce /\ A!PaidIsKnown
    /\ part = "dies" => B!PaidIsKnown
    /\ part = "names" => N!AskedOnce

\* The weights of a basket that is built are parts of one whole, whatever was typed
\* and however the sum overflows, and a token that is built can hold something
\* (currency.rs).
WeightsAddUp ==
    /\ part = "basket" => C!WeightsAreOneWhole
    /\ part = "token" => T!TokenHoldsSomething

\* What an answer that comes late may not do: put back an identity that is no
\* longer watched, open a sheet nobody asked for, show an older history, take away
\* a warning or a meaning nobody saw, a label of the owner's; nor may a launch
\* start at or before the tip it is built at, a change of an identity do what its
\* review did not say, or a lock that is released end early.
ShownStays ==
    [][/\ part = "watched" => I!UnwatchedStays /\ I!OpensWhatWasAsked
       /\ part = "races" => R!NeverOlder
       /\ part = "names" => N!WarningStands /\ N!ForgottenOnceShown
       /\ part = "contacts" => A!LabelIsOwners
       /\ part = "dies" => B!LabelIsOwners
       /\ part = "basket" => C!StartsInTheFuture
       /\ part = "life" => L!DidWhatItSaid /\ L!ReleaseWaits]_vars
=============================================================================
