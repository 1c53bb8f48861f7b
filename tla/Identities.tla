----------------------------- MODULE Identities -----------------------------
(* The lists of VerusIDs and of the currencies on them,                       *)
(* crates/pecu-core/src/lib.rs: refresh_identities, finish_identities,        *)
(* read_identity, finish_detail, clear_lookups, unwatch_identity,             *)
(* refresh_currencies, finish_currencies, enter_screen; with the watch list   *)
(* of the store. What a key controls changes on the chain, and every answer   *)
(* comes back when it comes back: it says what was so when it was asked for,  *)
(* and carries no chain.                                                      *)
EXTENDS Naturals, FiniteSets

CONSTANTS
    Chain,
    Identity, NoIdentity,
    HomeOf,       \* the chain an identity is on
    MaxTransfers, \* bound: changes of control
    MaxAsks,      \* bound: walks through the currencies
    Overlap,      \* may a reading be asked for while another is under way?
    Fails,        \* may a reading fail?
    Leaves,       \* may the chain be changed?
    Restarts      \* may the program be started anew?

IdentitiesAssumption ==
    /\ NoIdentity \notin Identity /\ HomeOf \in [Identity -> Chain]
    /\ {MaxTransfers, MaxAsks} \subseteq Nat
    /\ {Overlap, Fails, Leaves, Restarts} \subseteq BOOLEAN

VARIABLES
    chain,       \* the requested chain
    owned,       \* identities this wallet's keys sign for, on any chain
    transfers,   \* how often that changed
    identities,  \* Core::identities, the wallet's own
    lookedUp,    \* Core::looked_up, the watched ones
    stored,      \* watched_identity in each chain's store
    open,        \* the identity whose sheet was opened last, with its open_content_keys
    eligible,    \* Core::eligible, the identities the currency form offers
    screen,      \* is the Currencies screen open?
    asks,        \* walks through the currencies so far
    flight,      \* readings under way
    told,        \* what the last answer about each identity said
    fresh        \* was all that is shown asked for after the last change of control?

vars == <<chain, owned, transfers, identities, lookedUp, stored, open, eligible,
          screen, asks, flight, told, fresh>>

Here(c) == {i \in Identity : HomeOf[i] = c}
Mine == owned \cap Here(chain)
None == {}

List == [kind |-> "list", chain |-> chain, found |-> Mine]
Detail(i, sheet) ==
    [kind |-> "detail", of |-> i, mine |-> i \in owned, open |-> sheet]
Walk(n, ids) == [kind |-> "currencies", n |-> n, of |-> ids]

Quiet == flight = {}
MayAsk == Overlap \/ Quiet
-----------------------------------------------------------------------------
Init ==
    /\ chain \in Chain /\ owned \in SUBSET Identity /\ transfers = 0
    /\ identities = None /\ lookedUp = None /\ stored = [c \in Chain |-> None]
    /\ open = NoIdentity /\ eligible = None /\ screen = FALSE /\ asks = 0
    /\ flight = {} /\ told = [i \in Identity |-> "nothing"] /\ fresh = FALSE

\* On the chain, an identity gets or loses this wallet's key.
Transfer(i) ==
    /\ transfers < MaxTransfers /\ transfers' = transfers + 1
    /\ owned' = IF i \in owned THEN owned \ {i} ELSE owned \cup {i}
    /\ fresh' = FALSE
    /\ UNCHANGED <<chain, identities, lookedUp, stored, open, eligible, screen, asks, flight, told>>

\* refresh_identities
RefreshIdentities ==
    /\ MayAsk /\ flight' = flight \cup {List} /\ fresh' = TRUE
    /\ UNCHANGED <<chain, owned, transfers, identities, lookedUp, stored, open,
                   eligible, screen, asks, told>>

\* refresh_currencies, of these identities: nothing to ask about is an answer.
RefreshCurrencies(ids, more) ==
    IF ids = None
    THEN eligible' = None /\ flight' = more /\ UNCHANGED asks
    ELSE /\ asks < MaxAsks /\ asks' = asks + 1
         /\ flight' = more \cup {Walk(asks', ids)} /\ UNCHANGED eligible

\* finish_identities: the list is rebuilt, the watched ones are read again, and
\* the currencies are walked if that screen is open.
FinishIdentities(r) ==
    /\ r \in flight /\ r.kind = "list"
    /\ LET rereads == {Detail(i, FALSE) : i \in lookedUp} rest == flight \ {r} IN
       \/ /\ identities' = r.found
          /\ told' = [i \in Identity |-> IF i \in r.found THEN "mine" ELSE told[i]]
          /\ IF screen THEN RefreshCurrencies(r.found, rest \cup rereads)
             ELSE flight' = rest \cup rereads /\ UNCHANGED <<eligible, asks>>
          /\ UNCHANGED fresh
       \/ /\ Fails /\ flight' = rest /\ fresh' = FALSE
          /\ UNCHANGED <<identities, told, eligible, asks>>
    /\ UNCHANGED <<chain, owned, transfers, lookedUp, stored, open, screen>>

\* look_up_identity, and the Command that opens one from the list; an identity of
\* another chain is not found here.
LookUp(i) ==
    /\ MayAsk /\ i \in Here(chain) /\ flight' = flight \cup {Detail(i, TRUE)}
    /\ UNCHANGED <<chain, owned, transfers, identities, lookedUp, stored, open,
                   eligible, screen, asks, told, fresh>>

\* Mutant: a row that is read again is put where it belongs, watched or not.
FinishDetailInserting(r) ==
    /\ r \in flight /\ r.kind = "detail" /\ flight' = flight \ {r}
    /\ \/ /\ told' = [told EXCEPT ![r.of] = IF r.mine THEN "mine" ELSE "another's"]
          /\ IF r.mine
             THEN identities' = identities \cup {r.of} /\ UNCHANGED <<lookedUp, stored>>
             ELSE /\ stored' = [stored EXCEPT ![chain] = @ \cup {r.of}]
                  /\ lookedUp' = lookedUp \cup {r.of} /\ UNCHANGED identities
          /\ open' = IF r.open THEN r.of ELSE open
       \/ Fails /\ UNCHANGED <<told, identities, lookedUp, stored, open>>
    /\ UNCHANGED <<chain, owned, transfers, eligible, screen, asks, fresh>>

\* finish_detail: whose it is says which list it is put in; only one that was
\* looked up is watched, and only that opens.
FinishDetail(r) ==
    /\ r \in flight /\ r.kind = "detail" /\ flight' = flight \ {r}
    /\ \/ /\ told' = [told EXCEPT ![r.of] = IF r.mine THEN "mine" ELSE "another's"]
          /\ IF r.mine
             THEN identities' = identities \cup {r.of} /\ UNCHANGED <<lookedUp, stored>>
             ELSE /\ IF r.open
                     THEN /\ stored' = [stored EXCEPT ![chain] = @ \cup {r.of}]
                          /\ lookedUp' = lookedUp \cup {r.of}
                     ELSE UNCHANGED <<lookedUp, stored>>
                  /\ UNCHANGED identities
          /\ open' = IF r.open THEN r.of ELSE open
       \/ Fails /\ UNCHANGED <<told, identities, lookedUp, stored, open>>
    /\ UNCHANGED <<chain, owned, transfers, eligible, screen, asks, fresh>>

\* finish_currencies: rebuilt, from whichever walk this is.
FinishCurrencies(r) ==
    /\ r \in flight /\ r.kind = "currencies" /\ flight' = flight \ {r}
    /\ eligible' = r.of
    /\ UNCHANGED <<chain, owned, transfers, identities, lookedUp, stored, open,
                   screen, asks, told, fresh>>

\* unwatch_identity; clear_lookups is the same for all of them.
UnwatchIdentity(i) ==
    /\ i \in lookedUp /\ lookedUp' = lookedUp \ {i}
    /\ stored' = [stored EXCEPT ![chain] = @ \ {i}]
    /\ UNCHANGED <<chain, owned, transfers, identities, open, eligible,
                   screen, asks, flight, told, fresh>>

ClearLookups ==
    /\ lookedUp # None /\ lookedUp' = None /\ stored' = [stored EXCEPT ![chain] = None]
    /\ UNCHANGED <<chain, owned, transfers, identities, open, eligible,
                   screen, asks, flight, told, fresh>>

\* enter_screen, for the currencies: it asks for the identities, whatever is there.
EnterScreen ==
    /\ MayAsk /\ ~screen /\ screen' = TRUE
    /\ flight' = flight \cup {List} /\ fresh' = TRUE
    /\ UNCHANGED <<chain, owned, transfers, identities, lookedUp, stored, open,
                   eligible, asks, told>>
LeaveScreen ==
    /\ screen /\ screen' = FALSE
    /\ UNCHANGED <<chain, owned, transfers, identities, lookedUp, stored, open,
                   eligible, asks, flight, told, fresh>>

\* What switch_network, and a start, leave of all this: the store's watch list.
Emptied ==
    /\ identities' = None /\ open' = NoIdentity /\ eligible' = None
    /\ screen' = FALSE /\ lookedUp' = stored[chain'] /\ fresh' = FALSE
    /\ told' = [i \in Identity |-> "nothing"]
    /\ UNCHANGED <<owned, transfers, stored, asks>>

SwitchNetwork(c) == Leaves /\ c # chain /\ chain' = c /\ Emptied /\ UNCHANGED flight
Restart == Restarts /\ UNCHANGED chain /\ flight' = {} /\ Emptied

Next ==
    \/ RefreshIdentities \/ ClearLookups \/ EnterScreen \/ LeaveScreen \/ Restart
    \/ \E i \in Identity : Transfer(i) \/ LookUp(i) \/ UnwatchIdentity(i)
    \/ \E r \in flight : FinishIdentities(r) \/ FinishDetail(r) \/ FinishCurrencies(r)
    \/ \E c \in Chain : SwitchNetwork(c)

Spec == Init /\ [][Next]_vars
-----------------------------------------------------------------------------
TypeOK ==
    /\ chain \in Chain /\ {owned, identities, lookedUp, eligible} \subseteq SUBSET Identity
    /\ transfers \in 0..MaxTransfers /\ asks \in 0..MaxAsks
    /\ stored \in [Chain -> SUBSET Identity] /\ open \in Identity \cup {NoIdentity}
    /\ {screen, fresh} \subseteq BOOLEAN
    /\ told \in [Identity -> {"nothing", "mine", "another's"}]
    /\ \A r \in flight : r.kind \in {"list", "detail", "currencies"}
                         /\ (r.kind = "currencies" => r.of # None)

\* What is watched on the screen is what will be watched after a restart.
WatchedIsStored == lookedUp = stored[chain]

\* One that is no longer watched comes back only when it is looked up: an answer
\* to a reading of the old list, still under way, does not put it back.
UnwatchedStays ==
    \A i \in lookedUp' \ lookedUp :
       \/ \E r \in flight : r.kind = "detail" /\ r.of = i /\ r.open
       \/ i \in stored[chain]

\* The sheet opens for what somebody looked up ("re-reading the watch list through
\* this same path is what once flung it open by itself on whichever row answered
\* first").
OpensWhatWasAsked ==
    open' # open /\ open' # NoIdentity =>
       \E r \in flight : r.kind = "detail" /\ r.of = open' /\ r.open

\* With one reading at a time, what is shown when all have come back, asked for
\* since control last changed, is what the keys control; and the currency form
\* offers just that. An identity that was given away leaves both.
ShownIsControlled ==
    Quiet /\ fresh => identities = Mine /\ (screen => eligible = Mine)

\* One the chain says is another's is not counted among the wallet's own.
\* Does not hold: finish_detail leaves it among the wallet's own until the list
\* is read.
AnothersIsNotMine == \A i \in Identity : told[i] = "another's" => i \notin identities

\* What comes into the form's list is the wallet's own at that moment: a walk that
\* began before an identity left the wallet does not bring it back.
\* Does not hold if walks overlap: the one that answers last is taken.
GoneStaysGone == \A i \in eligible' \ eligible : i \in identities

\* No chain's store watches an identity of another chain.
\* Does not hold if Leaves: a look-up is written into the store that is open
\* when it answers.
WatchedAtHome == \A c \in Chain : stored[c] \subseteq Here(c)
=============================================================================
