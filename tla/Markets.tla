------------------------------- MODULE Markets -------------------------------
(* Prices and the composing of a conversion, crates/pecu-core/src/lib.rs:     *)
(* refresh_markets, finish_markets, forget_prices, set_convert_draft,         *)
(* swap_convert_legs, finish_convert_estimate, prepare_conversion,            *)
(* finish_convert_prepare and finish_refresh, with convert.rs check and       *)
(* prepare. Three readings (the book, an estimate, the balances) come back    *)
(* in any order while the form is edited.                                     *)
(*                                                                            *)
(* A book is known by the chain it is of and by its notarization (a number    *)
(* that the chain counts up); what a pair trades through, and what the node   *)
(* estimates for it, are functions of the notarization. The way on from the   *)
(* review is module Reviews.                                                  *)
EXTENDS Naturals, FiniteSets

CONSTANTS
    Chain,
    Currency, Nowhere,   \* the currencies a form can name, and none picked
    Pool, NoPool,
    RouteAt,             \* the pool a pair trades through, by notarization
    OutAt,               \* what one coin brings, in hundreds, by notarization
    MaxAt,               \* bound: notarizations
    MaxPay,              \* bound: coins typed, and held
    MaxEdits,            \* bound: tickets
    Fails,               \* may a reading fail?
    Leaves               \* may the chain be changed?

MarketsAssumption ==
    /\ Nowhere \notin Currency /\ NoPool \notin Pool
    /\ {MaxAt, MaxPay, MaxEdits} \subseteq Nat /\ {Fails, Leaves} \subseteq BOOLEAN
    /\ RouteAt \in [0..MaxAt -> Pool \cup {NoPool}] /\ OutAt \in [0..MaxAt -> Nat]

VARIABLES
    chain, at,   \* the requested chain, and the notarization it stands at
    halted,      \* does the oracle say conversions are halted?
    book,        \* Core::market
    markets,     \* Core::markets: "unasked", "fetching" or "asked"
    table,       \* the book the markets table shows
    column,      \* the book the balances on the dashboard are valued with
    holdings,    \* Core::holdings
    draft,       \* Core::convert
    ticket,      \* Core::convert_ticket
    ready,       \* Core::convert_ready
    floor,       \* Core::convert_floor, with the draft it was estimated for
    quote,       \* the quote on the screen
    prepared,    \* Core::conversions
    flight       \* readings under way

vars == <<chain, at, halted, book, markets, table, column, holdings, draft, ticket,
          ready, floor, quote, prepared, flight>>

NoBook == [of |-> "none", at |-> 0]
Book == {NoBook} \cup [of : Chain, at : 0..MaxAt]
Draft == [from : Currency \cup {Nowhere}, to : Currency \cup {Nowhere}, pay : 0..MaxPay]
Unpicked == [from |-> Nowhere, to |-> Nowhere, pay |-> 0]
NotReady == [draft |-> Unpicked, pool |-> NoPool]
NoFloor == [ticket |-> 0, draft |-> Unpicked, least |-> 0]

\* convert.rs floor: three percent less than the estimate.
FloorOf(estimate) == (estimate * 970) \div 1000
Estimated(d, i) == 100 * OutAt[i] * d.pay

Route(b) == IF b = NoBook THEN NoPool ELSE RouteAt[b.at]

\* convert.rs check
Refused(d, b, held) ==
    \/ Nowhere \in {d.from, d.to} \/ d.from = d.to
    \/ Route(b) = NoPool
    \/ d.pay = 0 \/ d.pay > held[d.from]

\* ConvertQuote: a priced one, or a refusal; the ticket it answers.
Priced(t, d) == [priced |-> TRUE, ticket |-> t, draft |-> d]
Refusal(t, d) == [priced |-> FALSE, ticket |-> t, draft |-> d]
-----------------------------------------------------------------------------
Init ==
    /\ chain \in Chain /\ at = 0 /\ halted = FALSE
    /\ book = NoBook /\ markets = "unasked" /\ table = NoBook /\ column = NoBook
    /\ holdings = [c \in Currency |-> 0]
    /\ draft = Unpicked /\ ticket = 0 /\ ready = NotReady /\ floor = NoFloor
    /\ quote = Refusal(0, Unpicked) /\ prepared = {} /\ flight = {}

UnchangedForm == UNCHANGED <<draft, ticket, ready, quote>>
UnchangedPrices == UNCHANGED <<book, markets, table, column>>

\* The chain notarizes anew.
Notarize ==
    /\ at < MaxAt /\ at' = at + 1
    /\ UNCHANGED <<chain, halted, holdings, floor, prepared, flight>>
    /\ UnchangedForm /\ UnchangedPrices

\* finish_chain_halt, for conversions (module Halt has the rest).
FinishHalt ==
    /\ halted' = ~halted
    /\ UNCHANGED <<chain, at, holdings, floor, prepared, flight>>
    /\ UnchangedForm /\ UnchangedPrices

Reading(kind, t, d) == [kind |-> kind, chain |-> chain, ticket |-> t, draft |-> d]

\* refresh_markets: one reading at a time.
RefreshMarkets ==
    /\ markets # "fetching" /\ markets' = "fetching"
    /\ flight' = flight \cup {Reading("markets", 0, Unpicked)}
    /\ UNCHANGED <<chain, at, halted, book, table, column, holdings, floor, prepared>>
    /\ UnchangedForm

\* finish_markets: the book is replaced here and nowhere else, and both screens
\* are told at once. A reading that failed leaves the last book.
FinishMarkets(r) ==
    /\ r \in flight /\ r.kind = "markets" /\ flight' = flight \ {r}
    /\ markets' = "asked"
    /\ \/ book' = [of |-> r.chain, at |-> at] /\ table' = book' /\ column' = book'
       \/ Fails /\ UNCHANGED <<book, table, column>>
    /\ UNCHANGED <<chain, at, halted, holdings, floor, prepared>> /\ UnchangedForm

\* set_convert_draft, on what is held: any edit is a new ticket. What can be
\* refused here is, and the rest is asked of the node.
Drafted(d, held) ==
    /\ ticket < MaxEdits /\ ticket' = ticket + 1 /\ draft' = d
    /\ IF Refused(d, book, held)
       THEN quote' = Refusal(ticket', d) /\ UNCHANGED <<ready, flight>>
       ELSE /\ ready' = [draft |-> d, pool |-> Route(book)] /\ UNCHANGED quote
            /\ flight' = flight \cup {Reading("estimate", ticket', d)}

SetConvertDraft(d) ==
    /\ Drafted(d, holdings)
    /\ UNCHANGED <<chain, at, halted, book, markets, table, column, holdings, floor, prepared>>

\* swap_convert_legs: the amount is cleared.
SwapConvertLegs == SetConvertDraft([from |-> draft.to, to |-> draft.from, pay |-> 0])

\* finish_refresh: the balances, and the draft once more against them; the
\* dashboard is valued with the book of this moment.
FinishRefresh(held) ==
    /\ holdings' = held /\ column' = book
    /\ IF draft.from = Nowhere
       THEN UNCHANGED <<draft, ticket, ready, quote, flight>>
       ELSE Drafted(draft, held)
    /\ UNCHANGED <<chain, at, halted, book, markets, table, floor, prepared>>

\* finish_convert_estimate: of the last edit, or of none. What is shown is the
\* draft that was ready, what is kept is the floor.
FinishConvertEstimate(r) ==
    /\ r \in flight /\ r.kind = "estimate" /\ flight' = flight \ {r}
    /\ \/ r.ticket # ticket /\ UNCHANGED <<floor, quote>>
       \/ /\ r.ticket = ticket
          /\ floor' = [ticket |-> ticket, draft |-> r.draft,
                       least |-> FloorOf(Estimated(r.draft, at))]
          /\ quote' = Priced(ticket, ready.draft)
       \/ /\ Fails /\ r.ticket = ticket
          /\ quote' = Refusal(ticket, draft) /\ UNCHANGED floor
    /\ UNCHANGED <<chain, at, halted, holdings, draft, ticket, ready, prepared>> /\ UnchangedPrices

\* prepare_conversion: the button is there while the quote on the screen is a
\* priced one. The draft is checked anew; the floor must be of this ticket; the
\* node must still expect the floor when the transaction is built.
PrepareConversion ==
    /\ quote.priced
    /\ IF halted \/ Refused(draft, book, holdings) \/ floor.ticket # ticket
       THEN quote' = Refusal(ticket, draft) /\ UNCHANGED prepared
       ELSE /\ UNCHANGED quote
            /\ prepared' = IF Estimated(draft, at) < floor.least THEN prepared
                           ELSE prepared \cup {[of |-> book.of, chain |-> chain, draft |-> draft,
                                                shown |-> quote, floor |-> floor]}
    /\ UNCHANGED <<chain, at, halted, holdings, draft, ticket, ready, floor, flight>>
    /\ UnchangedPrices

\* switch_network with forget_prices: neither the form nor the balances go, and
\* the readings under way are not told. What is being reviewed is left to
\* module Reviews.
SwitchNetwork(c) ==
    /\ Leaves /\ c # chain /\ chain' = c /\ halted' = FALSE
    /\ book' = NoBook /\ markets' = "unasked" /\ column' = NoBook /\ prepared' = {}
    /\ UNCHANGED <<at, table, holdings, draft, ticket, ready, floor, quote, flight>>

Next ==
    \/ Notarize \/ FinishHalt \/ RefreshMarkets \/ SwapConvertLegs \/ PrepareConversion
    \/ \E r \in flight : FinishMarkets(r) \/ FinishConvertEstimate(r)
    \/ \E d \in Draft : SetConvertDraft(d)
    \/ \E held \in [Currency -> {0, MaxPay}] : FinishRefresh(held)
    \/ \E c \in Chain : SwitchNetwork(c)

\* An estimate that comes back is handled.
Estimating == \E r \in flight : FinishConvertEstimate(r)

Spec == Init /\ [][Next]_vars
-----------------------------------------------------------------------------
TypeOK ==
    /\ chain \in Chain /\ at \in 0..MaxAt /\ halted \in BOOLEAN
    /\ {book, table, column} \subseteq Book /\ markets \in {"unasked", "fetching", "asked"}
    /\ holdings \in [Currency -> 0..MaxPay]
    /\ draft \in Draft /\ ticket \in 0..MaxEdits
    /\ ready \in [draft : Draft, pool : Pool \cup {NoPool}]
    /\ floor.ticket \in 0..MaxEdits /\ floor.draft \in Draft
    /\ \E i \in 0..MaxAt : floor.least \in 0..Estimated(floor.draft, i)
    /\ quote \in [priced : BOOLEAN, ticket : 0..MaxEdits, draft : Draft]
    /\ \A r \in flight : /\ r.kind \in {"markets", "estimate"} /\ r.chain \in Chain
                         /\ r.ticket \in 0..MaxEdits /\ r.draft \in Draft

\* A conversion is signed with the floor of the quote that was on the screen when
\* it was asked for, and that quote was of this very draft ("carrying it without
\* its ticket would let a floor calculated for one pair of currencies be checked
\* against another").
FloorWasShown ==
    \A p \in prepared :
        p.floor.draft = p.draft /\ p.shown = Priced(p.floor.ticket, p.draft)

\* With no estimate under way the screen is about the form as it stands.
QuoteIsOfDraft ==
    (\A r \in flight : r.kind = "estimate" => r.ticket # ticket) => quote.draft = draft

\* The markets table and the values beside the balances never come from two
\* different notarizations.
OneBook == table # NoBook /\ column # NoBook => table = column

\* The book is thought to be on its way exactly while it is: no failure leaves
\* the table waiting for ever, and no second reading is sent after the first.
FetchingIsUnderWay == (markets = "fetching") <=> \E r \in flight : r.kind = "markets"

\* Nothing on this chain is priced with another chain's pools.
\* Does not hold if Leaves: a reading carries no chain.
BookIsOfChain == book = NoBook \/ book.of = chain
\* Nor does the markets table show another chain's.
\* Does not hold if Leaves: forget_prices empties the book and says nothing to
\* the screen.
TableIsOfChain == table = NoBook \/ table.of = chain

\* Every edit is answered on the screen, by a quote or a refusal, unless another
\* edit takes its place; until then it waits.
Waiting(t) == ticket = t /\ quote.ticket # t
=============================================================================
