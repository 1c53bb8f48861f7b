--------------------------------- MODULE Book ---------------------------------
(* What things are worth, derived from what the baskets publish:              *)
(* crates/pecu-core/src/market.rs Pool and Book. A basket publishes what it   *)
(* holds of each reserve; two reserves of one basket price against each other *)
(* by division, and anything else is priced through the chain's own currency. *)
(*                                                                            *)
(* Every basket here has the same weights and one unit of supply when it has  *)
(* any, so the price of a unit in a reserve is what is held of the reserve,   *)
(* and the depth of a reserve is in proportion to that. A price is a pair,    *)
(* numerator over denominator; what may be missing is a set of at most one.   *)
EXTENDS Integers, Sequences, SequencesExt, FiniteSetsExt, Functions

CONSTANTS
    Pool,          \* the baskets, numbered in the order of their names
    Reserves,      \* the reserves that each names in its definition
    Quote, Native, \* the currency prices are in, and the chain's own
    Largest,       \* the largest i64
    Coin,          \* satoshis per coin
    Held,          \* what a basket may hold of a reserve
    Terms,         \* whether it has started, was refunded, and its supply
    Window,        \* how far back the change looks
    MaxTime

BookAssumption ==
    /\ Pool \subseteq Nat /\ Held \subseteq Nat /\ Terms \subseteq BOOLEAN \X BOOLEAN \X {0, 1}
    /\ Quote # Native /\ {Quote, Native} \cap Pool = {}
    /\ {Coin, Largest, Window, MaxTime} \subseteq Nat /\ Coin > 0 /\ Coin % 2 = 0

VARIABLES
    book,   \* Book.pools: the baskets that publish a state
    now     \* the time

vars == <<book, now>>

Listed == DOMAIN book
Currency == Pool \cup UNION {Reserves[p] : p \in Pool}
Before(a, b) == a[1] * b[2] < b[1] * a[2]
Times(a, b) == <<a[1] * b[1], a[2] * b[2]>>
OrNone(depth) == IF depth = {} THEN <<0, 1>> ELSE CHOOSE d \in depth : TRUE
-----------------------------------------------------------------------------
Trades(p, t) == t = p \/ t \in Reserves[p]
IsVenue(p) == book[p].started /\ ~book[p].refunded /\ book[p].supply > 0
Holds(p, t) == IF t = p THEN book[p].supply > 0 ELSE t \in Reserves[p] /\ book[p].held[t] > 0

\* Pool::price and Pool::price_at: one division, over what was published.
Ratio(prices, p, t, q) ==
    IF q \notin DOMAIN prices \/ prices[q] = 0 THEN {}
    ELSE IF t = p THEN {<<prices[q], 1>>}
    ELSE IF t \notin DOMAIN prices \/ prices[t] = 0 THEN {}
    ELSE {<<prices[q], prices[t]>>}
Price(p, t, q) == Ratio(book[p].held, p, t, q)

\* Pool::depth: of its own currency, the room on the other side, converted.
DepthOfReserve(p, t) ==
    IF t \notin Reserves[p] \/ book[p].held[t] = 0 THEN {} ELSE {<<book[p].held[t], 1>>}
Depth(p, t, q) ==
    IF t # p THEN DepthOfReserve(p, t)
    ELSE {<<room[1] * price[2], room[2] * price[1]>> :
             room \in DepthOfReserve(p, q), price \in Price(p, p, q)}
Room(p, t, q) == OrNone(Depth(p, t, q))

\* Book::pools_for: deepest first, then by name.
Deeper(t, a, b) ==
    \/ Before(Room(b, t, Quote), Room(a, t, Quote))
    \/ ~Before(Room(a, t, Quote), Room(b, t, Quote)) /\ a < b
PoolsFor(t) ==
    SetToSortSeq({p \in Listed : IsVenue(p) /\ Holds(p, t)}, LAMBDA a, b : Deeper(t, a, b))

\* The first of a sequence with a property; the deepest of a set, the last one
\* listed when two are.
FirstOf(s, Has(_)) ==
    LET found == SelectSeq(s, Has) IN IF found = <<>> THEN {} ELSE {Head(found)}
Deepest(S, t, q) ==
    {p \in S : \A other \in S \ {p} :
        \/ Before(Room(other, t, q), Room(p, t, q))
        \/ ~Before(Room(p, t, q), Room(other, t, q)) /\ other < p}

\* Book::reference
Reference ==
    Deepest({p \in Listed : book[p].started /\ Price(p, Native, Quote) # {}}, Native, Quote)

\* Book::quote_for: directly, else one hop through the chain's own currency.
Direct(t) == FirstOf(PoolsFor(t), LAMBDA p : Trades(p, Quote))
Through(t) ==
    UNION {{<<p, r>> : p \in FirstOf(PoolsFor(t), LAMBDA x : Trades(x, Native) /\ x # r)} :
              r \in Reference}
DirectQuote(t) == UNION {{[price |-> x, via |-> <<p>>] : x \in Price(p, t, Quote)} : p \in Direct(t)}
HopQuote(t) ==
    UNION {{[price |-> Times(x, y), via |-> h] :
               x \in Price(h[1], t, Native), y \in Price(h[2], Native, Quote)} : h \in Through(t)}
QuoteFor(t) ==
    IF t = Quote
    THEN {[price |-> <<1, 1>>, via |-> SubSeq(PoolsFor(t), 1, Min({1, Len(PoolsFor(t))}))]}
    ELSE IF DirectQuote(t) # {} THEN DirectQuote(t) ELSE HopQuote(t)

Convertible == {t \in Currency : PoolsFor(t) # <<>>}

\* Book::route: the pool a conversion goes through.
Route(from, to) ==
    Deepest({p \in Listed : book[p].started /\ Trades(p, from) /\ Trades(p, to)}, from, to)
-----------------------------------------------------------------------------
\* sats_of: rounded to the nearest, none when it does not fit.
SatsOf(price) ==
    LET sats == (2 * price[1] * Coin + price[2]) \div (2 * price[2])
    IN IF sats <= Largest THEN {sats} ELSE {}

\* Book::value_of
ValueOf(t, amount) ==
    UNION {UNION {LET valued == (amount * sats + Coin \div 2) \div Coin
                  IN IF valued <= Largest THEN {valued} ELSE {} : sats \in SatsOf(q.price)} :
              q \in QuoteFor(t)}

\* Book::route_for: how a history is read.
RouteFor(t) == IF Direct(t) # {} THEN {<<p>> : p \in Direct(t)} ELSE Through(t)

PriceAt(p, reading, t, q) == Ratio(reading.prices, p, t, q)
Point(time, price) == {[t |-> time, sats |-> s] : s \in SatsOf(price)}
Points(p, Of(_)) ==
    FoldLeft(LAMBDA s, reading : s \o SetToSeq(Of(reading)), <<>>, book[p].history)

\* Book::series: of two hops, each reading with the newest hop at or before it.
HopsBefore(r, time) ==
    SelectSeq(book[r].history, LAMBDA hop : hop.time <= time /\ PriceAt(r, hop, Native, Quote) # {})
Series(t) ==
    UNION {IF Len(route) = 1
           THEN {Points(route[1], LAMBDA reading :
                    UNION {Point(reading.time, x) : x \in PriceAt(route[1], reading, t, Quote)})}
           ELSE {Points(route[1], LAMBDA reading :
                    LET hops == HopsBefore(route[2], reading.time)
                    IN IF hops = <<>> THEN {}
                       ELSE UNION {Point(reading.time, Times(x, y)) :
                               x \in PriceAt(route[1], reading, t, Native),
                               y \in PriceAt(route[2], Last(hops), Native, Quote)})}
           : route \in RouteFor(t)}

\* Book::change_since: from the oldest point in the window to the newest.
ChangeSince(t, seconds) ==
    UNION {LET within == SelectSeq(s, LAMBDA point : point.t >= now - seconds)
           IN IF within = <<>> THEN {}
              ELSE IF Head(within).t = Last(s).t \/ Head(within).sats = 0 THEN {}
              ELSE {<<Head(within), Last(s)>>} : s \in Series(t)}
-----------------------------------------------------------------------------
State(p) ==
    {[started |-> m[1], refunded |-> m[2], supply |-> m[3], held |-> h] :
        m \in Terms, h \in [Reserves[p] -> Held]}

\* Pool::from_converter and Pool::remember: what a basket publishes is read,
\* with what it published before.
Publish(p, s) ==
    LET was == IF p \in Listed THEN book[p].history ELSE <<>>
        reading == [time |-> now, prices |-> s.held]
        pool == [started |-> s.started, refunded |-> s.refunded, supply |-> s.supply,
                 held |-> s.held,
                 history |-> IF MaxTime = 0 THEN <<>> ELSE Append(was, reading)]
    IN /\ was # <<>> => Last(was).time < now
       /\ book' = [x \in Listed \cup {p} |-> IF x = p THEN pool ELSE book[x]]
       /\ UNCHANGED now

Tick == now < MaxTime /\ now' = now + 1 /\ UNCHANGED book

Init == book = <<>> /\ now = 0
Next == Tick \/ \E p \in Pool : \E s \in State(p) : Publish(p, s)
Spec == Init /\ [][Next]_vars
-----------------------------------------------------------------------------
TypeOK ==
    /\ Listed \subseteq Pool /\ now \in 0..MaxTime
    /\ \A p \in Listed : [f \in {"started", "refunded", "supply", "held"} |-> book[p][f]] \in State(p)
    /\ \A t \in Currency : \A q \in QuoteFor(t) : q.price[1] \in Nat /\ q.price[2] \in Nat \ {0}

\* No price comes from a basket that has not started, at either hop ("a real
\* figure about a market that does not exist yet - so it is listed and never
\* priced from").
NeverFromUnlaunched ==
    \A t \in Currency : \A q \in QuoteFor(t) : \A i \in DOMAIN q.via : book[q.via[i]].started

\* The value of a holding is off by no more than the two roundings: half a
\* satoshi of the price for each coin held, and half a satoshi.
ValueWithinRounding ==
    \A t \in Currency, amount \in 0..(3 * Coin) :
        \A value \in ValueOf(t, amount), q \in QuoteFor(t) :
            2 * Coin * Max({value * q.price[2] - amount * q.price[1],
                            amount * q.price[1] - value * q.price[2]})
                <= q.price[2] * (Coin + amount)

\* A point of a chart is made of what was published by its own time, on both
\* hops ("plots one currency's price against another's clock the moment one of
\* them comes back shorter").
PointUsesThePast ==
    \A t \in Currency : \A route \in RouteFor(t) : \A s \in Series(t) : \A i \in DOMAIN s :
        Len(route) = 2 =>
            \E a \in ToSet(book[route[1]].history), b \in ToSet(book[route[2]].history) :
                /\ a.time = s[i].t /\ b.time <= s[i].t
                /\ ~\E later \in ToSet(HopsBefore(route[2], s[i].t)) : later.time > b.time
                /\ \E x \in PriceAt(route[1], a, t, Native), y \in PriceAt(route[2], b, Native, Quote) :
                      s[i].sats \in SatsOf(Times(x, y))

\* The change is between two readings inside its window, the second the newest
\* ("a pool that last published a week ago would otherwise report a week of
\* movement as a day's").
ChangeIsOfTheWindow ==
    \A t \in Currency : \A c \in ChangeSince(t, Window) :
        c[1].t < c[2].t /\ c[1].t >= now - Window

\* A conversion goes through a basket that something can be converted through.
\* Does not hold: route takes any basket that has started.
RouteIsVenue == \A from, to \in Currency : from # to => \A p \in Route(from, to) : IsVenue(p)
\* A chart is drawn through the pools the price was taken from.
\* Does not hold: route_for takes the first basket that trades the quote,
\* priced or not.
ChartIsOfThePrice ==
    \A t \in Currency \ {Quote} : \A q \in QuoteFor(t), route \in RouteFor(t) : q.via = route
\* What one venue holds together with the quote is priced without a hop.
\* Does not hold: only the first basket that names the quote is asked for a
\* direct price.
DirectFirst ==
    \A t \in Currency \ {Quote} :
        (\E p \in Listed : IsVenue(p) /\ Holds(p, t) /\ Holds(p, Quote)) =>
            \A q \in QuoteFor(t) : Len(q.via) = 1
=============================================================================
