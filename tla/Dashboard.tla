------------------------------ MODULE Dashboard -------------------------------
(* What the dashboard says: the balance, the list of transactions with its   *)
(* days, the chart, one transaction opened, and what is kept for the next    *)
(* start (read, portfolio, rows_from, restamp and detail of pecu-core's      *)
(* portfolio.rs; finish_refresh, emit_history, emit_chart, load_tx_detail    *)
(* and remember of lib.rs; the series, its thinning and its plot of          *)
(* pecu-chart).                                                              *)
(*                                                                           *)
(* A refresh asks a node about one address after another, and then for the   *)
(* transactions below the highest tip it was told; blocks arrive meanwhile.  *)
(* A transaction is the block it is in.  Windows and double pages are        *)
(* History's; tokens, the shielded pool and prices are not here (a row's way *)
(* is that of any entry); a pixel of the plot is a tick of its time.         *)
EXTENDS Integers, FiniteSetsExt, SequencesExt

CONSTANTS
    Key,
    Order,          \* the addresses of the wallet, in the order they are read
    MaxTip,         \* bound: blocks
    Effect,         \* [1 .. MaxTip -> [Key -> Int]]: what each does to each key
    Time,           \* [1 .. MaxTip -> Nat]: the time it says of itself
    MaxClock,       \* bound: the time here
    Day,            \* ticks of a day
    Page,           \* transactions of a page
    MaxPoints,      \* MAX_POINTS
    Tenth,          \* a loss below this may be a fee (a tenth of a coin)
    MaxHits,        \* MOST
    Still,          \* no block arrives while something is read
    Fails,          \* may a reading fail?
    Patient         \* is nothing opened while an answer is out?

DashboardAssumption ==
    /\ {Order[n] : n \in DOMAIN Order} = Key /\ Len(Order) = Cardinality(Key)
    /\ Effect \in [1 .. MaxTip -> [Key -> Int]] /\ Time \in [1 .. MaxTip -> Nat]
    /\ {Day, Page, MaxClock} \subseteq Nat \ {0} /\ MaxPoints \in Nat \ 0 .. 2
    /\ {Tenth, MaxHits} \subseteq Nat \ {0}
    /\ {Still, Fails, Patient} \subseteq BOOLEAN

VARIABLES
    tip,        \* the chain
    clock,      \* the time here
    job,        \* the refresh under way
    older,      \* the page under way: where it starts
    shown,      \* Core::portfolio, and the figures on the screen
    balance,    \* Core::native_balance
    history,    \* HistoryScan
    rows,       \* the list on the screen, the newest first, and when it was made
    series,     \* the points of the chart
    sheet,      \* TxState: the transaction that is open
    wanted,     \* history variable: the transaction that was opened last
    raws,       \* raw transactions that are asked for
    cache       \* Store::snapshot

vars == <<tip, clock, job, older, shown, balance, history, rows, series, sheet, wanted, raws, cache>>

Block == 1 .. MaxTip
Unread == -1        \* of a key whose reading failed: absent, not nothing
None == 0           \* no block
Nothing == [total |-> 0, stale |-> FALSE, known |-> FALSE, of |-> 0]
NoJob == [next |-> 0, by |-> [k \in Key |-> Unread], tip |-> 0, failed |-> FALSE, page |-> <<>>,
          read |-> FALSE]
NoHistory == [entries |-> <<>>, scannedTo |-> 0, complete |-> FALSE]
NoSheet == [tx |-> None, count |-> 0, raw |-> FALSE]
NoRows == [list |-> <<>>, at |-> 0]

Held(k, h) == FoldSet(LAMBDA b, sum : Effect[b][k] + sum, 0, 1 .. h)
Net(b) == FoldSet(LAMBDA k, sum : Effect[b][k] + sum, 0, Key)
AllHeld(h) == FoldSet(LAMBDA k, sum : Held(k, h) + sum, 0, Key)

-----------------------------------------------------------------------------
(* The list *)

Today == -1
Yesterday == -2
NoHeading == -3
Larger(a, b) == IF a > b THEN a ELSE b
Smaller(a, b) == IF a < b THEN a ELSE b

\* calendar_day
CalendarDay(time, now) ==
    CASE now \div Day = time \div Day -> Today
      [] now \div Day = time \div Day + 1 -> Yesterday
      [] OTHER -> time \div Day

\* row: which way a transaction went, from the wallet's net of it in coins and in
\* tokens and whether it spent anything of the wallet; small; and what is shown as
\* its amount.
Entry(native, token, spent) == [native |-> native, token |-> token, spent |-> spent]
IsOutgoing(e) == e.native < 0 \/ e.token < 0
Small(native) == -Tenth < native /\ native < Tenth
Direction(e) ==
    CASE IsOutgoing(e) /\ e.spent /\ e.token = 0 /\ Small(e.native) -> "self"
      [] IsOutgoing(e) /\ ~(e.spent /\ e.token = 0 /\ Small(e.native)) -> "outgoing"
      [] ~IsOutgoing(e) /\ e.spent /\ e.native = 0 /\ e.token = 0 -> "self"
      [] OTHER -> "incoming"
NetDisplay(e) == IF e.native = 0 /\ e.token # 0 THEN e.token ELSE e.native
EntryOf(b) == Entry(Net(b), 0, \E k \in Key : Effect[b][k] < 0)

\* The heading goes on the first row of each day.
Headed(blocks, now) ==
    [n \in DOMAIN blocks |->
        [tx |-> blocks[n], way |-> Direction(EntryOf(blocks[n])),
         group |-> IF n > 1 /\ CalendarDay(Time[blocks[n - 1]], now) = CalendarDay(Time[blocks[n]], now)
                   THEN NoHeading ELSE CalendarDay(Time[blocks[n]], now)]]

\* rows_from, restamp
RowsFrom(entries, now) == [list |-> Headed(Reverse(entries), now), at |-> now]
Restamp(list, now) == [list |-> Headed([n \in DOMAIN list |-> list[n].tx], now), at |-> now]

\* history_page, in one window
HistoryPage(before) ==
    LET start == Larger(before - Page + 1, 1)
    IN  [entries |-> [n \in 1 .. (before - start + 1) |-> start + n - 1],
         scannedTo |-> IF start = 1 THEN 0 ELSE start, complete |-> start = 1]

\* What a query meets (search_matches, is_txid): how many of the known addresses and
\* of the currencies, which transactions, and whether it is long enough to be the
\* start of an id, or all of one.
Needle(addresses, currencies, ids, prefix, whole) ==
    [addresses |-> addresses, currencies |-> currencies, ids |-> ids, prefix |-> prefix,
     whole |-> whole]
WholeId(b) == Needle(0, 0, {b}, TRUE, TRUE)

\* transaction_hits: the newest first.
TransactionHits(needle, h) ==
    IF ~needle.prefix THEN <<>>
    ELSE LET all == SelectSeq(Reverse(h.entries), LAMBDA b : b \in needle.ids)
         IN  SubSeq(all, 1, Smaller(Len(all), MaxHits))

\* txid_note
TxidNote(needle, none, h) ==
    IF ~none \/ ~needle.whole THEN "" ELSE IF h.complete THEN "absent" ELSE "unscanned"

\* palette_hits, as search calls it: addresses, then currencies, then transactions.
PaletteHits(needle, h) ==
    LET first == Smaller(needle.addresses, MaxHits)
        second == Smaller(needle.currencies, MaxHits - first)
        found == TransactionHits(needle, h)
    IN  [addresses |-> first, currencies |-> second,
         ids |-> SubSeq(found, 1, Smaller(Len(found), MaxHits - first - second)),
         note |-> TxidNote(needle, found = <<>>, h)]

-----------------------------------------------------------------------------
(* The chart *)

Point(t, value) == [t |-> t, value |-> value]
SumFrom(entries, n) == FoldSet(LAMBDA c, sum : Net(entries[c]) + sum, 0, n .. Len(entries))

\* from_deltas: of each transaction its time and the balance before it, walked
\* down from the balance now, and in the order of the times.
FromDeltas(now, total, entries) ==
    IF entries = <<>> THEN <<>>
    ELSE LET size == Len(entries)
             at(n) == IF n > size THEN now ELSE Time[entries[n]]
             order == SetToSortSeq(1 .. (size + 1), LAMBDA a, b :
                          at(a) < at(b) \/ (at(a) = at(b) /\ a < b))
         IN  [n \in 1 .. (size + 1) |-> Point(at(order[n]), total - SumFrom(entries, order[n]))]

Abs(x) == IF x < 0 THEN -x ELSE x
Sum(ps, f(_)) == FoldSet(LAMBDA n, sum : f(ps[n]) + sum, 0, DOMAIN ps)

\* pick: the largest triangle with the point before and the middle of the next
\* bucket; the first of those.
Area(p, q, next) ==
    LET size == Len(next)
        cx == Sum(next, LAMBDA r : r.t)
        cy == Sum(next, LAMBDA r : r.value)
    IN  Abs((p.t * size - cx) * (q.value - p.value) - (p.t - q.t) * (cy - p.value * size))
Pick(bucket, p, next) ==
    bucket[Min({n \in DOMAIN bucket : \A m \in DOMAIN bucket :
                    Area(p, bucket[m], next) <= Area(p, bucket[n], next)})]

\* downsample
Downsample(points, most) ==
    IF Len(points) <= most THEN points
    ELSE LET interior == Len(points) - 2
             buckets == most - 2
             edge(b) == 2 + (b * interior) \div buckets
             next(b) == IF b + 1 = buckets THEN <<points[Len(points)]>>
                        ELSE SubSeq(points, edge(b + 1), edge(b + 2) - 1)
             chosen == FoldLeft(LAMBDA kept, b :
                           Append(kept, Pick(SubSeq(points, edge(b), edge(b + 1) - 1),
                                             kept[Len(kept)], next(b))),
                           <<points[1]>>, [n \in 1 .. buckets |-> n - 1])
         IN  Append(chosen, points[Len(points)])

\* plot: where a point stands between the first reading and now; step_at: the
\* last reading at or before the pointer; cursor: what it says there.
Position(points, now, n) == Smaller(Larger(points[n].t - points[1].t, 0), now - points[1].t)
StepAt(points, now, x) ==
    Max({1} \cup {n \in DOMAIN points : \A m \in 1 .. n : Position(points, now, m) <= x})
Hovered(points, now, time) == points[StepAt(points, now, time - points[1].t)].value

-----------------------------------------------------------------------------
TypeOK ==
    /\ tip \in 0 .. MaxTip /\ clock \in 0 .. MaxClock
    /\ job.next \in 0 .. (Len(Order) + 2) /\ older \in -1 .. MaxTip
    /\ shown.of \in 0 .. MaxTip /\ \A n \in DOMAIN history.entries : history.entries[n] \in Block
    /\ Len(rows.list) <= MaxTip /\ Len(series) <= MaxTip + 1
    /\ sheet.tx # None => sheet.count <= tip - sheet.tx + 1
    /\ raws \subseteq Block /\ wanted \in Block \cup {None}

Init ==
    /\ tip = 0 /\ clock = 0 /\ job = NoJob /\ older = -1 /\ shown = Nothing /\ balance = 0
    /\ history = NoHistory /\ rows = NoRows /\ series = <<>> /\ sheet = NoSheet
    /\ wanted = None /\ raws = {} /\ cache = [kept |-> Nothing, list |-> <<>>]

UnchangedShown == UNCHANGED <<shown, balance, history, rows, series>>
UnchangedSheet == UNCHANGED <<sheet, wanted, raws>>
Idle == job.next = 0 /\ older = -1

\* The chain and the time.  A block says a time that has come.
Mine ==
    /\ tip < MaxTip /\ Time[tip + 1] <= clock /\ (Still => Idle)
    /\ tip' = tip + 1
    /\ UNCHANGED <<clock, job, older, cache>> /\ UnchangedShown /\ UnchangedSheet
Tick ==
    /\ clock < MaxClock /\ clock' = clock + 1
    /\ UNCHANGED <<tip, job, older, cache>> /\ UnchangedShown /\ UnchangedSheet

\* refresh
Refresh ==
    /\ job.next = 0 /\ job' = [NoJob EXCEPT !.next = 1]
    /\ UNCHANGED <<tip, clock, older, cache>> /\ UnchangedShown /\ UnchangedSheet

\* read: an address that cannot be read is absent, and the rest goes on.
ReadKey(ok) ==
    /\ job.next \in DOMAIN Order /\ (ok \/ Fails)
    /\ job' = IF ok THEN [job EXCEPT !.next = @ + 1, !.by[Order[job.next]] = Held(Order[job.next], tip),
                                     !.tip = tip]
              ELSE [job EXCEPT !.next = @ + 1, !.failed = TRUE]
    /\ UNCHANGED <<tip, clock, older, cache>> /\ UnchangedShown /\ UnchangedSheet
ReadHistory(ok) ==
    /\ job.next = Len(Order) + 1 /\ (ok \/ Fails)
    /\ job' = [job EXCEPT !.next = @ + 1, !.read = ok]
    /\ UNCHANGED <<tip, clock, older, cache>> /\ UnchangedShown /\ UnchangedSheet

\* Reading::portfolio, confirmed_native
Total(by) == FoldSet(LAMBDA k, sum : (IF by[k] = Unread THEN 0 ELSE by[k]) + sum, 0, Key)
Portfolio(reading) ==
    [total |-> Total(reading.by), stale |-> reading.failed, known |-> TRUE, of |-> reading.tip]

\* emit_history, emit_chart
Emits(h, total) ==
    /\ history' = h /\ rows' = RowsFrom(h.entries, clock)
    /\ series' = FromDeltas(clock, total, h.entries)

\* finish_refresh; remember keeps a reading that worked.
FinishRefresh ==
    /\ job.next = Len(Order) + 2 /\ job' = NoJob
    /\ shown' = Portfolio(job) /\ balance' = Total(job.by)
    /\ IF job.read THEN Emits(HistoryPage(job.tip), Total(job.by))
       ELSE UNCHANGED <<history, rows, series>>
    /\ cache' = IF job.failed \/ ~job.read THEN cache
                ELSE [kept |-> Portfolio(job), list |-> RowsFrom(HistoryPage(job.tip).entries, clock).list]
    /\ UNCHANGED <<tip, clock, older>> /\ UnchangedSheet

\* load_older_history, finish_older_history
LoadOlder ==
    /\ older = -1 /\ ~history.complete /\ history.scannedTo # 0
    /\ older' = history.scannedTo - 1
    /\ UNCHANGED <<tip, clock, job, cache>> /\ UnchangedShown /\ UnchangedSheet
FinishOlder(ok) ==
    /\ older # -1 /\ older' = -1 /\ (ok \/ Fails)
    /\ LET page == HistoryPage(older) IN
       IF ok THEN Emits([page EXCEPT !.entries = @ \o history.entries], balance)
       ELSE UNCHANGED <<history, rows, series>>
    /\ UNCHANGED <<tip, clock, job, shown, balance, cache>> /\ UnchangedSheet

-----------------------------------------------------------------------------
(* One transaction *)

Listed(b) == \E n \in DOMAIN history.entries : history.entries[n] = b

\* detail; the tip is the one that was polled last.
Detail(b, polled, raw) ==
    [tx |-> b, count |-> IF polled >= b THEN polled - b + 1 ELSE 0, raw |-> raw]

\* A row is pressed (the sheet covers the list); load_tx_detail
OpenTx(b, polled) ==
    /\ sheet.tx = None /\ \E n \in DOMAIN rows.list : rows.list[n].tx = b
    /\ Patient => raws = {}
    /\ polled \in 0 .. tip /\ wanted' = b
    /\ sheet' = IF Listed(b) THEN Detail(b, polled, FALSE) ELSE sheet
    /\ raws' = IF Listed(b) THEN raws \cup {b} ELSE raws
    /\ UNCHANGED <<tip, clock, job, older, cache>> /\ UnchangedShown

\* finish_raw_transaction, apply_tx_detail
FinishRaw(b, ok) ==
    /\ b \in raws /\ raws' = raws \ {b} /\ (ok \/ Fails)
    /\ sheet' = IF ok /\ Listed(b) THEN Detail(b, tip, TRUE) ELSE sheet
    /\ UNCHANGED <<tip, clock, job, older, wanted, cache>> /\ UnchangedShown

CloseTx ==
    /\ sheet.tx # None /\ (Patient => raws = {})
    /\ sheet' = NoSheet /\ wanted' = None
    /\ UNCHANGED <<tip, clock, job, older, raws, cache>> /\ UnchangedShown

\* The program starts again; restore_view shows what was kept.
Restart ==
    /\ job' = NoJob /\ older' = -1 /\ raws' = {} /\ sheet' = NoSheet /\ wanted' = None
    /\ balance' = 0 /\ history' = NoHistory /\ series' = <<>>
    /\ shown' = IF cache.kept.known THEN [cache.kept EXCEPT !.stale = TRUE] ELSE Nothing
    /\ rows' = IF cache.kept.known THEN Restamp(cache.list, clock) ELSE NoRows
    /\ UNCHANGED <<tip, clock, cache>>

Next ==
    \/ Mine \/ Tick \/ Refresh \/ FinishRefresh \/ LoadOlder \/ CloseTx \/ Restart
    \/ \E ok \in BOOLEAN : ReadKey(ok) \/ ReadHistory(ok) \/ FinishOlder(ok)
    \/ \E b \in Block : \/ \E polled \in 0 .. MaxTip : OpenTx(b, polled)
                        \/ \E ok \in BOOLEAN : FinishRaw(b, ok)

Spec == Init /\ [][Next]_vars

-----------------------------------------------------------------------------
(* Properties *)

\* The figures that are not called stale, and the ones that are kept, are those of
\* one moment ("Caching a failed one would mean the next start restores a wrong
\* balance": remember).  Does not hold unless Still: the addresses are read one
\* after another, and a payment between two of them counts twice or not at all.
FiguresWereHeld ==
    /\ shown.known /\ ~shown.stale => shown.total = AllHeld(shown.of)
    /\ cache.kept.known =>
        /\ cache.kept.total = AllHeld(cache.kept.of)
        /\ cache.list # <<>> => cache.list[1].tx = cache.kept.of

\* Every point of the chart is a balance that was held, the newest is the balance
\* on the screen, and no step is left out ("every pixel of it is a balance somebody
\* actually held": plot).  Does not hold unless Still, nor if Fails: a reading that
\* lacks an address is the anchor of the chart all the same.
ChartWasHeld ==
    series # <<>> =>
        /\ series[Len(series)].value = shown.total
        /\ \A n \in 1 .. (Len(series) - 1) :
              series[n].value = AllHeld(history.entries[n] - 1)

\* What the pointer says is the balance at that time ("it was exactly that from one
\* transaction until the next": step_at).  Does not hold: the point of a
\* transaction carries the balance before it (from_deltas), so the chart is one
\* transaction behind.
HoverIsTrue ==
    series # <<>> /\ history.entries # <<>> =>
        LET now == series[Len(series)].t IN
        \A time \in series[1].t .. now :
            Hovered(series, now, time) =
                AllHeld(Max({0} \cup {b \in 1 .. shown.of : Time[b] <= time}))

\* Whatever the pointer says was the balance just before some transaction of that
\* time or earlier, or is the balance now.
HoverIsBehind ==
    series # <<>> =>
        LET now == series[Len(series)].t IN
        \A time \in series[1].t .. now :
            \/ Hovered(series, now, time) = shown.total /\ time = now
            \/ \E n \in DOMAIN history.entries :
                  /\ Time[history.entries[n]] <= time
                  /\ Hovered(series, now, time) = AllHeld(history.entries[n] - 1)

\* A row stands under the heading of its day, as of when the list was made, and two
\* headings in a row differ ("the dates are not allowed to be wrong": restamp).
HeadingsAreRight ==
    \A n \in DOMAIN rows.list :
        LET above == Max({m \in 1 .. n : rows.list[m].group # NoHeading} \cup {0}) IN
        /\ above # 0 /\ rows.list[above].group = CalendarDay(Time[rows.list[n].tx], rows.at)
        /\ n > 1 /\ rows.list[n].group # NoHeading =>
              rows.list[n].group # CalendarDay(Time[rows.list[n - 1].tx], rows.at)

\* Today's rows are under today.  Does not hold: midnight passes, and the list is
\* made again only when the transactions could be read.
TodayIsToday ==
    \A n \in DOMAIN rows.list :
        CalendarDay(Time[rows.list[n].tx], rows.at) = CalendarDay(Time[rows.list[n].tx], clock)

\* A transaction of this wallet that was there when it was last read is not called
\* absent ("not in this wallet's history": txid_note).  Does not hold if Fails: when
\* no address can be read the page starts at zero, and is complete.
SaidAbsent(b) == PaletteHits(WholeId(b), history).note = "absent"
ReadIsNotAbsent == \A b \in 1 .. shown.of : ~SaidAbsent(b)
AbsentIsAbsent == \A b \in 1 .. tip : ~SaidAbsent(b)

\* The palette is no longer than it may be, a transaction it lists opens, and the
\* newest that a query meets is listed unless addresses and currencies fill it ("a
\* hit from here is a sheet that is certain to open": search).
PaletteIsTrue(sizes) ==
    \A a, c \in sizes, ids \in SUBSET Block, prefix \in BOOLEAN :
        LET p == PaletteHits(Needle(a, c, ids, prefix, FALSE), history)
            met == {b \in ids : Listed(b)}
        IN  /\ p.addresses + p.currencies + Len(p.ids) <= MaxHits
            /\ \A n \in DOMAIN p.ids : p.ids[n] \in met
            /\ prefix /\ met # {} /\ p.addresses + p.currencies < MaxHits =>
                  p.ids # <<>> /\ p.ids[1] = Max(met)

\* What the wallet's rows say of a transfer between its own addresses that costs a
\* fee, of a payment and of what is received: nothing that was lost is called
\* received, a transfer that lost only the fee is called one, and what moved a token
\* or lost more than a fee may is neither (row).
Moves(fee, most) ==
    {[entry |-> Entry(-(paid + fee), token, TRUE), paid |-> paid, token |-> token] :
        paid \in 0 .. most, token \in -1 .. 1}
    \cup {[entry |-> Entry(got, token, FALSE), paid |-> 0, token |-> token] :
        got \in 0 .. most, token \in 0 .. 1}
DirectionKeeps(fee, most) ==
    \A move \in Moves(fee, most) :
        LET way == Direction(move.entry) IN
        /\ way = "incoming" => move.entry.native >= 0 /\ move.token >= 0
        /\ move.entry.spent /\ move.paid = 0 /\ move.token = 0 => way = "self"
        /\ move.token # 0 \/ move.paid >= Tenth => way # "self"
        /\ move.entry # Entry(0, 0, FALSE) => NetDisplay(move.entry) # 0

\* Does not hold: a payment of less than that is called a transfer between the
\* wallet's own addresses.  "Verus fees are four orders of magnitude below that, so
\* this only ever catches a self-transfer" (small).
OnlySelfTransfers(fee, most) ==
    \A move \in Moves(fee, most) : Direction(move.entry) = "self" => move.paid = 0

\* The sheet is of the transaction that was opened, and open while it is.  Does not
\* hold unless Patient: the raw transaction of one that was closed opens the sheet
\* again, over another (apply_tx_detail).
SheetIsOfOpened == sheet.tx # None => sheet.tx = wanted

\* What is pressed opens ("it appears immediately": load_tx_detail).  Does not hold:
\* after a start the rows on the screen are not yet in memory.
PressedOpens == wanted # None => sheet.tx # None

\* Figures that are called stale were held ("from cache and a refresh is in flight
\* or failed": PortfolioVm::stale).  Does not hold if Fails: what a failed reading
\* could not read is left out of the total.
StaleWasHeld == shown.stale => \E h \in 0 .. tip : shown.total = AllHeld(h)

\* Thinning keeps the two ends, the order, no more than it may, and a movement that
\* stands alone ("spikes survive": downsample).
ThinningKeeps(size, most) ==
    \A values \in [1 .. size -> 0 .. 2] :
        LET points == [n \in 1 .. size |-> Point(n, values[n])]
            kept == Downsample(points, most)
        IN  /\ Len(kept) = Smaller(size, most)
            /\ kept[1] = points[1] /\ kept[Len(kept)] = points[size]
            /\ \A n \in 2 .. Len(kept) : kept[n - 1].t < kept[n].t
            /\ \A n \in 1 .. Len(kept) : kept[n] = points[kept[n].t]
            /\ \A spike \in 1 .. size :
                  (\A n \in 1 .. size : values[n] = IF n = spike THEN 2 ELSE 0) =>
                      \E n \in 1 .. Len(kept) : kept[n].t = spike
=============================================================================
