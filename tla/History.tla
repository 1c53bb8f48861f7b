------------------------------- MODULE History -------------------------------
(* The list of transactions and the caches a refresh fills (finish_refresh,  *)
(* load_older_history, finish_older_history, remember, switch_network of     *)
(* pecu-core/src/lib.rs; read and history_page of portfolio.rs).             *)
(*                                                                           *)
(* A refresh reads the newest page from the tip downwards, a click reads the *)
(* next older one. Both run on workers and their answers are applied when    *)
(* they come, whatever happened meanwhile. A transaction is its height; one  *)
(* height holds at most one.                                                 *)
EXTENDS Integers, SequencesExt

CONSTANTS
    Chain, FirstChain,
    None,           \* nothing read yet
    Busy,           \* the heights of each chain that hold a transaction
    MaxHeight,      \* bound: the height a chain grows to
    Window,         \* WINDOW_BLOCKS
    MaxWindow,      \* MAX_WINDOW_BLOCKS
    PageRows,       \* PAGE_ROWS
    MaxRequests,    \* the 24 requests of a page
    Failures,       \* what may go wrong: "native", "some", "none", "history"
    Patient         \* nothing is asked, or changed, while something is out

HistoryAssumption ==
    /\ FirstChain \in Chain
    /\ Busy \in [Chain -> SUBSET (1 .. MaxHeight)]
    /\ {Window, MaxWindow, PageRows, MaxRequests} \subseteq Nat \ {0}
    /\ Failures \subseteq {"native", "some", "none", "history"}
    /\ Patient \in BOOLEAN

VARIABLES
    net,            \* the chain the wallet is on
    tip,            \* the height of each chain
    unlocked,       \* the wallet
    history,        \* HistoryScan: entries, scanned_to, complete, loading
    refreshing,     \* a refresh is out
    native,         \* cached.native, as the chain it was read of
    store,          \* of each chain: the native currency and the snapshot kept
    jobs,           \* what is out
    top             \* history variable: the tip of the newest page shown

vars == <<net, tip, unlocked, history, refreshing, native, store, jobs, top>>

Entry == [chain : Chain, height : 1 .. MaxHeight]
Seen == Chain \cup {None}

NoHistory == [entries |-> <<>>, scannedTo |-> 0, complete |-> FALSE, loading |-> FALSE]

-----------------------------------------------------------------------------
(* One page, from `before` downwards *)

Larger(a, b) == IF a > b THEN a ELSE b
Smaller(a, b) == IF a < b THEN a ELSE b

\* window_start
WindowStart(end, window) == Larger(end - window, 1)

\* The answer of getaddressdeltas for a range of heights, oldest first.
Deltas(c, start, end) ==
    LET heights == SetToSortSeq({h \in Busy[c] : start <= h /\ h <= end}, LAMBDA a, b : a < b)
    IN  [n \in DOMAIN heights |-> [chain |-> c, height |-> heights[n]]]

PageOf(entries, scannedTo, start) ==
    [entries |-> entries, scannedTo |-> scannedTo, complete |-> start]

\* history_page: windows downwards until there are rows enough, and wider after
\* one that was empty.
Scan[c \in Chain, end \in Nat, window \in Nat, found \in Seq(Entry), requests \in Nat] ==
    LET start == WindowStart(end, window)
        deltas == Deltas(c, start, end)
        entries == deltas \o found
        wider == IF deltas = <<>> THEN Smaller(2 * window, MaxWindow) ELSE window
    IN  IF end = 0 \/ start <= 1 THEN PageOf(IF end = 0 THEN found ELSE entries, 0, TRUE)
        ELSE IF Len(entries) >= PageRows THEN PageOf(entries, start, FALSE)
        ELSE IF requests + 1 >= MaxRequests THEN PageOf(entries, start - 1, FALSE)
        ELSE Scan[c, start - 1, wider, entries, requests + 1]

HistoryPage(c, before) == Scan[c, before, Window, <<>>, 0]

\* What a node makes of a job. `funds` are the addresses whose coins it could
\* read: the page of a refresh starts at the tip they named, and at zero if none.
Read(job, fails) ==
    LET c == job.chain
        funds == IF "none" \in fails THEN "none" ELSE IF "some" \in fails THEN "some" ELSE "all"
        from == IF job.kind = "older" THEN job.before
                ELSE IF funds = "none" THEN 0 ELSE tip[c]
    IN  [funds |-> funds,
         native |-> IF job.native = None /\ "native" \notin fails THEN c ELSE job.native,
         failed |-> "history" \in fails,
         page |-> HistoryPage(c, from),
         tip |-> tip[c]]

Unread == [funds |-> "all", native |-> None, failed |-> FALSE,
           page |-> PageOf(<<>>, 0, FALSE), tip |-> 0]

-----------------------------------------------------------------------------
Init ==
    /\ net = FirstChain
    /\ tip \in [Chain -> 1 .. MaxHeight]
    /\ unlocked = TRUE
    /\ history = NoHistory
    /\ refreshing = FALSE
    /\ native = None
    /\ store = [c \in Chain |-> [native |-> None, snapshot |-> None]]
    /\ jobs = {}
    /\ top = 0

Idle == Patient => jobs = {}

Ask(kind, before) ==
    jobs' = jobs \cup {[kind |-> kind, chain |-> net, before |-> before,
                        native |-> native, read |-> FALSE, answer |-> Unread]}

\* refresh: on every new block, and after much else.
Refresh ==
    /\ ~refreshing /\ unlocked /\ Idle
    /\ refreshing' = TRUE
    /\ Ask("refresh", 0)
    /\ UNCHANGED <<net, tip, unlocked, history, native, store, top>>

\* Mutant: the page starts with the block the last one ended with.
LoadOlderAgain ==
    /\ ~history.loading /\ ~history.complete /\ history.scannedTo # 0 /\ Idle
    /\ history' = [history EXCEPT !.loading = TRUE]
    /\ Ask("older", history.scannedTo)
    /\ UNCHANGED <<net, tip, unlocked, refreshing, native, store, top>>

\* load_older_history
LoadOlder ==
    /\ ~history.loading /\ ~history.complete /\ history.scannedTo # 0 /\ Idle
    /\ history' = [history EXCEPT !.loading = TRUE]
    /\ Ask("older", history.scannedTo - 1)
    /\ UNCHANGED <<net, tip, unlocked, refreshing, native, store, top>>

\* A worker reads (read, history_page).
Work(job) ==
    /\ ~job.read
    /\ \E fails \in SUBSET Failures :
        jobs' = (jobs \ {job}) \cup {[job EXCEPT !.read = TRUE, !.answer = Read(job, fails)]}
    /\ UNCHANGED <<net, tip, unlocked, history, refreshing, native, store, top>>

\* remember: only of a reading that worked. A snapshot is known by the chain of
\* what it shows.
Remember(answer, chain) ==
    store' = IF answer.funds # "all" \/ answer.failed THEN store
             ELSE [store EXCEPT
                ![net].snapshot = chain,
                ![net].native = IF answer.native # None THEN answer.native ELSE @]

\* finish_refresh
FinishRefresh(job) ==
    LET answer == job.answer IN
    /\ job.kind = "refresh" /\ job.read
    /\ jobs' = jobs \ {job}
    /\ refreshing' = FALSE
    /\ native' = answer.native
    /\ IF answer.failed THEN UNCHANGED <<history, top>>
       ELSE /\ history' = [history EXCEPT !.entries = answer.page.entries,
                                          !.scannedTo = answer.page.scannedTo,
                                          !.complete = answer.page.complete]
            /\ top' = answer.tip
    /\ Remember(answer, job.chain)
    /\ UNCHANGED <<net, tip, unlocked>>

\* finish_older_history
FinishOlder(job) ==
    LET page == job.answer.page IN
    /\ job.kind = "older" /\ job.read
    /\ jobs' = jobs \ {job}
    /\ history' =
        IF job.answer.failed THEN [history EXCEPT !.loading = FALSE]
        ELSE [entries |-> page.entries \o history.entries, scannedTo |-> page.scannedTo,
              complete |-> page.complete, loading |-> FALSE]
    /\ UNCHANGED <<net, tip, unlocked, refreshing, native, store, top>>

\* switch_network: locked, and everything of the old chain is dropped, the
\* answers on their way excepted; restore reads the other chain's store.
Switch(c) ==
    /\ c # net /\ Idle
    /\ net' = c
    /\ unlocked' = FALSE
    /\ refreshing' = FALSE
    /\ history' = NoHistory
    /\ native' = store[c].native
    /\ top' = 0
    /\ UNCHANGED <<tip, store, jobs>>

Lock == unlocked /\ unlocked' = FALSE
        /\ UNCHANGED <<net, tip, history, refreshing, native, store, jobs, top>>

Unlock == ~unlocked /\ unlocked' = TRUE
          /\ UNCHANGED <<net, tip, history, refreshing, native, store, jobs, top>>

\* The wallet is started again on the chain it was left on.
Restart ==
    /\ unlocked' = FALSE
    /\ history' = NoHistory
    /\ refreshing' = FALSE
    /\ native' = store[net].native
    /\ jobs' = {}
    /\ top' = 0
    /\ UNCHANGED <<net, tip, store>>

Mine(c) ==
    /\ tip[c] < MaxHeight
    /\ tip' = [tip EXCEPT ![c] = @ + 1]
    /\ UNCHANGED <<net, unlocked, history, refreshing, native, store, jobs, top>>

Next ==
    \/ Refresh \/ LoadOlder \/ Lock \/ Unlock \/ Restart
    \/ \E job \in jobs : Work(job) \/ FinishRefresh(job) \/ FinishOlder(job)
    \/ \E c \in Chain : Switch(c) \/ Mine(c)

Spec == Init /\ [][Next]_vars

-----------------------------------------------------------------------------
TypeOK ==
    /\ net \in Chain /\ tip \in [Chain -> 1 .. MaxHeight] /\ unlocked \in BOOLEAN
    /\ history.entries \in Seq(Entry) /\ history.scannedTo \in 0 .. MaxHeight
    /\ {history.complete, history.loading, refreshing} \subseteq BOOLEAN
    /\ native \in Seen /\ store \in [Chain -> [native : Seen, snapshot : Seen]]
    /\ IsFiniteSet(jobs) /\ top \in 0 .. MaxHeight

\* "The lowest block height this scan actually looked at. Anything below is
\* unexplored, not empty" (Reading.scanned_to): the list holds every
\* transaction of the wallet's chain from there up to the newest page's tip, and
\* each once.
\* Does not hold unless Patient, nor if MaxRequests is reached: an older page
\* is put in front of whatever the list is by then, and the block a page gave
\* up at is never read.
NothingSkipped ==
    history.entries = Deltas(net, history.scannedTo, top)

\* "An unknown history is not an empty one: 'no transactions yet' is a claim
\* about the chain" (finish_refresh): a list that is empty and complete is one of
\* a chain without transactions.
\* Does not hold if "none" is in Failures: no address read is a tip of zero,
\* and an empty page complete.
EmptyIsOfChain ==
    history.complete /\ history.entries = <<>> => Deltas(net, 1, top) = <<>>

\* "Everything the old chain answered. A figure kept here is a figure about
\* somebody else's money" (switch_network): what is held and stored of a chain
\* was read of that chain, whatever answers late.
\* Does not hold unless Patient: a refresh carries no chain.
KeptAtHome ==
    /\ native \in {None, net}
    /\ \A c \in Chain : {store[c].native, store[c].snapshot} \subseteq {None, c}

\* A list never shrinks to something less recent: while the chain stays, the tip
\* of what is shown does not go back.
NeverOlder == net' = net /\ top' # 0 => top' >= top
=============================================================================
