---------------------------- MODULE CurrencyPicker ----------------------------
(* The list a reserve is picked from, and what a launch costs: the catalogue  *)
(* of a chain and its launch fees, each read once and kept.                   *)
(* crates/pecu-core/src/lib.rs search_currencies, finish_currency_catalog,    *)
(* ensure_launch_fees, finish_launch_fees; currency.rs choices.               *)
EXTENDS Integers, Sequences, SequencesExt, FiniteSetsExt

CONSTANTS
    Chain,
    Currency,      \* numbered in the order of their names
    Catalogue,     \* what each chain lists
    Query,         \* what is typed
    Hit,           \* how a query meets a currency: "prefix", "inside" or "none"
    None,
    Shown,         \* how many rows one answer has
    MaxJobs        \* readings under way at once

PickerAssumption ==
    /\ Currency \subseteq Nat /\ Shown \in Nat /\ MaxJobs \in Nat
    /\ Catalogue \in [Chain -> SUBSET Currency]
    /\ Hit \in [Query \X Currency -> {"prefix", "inside", "none"}]
    /\ None \notin Chain

VARIABLES
    asked,     \* the chain the wallet is on
    node,      \* whether a node of it is active
    catalog,   \* "unasked", "fetching", or the chain whose list is kept
    pending,   \* the search that waits for the list
    fees,      \* the chain whose launch fees are kept
    lists,     \* readings of a list under way, by chain
    charges,   \* readings of the fees under way, by chain
    last,      \* interface: what was searched for last
    panel      \* interface: what the picker shows

vars == <<asked, node, catalog, pending, fees, lists, charges, last, panel>>

Search == [query : Query, exclude : {X \in SUBSET Currency : Cardinality(X) <= 1}]
Count(jobs) == FoldFunction(+, 0, jobs)
-----------------------------------------------------------------------------
Sorted(C) == SetToSortSeq(C, <)
Hits(c, s, how) == {x \in Catalogue[c] \ s.exclude : Hit[s.query, x] = how}

\* Mutant: everything that matches is sent.
PicksAll(c, s) ==
    LET hits == Sorted(Hits(c, s, "prefix")) \o Sorted(Hits(c, s, "inside"))
    IN [kind |-> "choices", to |-> s, rows |-> hits, more |-> 0]

\* choices: names that start with what is typed, then those that contain it,
\* each in order; the first few, and how many more there are.
Picks(c, s) ==
    LET hits == Sorted(Hits(c, s, "prefix")) \o Sorted(Hits(c, s, "inside"))
        rows == SubSeq(hits, 1, Min({Len(hits), Shown}))
    IN [kind |-> "choices", to |-> s, rows |-> rows, more |-> Len(hits) - Len(rows)]

Loading == [kind |-> "loading"]
Problem == [kind |-> "problem"]
-----------------------------------------------------------------------------
Init ==
    /\ asked \in Chain /\ node = TRUE
    /\ catalog = "unasked" /\ pending = None /\ fees = None
    /\ lists = [c \in Chain |-> 0] /\ charges = [c \in Chain |-> 0]
    /\ last = None /\ panel = Problem

\* Mutant: the first of the searches that wait is remembered.
SearchCurrenciesFirst(s) ==
    /\ last' = s /\ UNCHANGED <<asked, node, fees, charges>>
    /\ IF catalog \in Chain
       THEN panel' = Picks(catalog, s) /\ UNCHANGED <<catalog, pending, lists>>
       ELSE /\ pending' = IF pending = None THEN s ELSE pending
            /\ \/ catalog = "fetching" /\ UNCHANGED <<catalog, lists, panel>>
               \/ /\ catalog = "unasked" /\ ~node
                  /\ panel' = Problem /\ UNCHANGED <<catalog, lists>>
               \/ /\ catalog = "unasked" /\ node /\ Count(lists) < MaxJobs
                  /\ panel' = Loading /\ catalog' = "fetching"
                  /\ lists' = [lists EXCEPT ![asked] = @ + 1]

\* search_currencies: answered from the list that is kept; else remembered, and
\* the list asked for unless it already is.
SearchCurrencies(s) ==
    /\ last' = s /\ UNCHANGED <<asked, node, fees, charges>>
    /\ IF catalog \in Chain
       THEN panel' = Picks(catalog, s) /\ UNCHANGED <<catalog, pending, lists>>
       ELSE /\ pending' = s
            /\ \/ catalog = "fetching" /\ UNCHANGED <<catalog, lists, panel>>
               \/ /\ catalog = "unasked" /\ ~node
                  /\ panel' = Problem /\ UNCHANGED <<catalog, lists>>
               \/ /\ catalog = "unasked" /\ node /\ Count(lists) < MaxJobs
                  /\ panel' = Loading /\ catalog' = "fetching"
                  /\ lists' = [lists EXCEPT ![asked] = @ + 1]

\* finish_currency_catalog, of a list that arrived: whoever waits is answered.
FinishCurrencyCatalog(c) ==
    /\ lists[c] > 0 /\ lists' = [lists EXCEPT ![c] = @ - 1]
    /\ catalog' = c /\ pending' = None
    /\ panel' = IF pending = None THEN panel ELSE Picks(c, pending)
    /\ UNCHANGED <<asked, node, fees, charges, last>>

\* finish_currency_catalog, of one that could not be read: asked for again by
\* the next search.
CatalogFailed(c) ==
    /\ lists[c] > 0 /\ lists' = [lists EXCEPT ![c] = @ - 1]
    /\ catalog' = "unasked" /\ pending' = None /\ panel' = Problem
    /\ UNCHANGED <<asked, node, fees, charges, last>>

\* ensure_launch_fees, when the currencies are opened.
EnsureLaunchFees ==
    /\ fees = None /\ node /\ Count(charges) < MaxJobs
    /\ charges' = [charges EXCEPT ![asked] = @ + 1]
    /\ UNCHANGED <<asked, node, catalog, pending, fees, lists, last, panel>>

\* finish_launch_fees
FinishLaunchFees(c, ok) ==
    /\ charges[c] > 0 /\ charges' = [charges EXCEPT ![c] = @ - 1]
    /\ fees' = IF ok THEN c ELSE fees
    /\ UNCHANGED <<asked, node, catalog, pending, lists, last, panel>>

\* switch_network forgets what was read; the readings under way go on, and the
\* screen is another one.
SwitchNetwork(c) ==
    /\ c # asked /\ asked' = c
    /\ catalog' = "unasked" /\ pending' = None /\ fees' = None
    /\ last' = None /\ panel' = Problem
    /\ UNCHANGED <<node, lists, charges>>

\* The active node is lost, or one is found.
NodeComesOrGoes ==
    /\ node' = ~node
    /\ UNCHANGED <<asked, catalog, pending, fees, lists, charges, last, panel>>

Next ==
    \/ \E s \in Search : SearchCurrencies(s)
    \/ \E c \in Chain : FinishCurrencyCatalog(c) \/ CatalogFailed(c) \/ SwitchNetwork(c)
    \/ EnsureLaunchFees \/ NodeComesOrGoes
    \/ \E c \in Chain, ok \in BOOLEAN : FinishLaunchFees(c, ok)
\* A reading ends: every call to a node has a timeout.
Reading == \E c \in Chain : FinishCurrencyCatalog(c) \/ CatalogFailed(c)

Spec == Init /\ [][Next]_vars

-----------------------------------------------------------------------------
TypeOK ==
    /\ asked \in Chain /\ node \in BOOLEAN
    /\ catalog \in Chain \cup {"unasked", "fetching"}
    /\ pending \in Search \cup {None} /\ last \in Search \cup {None}
    /\ fees \in Chain \cup {None}
    /\ lists \in [Chain -> 0..MaxJobs] /\ charges \in [Chain -> 0..MaxJobs]
    /\ panel.kind \in {"loading", "problem", "choices"}
    /\ panel.kind = "choices" => Len(panel.rows) <= Shown

\* Of searches typed while the list is on its way, what is shown answers the
\* last ("the only answer worth sending is the one to the last of them").
AnswerIsToLast == panel.kind = "choices" /\ pending = None => panel.to = last

\* Every currency of the chain that matches, and is not taken, is a row or is
\* counted ("a list that truncated silently would read as that is all there is").
NothingLeftOut ==
    panel.kind = "choices" =>
        Len(panel.rows) + panel.more =
            Cardinality({x \in Catalogue[asked] \ panel.to.exclude : Hit[panel.to.query, x] # "none"})

\* A list that is being fetched is under way: a search that waits for it does
\* not wait for nothing.
FetchingIsUnderWay == catalog = "fetching" => Count(lists) > 0

\* A picker that says it is loading comes to show a list or a problem.
Waiting == panel = Loading

\* What can be picked is on the chain.
\* Does not hold with two chains: the list that comes carries none.
ChoicesAreOfChain == panel.kind = "choices" => ToSet(panel.rows) \subseteq Catalogue[asked]
\* The launch fee that is shown is the chain's.
\* Does not hold with two chains: the fees that come carry none, and are not
\* asked for again.
FeeIsOfChain == fees \in {None, asked}
=============================================================================
