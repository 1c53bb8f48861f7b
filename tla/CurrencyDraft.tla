---------------------------- MODULE CurrencyDraft ----------------------------
(* From the currency form to the definition that goes on the chain:           *)
(* crates/pecu-core/src/currency.rs problems, check, definition and           *)
(* crates/pecu-core/src/lib.rs validate_currency, prepare_launch. The form is *)
(* edited and checked, the tip moves, and the definition is built.            *)
(*                                                                            *)
(* Amounts and weights are typed as decimals, parsed as f64 and cast to an    *)
(* i64, which saturates; their sums are sums of i64, which wrap in the build  *)
(* that is shipped. The widths are scaled: a word of Bits bits for the i64,   *)
(* Narrow for the largest i32, One for a whole.                               *)
EXTENDS Integers, Sequences, SequencesExt, FiniteSetsExt

CONSTANTS
    Kind,           \* the kinds this instance has, of "token", "basket", "nft"
    Currency,       \* what a reserve can be picked from
    Recipient,      \* recipients that can be resolved to an identity
    Blank,          \* an empty field
    Typed,          \* the amounts and weights that are typed
    Bits, Narrow, One,
    MaxReserves, MaxAllocations,
    Delays,
    MaxTip          \* the last height there is

DraftAssumption ==
    /\ Kind \subseteq {"token", "basket", "nft"}
    /\ Blank \notin Currency \cup Recipient \cup Typed
    /\ Typed \subseteq Nat /\ Delays \subseteq Nat /\ Delays # {}
    /\ {Bits, MaxReserves, MaxAllocations, MaxTip} \subseteq Nat
    /\ {One, Narrow} \subseteq Nat \ {0} /\ One <= Narrow /\ Narrow < 2^(Bits - 1)

VARIABLES
    draft,    \* what the form says
    tip,      \* the active node's tip
    checked,  \* the last verdict sent to the form: CurrencyDraftVm
    built     \* what prepare_launch made of the draft

vars == <<draft, tip, checked, built>>

Reserve == [currency : Currency \cup {Blank}, weight : Typed \cup {Blank}]
Allocation == [recipient : Recipient \cup {Blank}, amount : Typed \cup {Blank}]
Draft == [kind : Kind, mintable : BOOLEAN, delay : Delays,
          reserves : BoundedSeq(Reserve, MaxReserves),
          preallocations : BoundedSeq(Allocation, MaxAllocations)]

Largest == 2^(Bits - 1) - 1
\* An i64 sum in a release build.
Wrapped(n) == ((n + 2^(Bits - 1)) % 2^Bits) - 2^(Bits - 1)
SumOf(s, Field(_)) == Wrapped(FoldLeft(LAMBDA n, e : n + Field(e), 0, s))

\* weight_units and coins_to_sats: as i64, which saturates; none when empty.
Units(typed) == IF typed <= Largest THEN typed ELSE Largest
Weight(r) == IF r.weight = Blank THEN 0 ELSE Units(r.weight)
Sats(a) == IF a.amount = Blank THEN 0 ELSE Units(a.amount)

\* Problems that stop a launch, and problems that are only said.
WeightsTotal(d) == SumOf(d.reserves, Weight)
Supply(d) == SumOf(d.preallocations, Sats)

\* basket_problems
BasketStops(d) ==
    \/ d.reserves = <<>>
    \/ \E r \in ToSet(d.reserves) : r.currency = Blank \/ Weight(r) = 0
    \/ \E i, k \in DOMAIN d.reserves : i < k /\ d.reserves[i].currency = d.reserves[k].currency
    \/ WeightsTotal(d) # One

\* nft_problems
NftStops(d) == d.reserves # <<>> \/ Len(d.preallocations) > 1

\* token_problems
TokenStops(d) ==
    \/ d.reserves # <<>>
    \/ Supply(d) = 0 /\ ~d.mintable
    \/ \E a \in ToSet(d.preallocations) : a.recipient = Blank \/ Sats(a) = 0

\* start_problems
StartStops(d, t) == d.delay = 0 \/ t + d.delay > MaxTip

\* problems, of a draft that names one identity.
Stops(d, t) ==
    \/ StartStops(d, t)
    \/ d.kind = "basket" /\ BasketStops(d)
    \/ d.kind = "nft" /\ NftStops(d)
    \/ d.kind = "token" /\ TokenStops(d)

\* check: the verdict and the figures beside it.
Checked(d, t) == [ready |-> ~Stops(d, t), supply |-> Supply(d), weights |-> WeightsTotal(d),
                  start |-> Min({t + d.delay, MaxTip})]
-----------------------------------------------------------------------------
Failed == [kind |-> "failed"]
Holder(d) == d.preallocations[1].recipient
Resolved(d) == \A a \in ToSet(d.preallocations) : a.recipient \in Recipient
Numbers(d) == \A a \in ToSet(d.preallocations) : a.amount # Blank

\* Mutant: clamped rather than refused.
ReservesClamped(d) ==
    IF \E r \in ToSet(d.reserves) : r.weight = Blank \/ r.currency = Blank
    THEN {}
    ELSE {[i \in DOMAIN d.reserves |->
             [currency |-> d.reserves[i].currency, weight |-> Min({Weight(d.reserves[i]), Narrow})]]}

\* The reserves of a basket: refused rather than clamped when a weight does not fit.
Reserves(d) ==
    IF \E r \in ToSet(d.reserves) :
          r.weight = Blank \/ r.currency = Blank \/ Weight(r) > Narrow
    THEN {}
    ELSE {[i \in DOMAIN d.reserves |->
             [currency |-> d.reserves[i].currency, weight |-> Weight(d.reserves[i])]]}

\* definition: an NFT has one holder and nothing else; the others allocate, and
\* a basket says what it starts with.
Definition(d, start) ==
    CASE d.kind = "nft" ->
             IF Len(d.preallocations) # 1 \/ ~Resolved(d) THEN Failed
             ELSE [kind |-> "nft", start |-> start, holder |-> Holder(d)]
      [] d.kind = "token" ->
             IF ~Resolved(d) \/ ~Numbers(d) THEN Failed
             ELSE [kind |-> "token", start |-> start, mintable |-> d.mintable,
                   allocated |-> [i \in DOMAIN d.preallocations |-> Sats(d.preallocations[i])]]
      [] d.kind = "basket" ->
             IF ~Resolved(d) \/ ~Numbers(d) \/ Reserves(d) = {} THEN Failed
             ELSE [kind |-> "basket", start |-> start, mintable |-> d.mintable,
                   allocated |-> [i \in DOMAIN d.preallocations |-> Sats(d.preallocations[i])],
                   reserves |-> CHOOSE r \in Reserves(d) : TRUE,
                   supply |-> Max({Supply(d), 0})]

Nothing == [kind |-> "nothing"]

\* An empty form, of each kind.
Empty(k) == [kind |-> k, mintable |-> FALSE, delay |-> Min(Delays), reserves |-> <<>>,
             preallocations |-> <<>>]
BlankReserve == [currency |-> Blank, weight |-> Blank]
BlankAllocation == [recipient |-> Blank, amount |-> Blank]

Init ==
    /\ tip = 1 /\ \E k \in Kind : draft = Empty(k)
    /\ checked = Checked(draft, tip) /\ built = Nothing

\* validate_currency, after an edit of one part of the form.
Edit(d) ==
    /\ draft' = d /\ d # draft
    /\ checked' = Checked(d, tip) /\ built' = Nothing /\ UNCHANGED tip

\* Blocks come; the form is not checked again until it is edited.
Advance ==
    /\ tip < MaxTip /\ tip' = tip + 1 /\ UNCHANGED <<draft, checked, built>>

\* prepare_launch: the button is there when the form is ready; the draft is
\* checked anew, and starts from the tip there is now.
PrepareLaunch ==
    /\ built = Nothing /\ checked.ready
    /\ IF Stops(draft, tip) THEN UNCHANGED built
       ELSE built' = Definition(draft, Min({tip + draft.delay, MaxTip}))
    /\ UNCHANGED <<draft, tip, checked>>

\* One row more, one less, or one field of a row.
EditReserves ==
    \/ Len(draft.reserves) < MaxReserves /\ Edit([draft EXCEPT !.reserves = Append(@, BlankReserve)])
    \/ \E i \in DOMAIN draft.reserves :
          \/ Edit([draft EXCEPT !.reserves = RemoveAt(@, i)])
          \/ \E c \in Currency : Edit([draft EXCEPT !.reserves[i].currency = c])
          \/ \E w \in Typed \cup {Blank} : Edit([draft EXCEPT !.reserves[i].weight = w])
EditAllocations ==
    \/ /\ Len(draft.preallocations) < MaxAllocations
       /\ Edit([draft EXCEPT !.preallocations = Append(@, BlankAllocation)])
    \/ \E i \in DOMAIN draft.preallocations :
          \/ Edit([draft EXCEPT !.preallocations = RemoveAt(@, i)])
          \/ \E c \in Recipient \cup {Blank} : Edit([draft EXCEPT !.preallocations[i].recipient = c])
          \/ \E w \in Typed \cup {Blank} : Edit([draft EXCEPT !.preallocations[i].amount = w])
EditTerms ==
    \/ \E k \in Delays : Edit([draft EXCEPT !.delay = k])
    \/ \E k \in Kind : Edit([draft EXCEPT !.kind = k])
    \/ Edit([draft EXCEPT !.mintable = ~@])

Next == Advance \/ PrepareLaunch \/ EditReserves \/ EditAllocations \/ EditTerms
Spec == Init /\ [][Next]_vars
-----------------------------------------------------------------------------
TypeOK ==
    /\ draft \in Draft /\ tip \in 1..MaxTip
    /\ checked.start \in 1..MaxTip /\ checked.ready \in BOOLEAN
    /\ built.kind \in Kind \cup {"nothing", "failed"}
    /\ built.kind = "basket" => built.supply \in 0..Largest

\* The weights of a basket that is built are parts of exactly one whole, each of
\* another currency and none of them empty, whatever was typed: a sum that wraps
\* around to a whole does not get past the cast ("a set that sums to anything
\* else builds a market with the wrong prices in it - silently, and permanently").
WeightsAreOneWhole ==
    built.kind = "basket" =>
        LET r == built.reserves IN
        /\ FoldLeft(LAMBDA n, e : n + e.weight, 0, r) = One
        /\ \A i, k \in DOMAIN r : i # k => r[i].currency # r[k].currency
        /\ \A i \in DOMAIN r : r[i].weight > 0

\* A token that is built can hold something, now or later ("launches a currency
\* that can never hold anything, and it cannot be fixed afterwards").
TokenHoldsSomething ==
    built.kind = "token" =>
        built.mintable \/ FoldLeft(LAMBDA n, e : n + e, 0, built.allocated) > 0

\* A launch starts after the tip it is built at.
StartsInTheFuture == built'.kind \in Kind /\ built' # built => built'.start > tip

\* A total is never negative.
\* Does not hold: the sum wraps.
TotalNotNegative == checked.supply >= 0
\* What the form calls ready can be built, when its recipients are known.
\* Does not hold if "nft" is in Kind: one without a holder is ready.
ReadyCanBeBuilt == built # Failed
=============================================================================
