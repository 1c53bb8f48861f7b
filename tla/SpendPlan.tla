----------------------------- MODULE SpendPlan -----------------------------
(* What a payment is made of: the amount that empties a key                  *)
(* (resolve_send_all, pecu-core/src/send.rs), the coins of a shield          *)
(* (plan, pecu-core/src/shield.rs), the notes of a shielded payment          *)
(* (plan_spend, pecu-core/src/shielded.rs), and what a draft is told before  *)
(* any of them runs (validate, and the checks of prepare_send in             *)
(* pecu-core/src/lib.rs).                                                    *)
(*                                                                           *)
(* Coins and notes are sequences of values, in the order a node lists them.  *)
(* The libraries' fees are functions with the shape theirs have: a floor,    *)
(* then so much for every input; so much for a shielded payment, and more    *)
(* for a transparent output.                                                 *)
EXTENDS Integers, SequencesExt

CONSTANTS
    FeeFloor, FeePerInput,  \* estimate_fee: the least, and what an input adds
    FreeInputs,             \* inputs the floor pays for
    SmartFee,               \* what a payment to an identity adds
    RelayFee, RelayPerOutput,   \* min_relay_fee
    MaxNotes                \* MAX_SPEND_NOTES

SpendPlanAssumption ==
    /\ {FeeFloor, FeePerInput, FreeInputs, SmartFee, RelayFee, RelayPerOutput} \subseteq Nat
    /\ FreeInputs > 0
    /\ MaxNotes \in Nat \ {0}

Refused == -1

-----------------------------------------------------------------------------
(* The libraries *)

\* estimate_fee(inputs, 2, .., smart)
EstimateFee(inputs, smart) ==
    FeeFloor + (IF smart THEN SmartFee ELSE 0)
             + (IF inputs > FreeInputs THEN (inputs - FreeInputs) * FeePerInput ELSE 0)

\* min_relay_fee(2, outputs)
MinRelayFee(outputs) == RelayFee + outputs * RelayPerOutput

LargestFirst(values) == SortSeq(values, LAMBDA v, w : v > w)

SumOfFirst(values, k) == FoldLeft(LAMBDA sum, v : sum + v, 0, SubSeq(values, 1, k))
Total(values) == SumOfFirst(values, Len(values))

\* The fewest first values that reach an amount: how many, or Refused.
Enough(values, Needed(_)) ==
    LET counts == {k \in 1 .. Len(values) : SumOfFirst(values, k) >= Needed(k)}
    IN  IF counts = {} THEN Refused ELSE Min(counts)

\* select_utxos: coins until the amount and the fee so far are covered, and
\* what comes back.
SelectUtxos(values, amount, smart) ==
    LET sorted == LargestFirst(values)
        k == Enough(sorted, LAMBDA n : amount + EstimateFee(n, smart))
    IN  IF k = Refused THEN [inputs |-> Refused, change |-> 0]
        ELSE [inputs |-> k,
              change |-> SumOfFirst(sorted, k) - amount - EstimateFee(k, smart)]

-----------------------------------------------------------------------------
(* The plans *)

\* resolve_send_all: the best any number of the largest coins can deliver.
ResolveSendAll(values, smart) ==
    LET sorted == LargestFirst(values)
        nets == {SumOfFirst(sorted, k) - EstimateFee(k, smart) : k \in DOMAIN values}
    IN  IF values = <<>> \/ Max(nets) <= 0 THEN Refused ELSE Max(nets)

\* Mutant: what is left over goes back whatever it is worth.
ShieldPlanDust(values, amount) ==
    LET sorted == LargestFirst(values)
        fee == MinRelayFee(1)
        k == Enough(sorted, LAMBDA n : amount + fee)
    IN  IF k = Refused THEN [inputs |-> Refused, fee |-> 0, change |-> 0]
        ELSE [inputs |-> k, fee |-> fee, change |-> SumOfFirst(sorted, k) - amount - fee]

\* plan: coins until the amount and the fee are covered; a remainder worth less
\* than the fee is added to it.
ShieldPlan(values, amount) ==
    LET sorted == LargestFirst(values)
        fee == MinRelayFee(1)
        k == Enough(sorted, LAMBDA n : amount + fee)
        remainder == SumOfFirst(sorted, k) - amount - fee
    IN  IF k = Refused THEN [inputs |-> Refused, fee |-> 0, change |-> 0]
        ELSE IF remainder < fee
             THEN [inputs |-> k, fee |-> fee + remainder, change |-> 0]
             ELSE [inputs |-> k, fee |-> fee, change |-> remainder]

\* plan_spend: the largest notes, and no more than one payment can spend.
PlanSpend(values, amount, outputs) ==
    LET most == IF Len(values) < MaxNotes THEN Len(values) ELSE MaxNotes
    IN  Enough(SubSeq(LargestFirst(values), 1, most),
               LAMBDA n : amount + MinRelayFee(outputs))

-----------------------------------------------------------------------------
(* Drafts *)

Pools == {"transparent", "shielded"}
\* What is typed for the recipient: nothing, something that is no address, a
\* name the chain answered with an address, with a revoked one, or not yet, and
\* an address of each kind.
Recipients == {"", "garbage", "known name", "revoked name", "unknown name",
               "R", "script", "identity", "zs"}
Addresses == {"R", "script", "identity", "zs"}
\* What is typed for the amount: nothing, no number, or a number.
Texts == {"", "garbage", "number"}

\* A draft. `value` is the number typed.
Drafts(amounts) == [to : Recipients, text : Texts, value : amounts,
                    sendAll : BOOLEAN, pool : Pools]

\* Route::of
RouteOf(draft) ==
    IF draft.pool = "transparent"
    THEN IF draft.to = "zs" THEN "shield" ELSE "transparent"
    ELSE IF draft.to = "zs" THEN "private" ELSE "unshield"

\* A name the chain answered for replaces what the text alone says.
ToValid(draft) == draft.to \in Addresses \cup {"known name"}

\* validate: `held` is the balance of the pool the draft pays from. Sending
\* everything is for a transparent payment, and for more than its cheapest fee.
AmountValid(draft, held) ==
    IF draft.sendAll THEN RouteOf(draft) = "transparent" /\ held > EstimateFee(1, FALSE)
    ELSE draft.text = "number" /\ draft.value > 0 /\ draft.value <= held

\* validate_draft: `ready`.
Ready(draft, held) == ToValid(draft) /\ AmountValid(draft, held)

\* What prepare_send is given: a name the chain answered for is replaced by the
\* address it answered with.
Substituted(draft) ==
    IF draft.to = "known name" THEN [draft EXCEPT !.to = "identity"] ELSE draft

\* prepare_send and the builder of the route: the payment is built, or what
\* refuses it. The parameters of the proofs and the servers are there.
Prepare(draft, coins, notes) ==
    LET d == Substituted(draft)
        amount == IF d.sendAll THEN ResolveSendAll(coins, d.to = "identity") ELSE d.value
    IN  CASE d.sendAll /\ RouteOf(d) # "transparent" -> "send all refused"
          [] d.to \notin Addresses -> "bad address"
          [] ~d.sendAll /\ (d.text # "number" \/ d.value = 0) -> "bad amount"
          [] RouteOf(d) = "transparent" ->
                IF amount = Refused \/ SelectUtxos(coins, amount, d.to = "identity").inputs = Refused
                THEN "short" ELSE "built"
          [] RouteOf(d) = "shield" ->
                IF ShieldPlan(coins, amount).inputs = Refused THEN "short" ELSE "built"
          [] OTHER ->
                IF PlanSpend(notes, amount, IF d.to = "zs" THEN 0 ELSE 1) = Refused
                THEN "short" ELSE "built"

-----------------------------------------------------------------------------
(* What a plan is to be, of the coins or notes that are held. *)

SetsOf(held) == SUBSET DOMAIN held
Worth(held, set) == FoldSet(LAMBDA n, sum : held[n] + sum, 0, set)

\* "The amount a 'send all' delivers" (resolve_send_all, send.rs): it can be
\* built, nothing of what it spends comes back, and no choice of coins delivers
\* more.
SendAllIsTheMost(held) ==
    \A smart \in BOOLEAN :
        LET amount == ResolveSendAll(held, smart)
            best == {Worth(held, set) - EstimateFee(Cardinality(set), smart) :
                        set \in SetsOf(held) \ {{}}}
        IN  IF amount = Refused THEN \A net \in best : net <= 0
            ELSE /\ SelectUtxos(held, amount, smart).inputs # Refused
                 /\ SelectUtxos(held, amount, smart).change = 0
                 /\ amount = Max(best)

\* A shield (plan, shield.rs) accounts for all it spends, pays the fee the
\* network wants, returns nothing that is worth less than that fee, and takes as
\* few coins as any choice that is enough.
ShieldBalances(held, amounts) ==
    \A amount \in amounts \ {0} :
        LET planned == ShieldPlan(held, amount)
            needed == amount + MinRelayFee(1)
            enough == {set \in SetsOf(held) : Worth(held, set) >= needed}
        IN  IF planned.inputs = Refused THEN enough = {}
            ELSE /\ SumOfFirst(LargestFirst(held), planned.inputs)
                        = amount + planned.fee + planned.change
                 /\ planned.fee >= MinRelayFee(1)
                 /\ planned.change = 0 \/ planned.change >= MinRelayFee(1)
                 /\ \A set \in enough : planned.inputs <= Cardinality(set)

\* One shielded payment spends at most MAX_SPEND_NOTES notes (plan_spend,
\* shielded.rs): it is refused only if no choice of so many is enough.
NotesReach(held, amounts) ==
    \A amount \in amounts \ {0}, outputs \in 0 .. 1 :
        (\E set \in SetsOf(held) : /\ Cardinality(set) <= MaxNotes
                                   /\ Worth(held, set) >= amount + MinRelayFee(outputs))
        <=> PlanSpend(held, amount, outputs) # Refused

\* What the form says of a draft (validate_draft, lib.rs) and what is made of it
\* (prepare_send and the builders) agree: nothing that could be built is held
\* back, and a draft that is called ready fails for want of money only.
VerdictIsTheBuild(held, amounts) ==
    \A draft \in Drafts(amounts) :
        LET result == Prepare(draft, held, held)
        IN  /\ result = "built" => Ready(draft, Total(held))
            /\ Ready(draft, Total(held)) => result \in {"built", "short"}
=============================================================================
