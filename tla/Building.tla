------------------------------ MODULE Building ------------------------------
(* Building, signing and reviewing a payment or a conversion                 *)
(* (pecu-core/src/send.rs and shield.rs prepare, review and decode_outputs,  *)
(* convert.rs kind_for, prepare, token_inputs and review, build_on_worker    *)
(* and its dispatch in lib.rs).  The worker reads the chain twice, once for  *)
(* the plan and once to sign, while coins come and go and the user works on  *)
(* with the keys; the review is made when the answer comes in.               *)
(*                                                                           *)
(* The amounts and the choice of coins are SpendPlan's.  Notes and proofs    *)
(* are not here (SpendPlan, ShieldedScan), nor what becomes of what was      *)
(* signed (Payments), nor the second source, which no build has              *)
(* (Corroboration).                                                          *)
EXTENDS SpendPlan, FiniteSets, FiniteSetsExt

CONSTANTS
    Key, Label, NoKey,
    Output,         \* the outputs there may be
    OwnerOf,        \* [Output -> Key]
    ValueOf,        \* [Output -> Nat]: native satoshis
    TokensOf,       \* [Output -> [Token -> Nat]]
    Token,          \* currencies but the chain's own, "native"
    Amounts,        \* what may be typed
    Estimates,      \* what a node may expect of a conversion
    TransferFee,    \* TRANSFER_FEE_SATS
    Steady,         \* do keys stay selected and named while a build is under way?
    Quiet           \* do coins stay while a build is under way?

BuildingAssumption ==
    /\ SpendPlanAssumption /\ OwnerOf \in [Output -> Key] /\ ValueOf \in [Output -> Nat]
    /\ TokensOf \in [Output -> [Token -> Nat]] /\ NoKey \notin Key
    /\ Amounts \cup Estimates \cup {TransferFee} \subseteq Nat \ {0}
    /\ {Steady, Quiet} \subseteq BOOLEAN /\ Cardinality(Key) <= Cardinality(Label)

VARIABLES
    keys,       \* Vault: the key of each label
    active,     \* Wallet::active_key, a label
    outputs,    \* the chain: the outputs that are not spent
    estimate,   \* what a node expects of the conversion now
    job,        \* the build under way, or the last one
    signed,     \* Core::prepared, Core::conversions: what was signed last
    review,     \* the review on the screen
    payer       \* history: the key that was active when it was asked for

vars == <<keys, active, outputs, estimate, job, signed, review, payer>>

NoDraft == [kind |-> "no", amount |-> 0, of |-> "native", to |-> NoKey]
NoJob == [step |-> "no", draft |-> NoDraft, label |-> "", from |-> NoKey, floor |-> 0,
          plan |-> 0, tx |-> 0]
NoTx == [kind |-> "no", ins |-> {}, outs |-> {}, hidden |-> 0, fee |-> 0, amount |-> 0,
         of |-> "native", signer |-> NoKey]
NoReview == [total |-> 0, after |-> 0, from |-> NoKey, change |-> {}]
Currency == {"native"} \cup Token

\* What is asked for; an amount of 0 is everything.
Draft ==
    [kind : {"pay"}, amount : Amounts \cup {0}, of : {"native"}, to : Key \cup {NoKey}]
    \cup [kind : {"shield"}, amount : Amounts, of : {"native"}, to : {NoKey}]
    \cup [kind : {"convert"}, amount : Amounts, of : Currency, to : {NoKey}]

-----------------------------------------------------------------------------
(* What is read *)

Owned(k) == {o \in outputs : OwnerOf[o] = k}
IsNative(o) == \A t \in Token : TokensOf[o][t] = 0
NativeOf(k) == {o \in Owned(k) : IsNative(o)}
Values(s) == [c \in DOMAIN s |-> ValueOf[s[c]]]
ValueSum(os) == FoldSet(LAMBDA o, sum : ValueOf[o] + sum, 0, os)
TokenSum(os, t) == FoldSet(LAMBDA o, sum : TokensOf[o][t] + sum, 0, os)

\* network::spendable, the largest first.
Spendable(k) ==
    SetToSortSeq(NativeOf(k), LAMBDA o, p :
        ValueOf[o] > ValueOf[p] \/ (ValueOf[o] = ValueOf[p] /\ o < p))
First(k, count) == {Spendable(k)[c] : c \in 1 .. count}

\* token_inputs: every output of exactly this token, and none that holds another;
\* nothing for the chain's own currency.
Holding(k, t) == {o \in Owned(k) : TokensOf[o][t] > 0}
Exact(k, t) == {o \in Holding(k, t) : \A u \in Token \ {t} : TokensOf[o][u] = 0}
TokenInputs(k, of) == IF of = "native" THEN {} ELSE Exact(k, of)
\* It is refused by name when all there is holds another as well.
Unusable(k, of) == of # "native" /\ Exact(k, of) = {} /\ Holding(k, of) # {}

\* convert.rs floor
FloorOf(expected) == (expected * 970) \div 1000

\* kind_for: where the pool stands to the two legs says what the chain is asked.
KindFor(pool, from, to) ==
    CASE pool = to -> [how |-> "into fractional", of |-> to, target |-> to]
      [] pool = from -> [how |-> "into reserve", of |-> from, target |-> to]
      [] OTHER -> [how |-> "reserve to reserve", of |-> pool, target |-> to]

\* slippage, tone: of what is expected against what the middle price would give
Tone(expected, mid) ==
    CASE mid <= 0 -> "unknown"
      [] (mid - expected) * 1000 > 30 * mid -> "negative"
      [] (mid - expected) * 1000 > 10 * mid -> "warning"
      [] OTHER -> "positive"

-----------------------------------------------------------------------------
(* What is signed *)

Out(to, value, what) == [to |-> to, value |-> value, what |-> what]
OutSum(outs) == FoldSet(LAMBDA o, sum : o.value + sum, 0, outs)
NonZero(outs) == {o \in outs : o.value > 0}
Built(d, ins, outs, hidden, fee, signer) ==
    [kind |-> d.kind, ins |-> ins, outs |-> NonZero(outs), hidden |-> hidden, fee |-> fee,
     amount |-> d.amount, of |-> d.of, signer |-> signer]

\* prepare_send, of the key that signs.
Pay(d, k) ==
    LET picked == SelectUtxos(Values(Spendable(k)), d.amount, FALSE)
        ins == First(k, picked.inputs)
    IN  Built(d, ins, {Out(d.to, d.amount, "payment"), Out(k, picked.change, "change")}, 0,
              ValueSum(ins) - d.amount - picked.change, k)
PayFits(d, k) == SelectUtxos(Values(Spendable(k)), d.amount, FALSE).inputs # Refused

\* prepare_with_key: the inputs and the figures are the plan's.
Shield(d, plan, from, k) ==
    Built(d, plan.ins, {Out(from, plan.change, "change")}, d.amount, plan.fee, k)

\* prepare_conversion: the amount, if it is the chain's own, and the transfer fee
\* are the output's value; a token's surplus comes back as change.
Carried(d) == (IF d.of = "native" THEN d.amount ELSE 0) + TransferFee
Convert(d, tokens, from, k) ==
    LET picked == SelectUtxos(Values(Spendable(k)), Carried(d), TRUE)
        ins == First(k, picked.inputs)
    IN  Built(d, ins \cup tokens,
              {Out(from, Carried(d), "conversion"),
               Out(k, picked.change + ValueSum(tokens), "change")}, 0,
              ValueSum(ins) - Carried(d) - picked.change, k)
ConvertFits(d, tokens, k) ==
    /\ SelectUtxos(Values(Spendable(k)), Carried(d), TRUE).inputs # Refused
    /\ d.of # "native" => TokenSum(tokens, d.of) >= d.amount
TokenChange(tx, t) ==
    IF tx.kind = "convert" /\ t = tx.of THEN TokenSum(tx.ins, t) - tx.amount ELSE 0

\* describe, decode_outputs: what comes back is what pays the address it is
\* reviewed for, but a conversion.
IsChange(o, from) == o.to = from /\ o.what # "conversion"

\* send.rs review, convert.rs review: `held` is what the reviewer is said to have.
Leaving(tx) ==
    CASE tx.kind = "convert" -> Carried(tx) + tx.fee
      [] OTHER -> tx.amount + tx.fee
Less(held, total) == IF held > total THEN held - total ELSE 0
Review(tx, from, held) ==
    [total |-> Leaving(tx), after |-> Less(held, Leaving(tx)), from |-> from,
     change |-> {o \in tx.outs : IsChange(o, from)}]

-----------------------------------------------------------------------------
TypeOK ==
    /\ keys \in [Label -> Key \cup {NoKey}] /\ keys[active] # NoKey
    /\ \A k \in Key : \E l \in Label : keys[l] = k
    /\ outputs \subseteq Output /\ estimate \in Estimates
    /\ job.step \in {"no", "read", "sign", "done", "short", "refused"}
    /\ job.step = "done" => job.tx.fee >= 0 /\ \A o \in job.tx.outs : o.value > 0
    /\ signed.signer \in Key \cup {NoKey} /\ review.from \in Key \cup {NoKey}

Init ==
    /\ keys \in [Label -> Key \cup {NoKey}]
    /\ \A k \in Key : Cardinality({l \in Label : keys[l] = k}) = 1
    /\ active \in {l \in Label : keys[l] # NoKey}
    /\ outputs = Output /\ estimate = Max(Estimates)
    /\ job = NoJob /\ signed = NoTx /\ review = NoReview /\ payer = NoKey

Under == job.step \in {"read", "sign", "done"}
UnchangedWorld == UNCHANGED <<keys, active, outputs, estimate>>
UnchangedShown == UNCHANGED <<signed, review, payer>>

\* prepare_send with build_on_worker's job, prepare_conversion: the label and its
\* address are taken down; the floor is that of the quote shown, which is one
\* some node gave.
Ask(d, quoted) ==
    /\ ~Under /\ payer' = keys[active] /\ signed' = NoTx /\ review' = NoReview
    /\ job' = [NoJob EXCEPT !.step = "read", !.draft = d, !.label = active,
                            !.from = keys[active],
                            !.floor = IF d.kind = "convert" THEN FloorOf(quoted) ELSE 0]
    /\ UnchangedWorld

Fails(how) == job' = [job EXCEPT !.step = how]
Planned(p) == job' = [job EXCEPT !.step = "sign", !.plan = p]

\* funding_address and, for everything, resolve_send_all; of the label's key by now.
PlanPay ==
    LET k == keys[job.label]
        all == ResolveSendAll(Values(Spendable(k)), FALSE)
    IN  IF k = NoKey THEN Fails("refused")
        ELSE IF job.draft.amount # 0 THEN Planned(job.draft.amount)
        ELSE IF all = Refused THEN Fails("short") ELSE Planned(all)

\* shield.rs plan, of the address taken down
PlanShield ==
    LET p == ShieldPlan(Values(Spendable(job.from)), job.draft.amount) IN
    IF p.inputs = Refused THEN Fails("short")
    ELSE Planned([ins |-> First(job.from, p.inputs), fee |-> p.fee, change |-> p.change])

\* convert.rs prepare before the key is opened: priced again, and the tokens read.
PlanConvert ==
    IF estimate < job.floor \/ Unusable(job.from, job.draft.of) THEN Fails("refused")
    ELSE Planned(TokenInputs(job.from, job.draft.of))

Plan ==
    /\ job.step = "read"
    /\ CASE job.draft.kind = "pay" -> PlanPay
         [] job.draft.kind = "shield" -> PlanShield
         [] job.draft.kind = "convert" -> PlanConvert
    /\ UnchangedWorld /\ UnchangedShown

\* with_key: the label's key signs what it can; a key does not sign for another's.
Signs(tx) ==
    job' = IF \A o \in tx.ins : OwnerOf[o] = tx.signer
           THEN [job EXCEPT !.step = "done", !.tx = tx] ELSE [job EXCEPT !.step = "refused"]
Sign ==
    LET k == keys[job.label]
        d == job.draft
        pay == [d EXCEPT !.amount = job.plan]
    IN  /\ job.step = "sign"
        /\ IF k = NoKey THEN Fails("refused")
           ELSE CASE d.kind = "pay" -> IF PayFits(pay, k) THEN Signs(Pay(pay, k)) ELSE Fails("short")
                  [] d.kind = "shield" -> Signs(Shield(d, job.plan, job.from, k))
                  [] d.kind = "convert" ->
                        IF ConvertFits(d, job.plan, k) THEN Signs(Convert(d, job.plan, job.from, k))
                        ELSE Fails("short")
        /\ UnchangedWorld /\ UnchangedShown

\* finish_prepare, finish_convert_prepare: reviewed for the key that is active by
\* now; a payment against what that key has, a conversion against all there is.
Finish ==
    /\ job.step = "done" /\ job' = [job EXCEPT !.step = "no"] /\ signed' = job.tx
    /\ LET from == keys[active]
           held == IF job.tx.kind = "convert" THEN UNION {NativeOf(k) : k \in Key} ELSE NativeOf(from)
       IN  review' = Review(job.tx, from, ValueSum(held))
    /\ UnchangedWorld /\ UNCHANGED payer

-----------------------------------------------------------------------------
(* What happens meanwhile *)

\* set_active_key
Select(l) ==
    /\ Steady => ~Under
    /\ keys[l] # NoKey /\ active' = l
    /\ UNCHANGED <<keys, outputs, estimate, job>> /\ UnchangedShown

\* rename_key
Rename(l, new) ==
    /\ Steady => ~Under
    /\ keys[l] # NoKey /\ keys[new] = NoKey
    /\ keys' = [keys EXCEPT ![l] = NoKey, ![new] = keys[l]]
    /\ active' = IF active = l THEN new ELSE active
    /\ UNCHANGED <<outputs, estimate, job>> /\ UnchangedShown

\* An output is spent from elsewhere, or comes in; the price moves.
Move(o) ==
    /\ Quiet /\ o \in outputs => ~Under
    /\ outputs' = IF o \in outputs THEN outputs \ {o} ELSE outputs \cup {o}
    /\ UNCHANGED <<keys, active, estimate, job>> /\ UnchangedShown
Reprice(e) ==
    /\ estimate' = e /\ UNCHANGED <<keys, active, outputs, job>> /\ UnchangedShown

Next ==
    \/ \E d \in Draft, quoted \in Estimates : Ask(d, quoted)
    \/ Plan \/ Sign \/ Finish
    \/ \E l \in Label : Select(l) \/ \E new \in Label : Rename(l, new)
    \/ \E o \in Output : Move(o)
    \/ \E e \in Estimates : Reprice(e)

Spec == Init /\ [][Next]_vars

-----------------------------------------------------------------------------
(* Properties *)

\* What goes into a transaction comes out of it or is its fee, in every currency:
\* no token disappears because it came along with another ("they would simply
\* cease to exist": token_inputs).
NothingIsDestroyed ==
    job.step = "done" =>
        /\ ValueSum(job.tx.ins) = OutSum(job.tx.outs) + job.tx.hidden + job.tx.fee
        /\ \A t \in Token :
              TokenSum(job.tx.ins, t) =
                  TokenChange(job.tx, t)
                  + (IF job.tx.kind = "convert" /\ t = job.tx.of THEN job.tx.amount ELSE 0)

\* The review's total is what the payer is poorer by, in the chain's own currency
\* (send.rs review; ConvertReviewVm::total_display), and what it calls change
\* comes back to the payer.
ReviewIsTrue ==
    signed # NoTx /\ Out(signed.signer, signed.amount, "payment") \notin signed.outs =>
        /\ review.total = ValueSum(signed.ins) - OutSum({o \in signed.outs : o.what = "change"})
        /\ review.change = {o \in signed.outs : o.what = "change"}

\* The coins that are spent are the active key's of when the payment was asked for,
\* and the review is about it ("about the key that just paid": finish_prepare).
\* Does not hold unless Steady: the worker looks the label up again, and the
\* review is of the key that is active when it is made.
PaysAsAsked == signed # NoTx => signed.signer = payer
ReviewIsOfPayer == signed # NoTx => review.from = signed.signer

\* What the chain is asked for it can do, whichever basket holds the two legs: the
\* pool is a basket and the legs are it or its reserves (kind_for, Book::route).
KindsArePossible(reserves) ==
    \A pool \in DOMAIN reserves : \A from, to \in reserves[pool] \cup {pool} :
        LET kind == KindFor(pool, from, to) IN
        from # to =>
            /\ kind.target = to /\ kind.of = pool
            /\ CASE kind.how = "into fractional" -> from \in reserves[kind.target]
                 [] kind.how = "into reserve" -> kind.target \in reserves[from]
                 [] kind.how = "reserve to reserve" -> {from, kind.target} \subseteq reserves[pool]

\* The tone is the loudest just where an estimate falls below the floor of what
\* the middle price would give (SLIPPAGE_LOUD, FLOOR_ROOM_PERMILLE).
LoudBelowFloor(most) ==
    \A k \in 1 .. most : \A expected \in 0 .. 1000 * k :
        Tone(expected, 1000 * k) = "negative" <=> expected < FloorOf(1000 * k)

\* Sending everything fails only when there is nothing to send.  Does not hold
\* unless Quiet: a coin that is spent from elsewhere between the two readings
\* leaves the amount too high ("if it does the build still succeeds":
\* build_transparent).
EverythingCanBeSent ==
    job.step = "short" /\ job.draft.kind = "pay" /\ job.draft.amount = 0 => job.plan = 0
=============================================================================
