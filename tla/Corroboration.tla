--------------------------- MODULE Corroboration ---------------------------
(* Holding the coins one node offers against what a second node knows        *)
(* (pecu-chain/src/corroborate.rs), and the payment built from what is left  *)
(* (corroborated_funding and prepare of pecu-core/src/send.rs).  The reads   *)
(* are made one after the other while both nodes index blocks, and the       *)
(* wallet's own coins come and go with those blocks.                         *)
(*                                                                           *)
(* The chain is given: when each coin is created and when it is spent.  An   *)
(* honest node answers from the blocks it has indexed; a primary that serves *)
(* another chain says whatever it likes of coins and heights and can name    *)
(* only its own blocks.  Coins are worth one each.                           *)
EXTENDS Integers, FiniteSets

CONSTANTS
    Coin,           \* the coins of the funding address on this chain
    Foreign,        \* coins of another chain
    MaxHeight,      \* bound: how far the chain grows
    CredibleLag,    \* CREDIBLE_LAG
    Spending        \* whether coins are spent while the reads are made

Height == 1 .. MaxHeight
Never == MaxHeight + 1

CorroborationAssumption ==
    /\ Coin \cap Foreign = {}
    /\ MaxHeight \in Nat \ {0}
    /\ CredibleLag \in Nat
    /\ Spending \in BOOLEAN

VARIABLES
    born, gone,     \* the chain: the blocks a coin is created and spent in
    honest,         \* whether the primary is on this chain
    primary,        \* the blocks the primary has indexed
    secondary,      \* the blocks the second source has indexed
    want,           \* how many coins the payment takes
    step,           \* what is read next
    offered,        \* the coins the primary offers, with their heights
    primaryTip, secondaryTip,
    held,           \* the coins the second source has
    withheld,       \* the offered coins it does not have
    result          \* how the preparation ended

world == <<born, gone, honest, want>>
nodes == <<primary, secondary>>
reads == <<offered, primaryTip, secondaryTip, held, withheld>>
vars == <<world, nodes, step, reads, result>>

AnyCoin == Coin \cup Foreign
Offer == [coin : AnyCoin, height : 1 .. Never]
Ended == {"built", "short", "behind", "ahead", "uncorroborated", "silent", "flow"}
Result == [kind : Ended, coins : SUBSET AnyCoin]
NotYet == [kind |-> "none", coins |-> {}]
Steps == {"coins", "tip", "secondTip", "secondCoins", "judge", "block", "build", "end"}

TypeOK ==
    /\ born \in [Coin -> Height] /\ gone \in [Coin -> 1 .. Never]
    /\ honest \in BOOLEAN
    /\ primary \in 0 .. MaxHeight /\ secondary \in 0 .. MaxHeight
    /\ want \in Nat
    /\ step \in Steps
    /\ offered \subseteq Offer
    /\ primaryTip \in 0 .. Never /\ secondaryTip \in 0 .. MaxHeight
    /\ held \subseteq AnyCoin /\ withheld \subseteq AnyCoin
    /\ result \in Result \cup {NotYet}
    /\ result # NotYet <=> step = "end"

Init ==
    /\ born \in [Coin -> Height]
    /\ gone \in {g \in [Coin -> 1 .. Never] :
                    \A c \in Coin : g[c] > born[c] /\ (~Spending => g[c] = Never)}
    /\ honest \in BOOLEAN
    /\ primary \in 0 .. MaxHeight /\ secondary \in 0 .. MaxHeight
    /\ want \in 1 .. Cardinality(AnyCoin)
    /\ step = "coins"
    /\ offered = {}
    /\ primaryTip = 0 /\ secondaryTip = 0
    /\ held = {} /\ withheld = {}
    /\ result = NotYet

\* address_utxos: confirmed outputs only.
CoinsAt(h) == {c \in Coin : born[c] <= h /\ h < gone[c]}
CoinsOf(offers) == {o.coin : o \in offers}

Offers ==
    IF honest
    THEN {{[coin |-> c, height |-> born[c]] : c \in CoinsAt(primary)}}
    ELSE {{[coin |-> c, height |-> f[c]] : c \in DOMAIN f} :
              f \in UNION {[S -> 1 .. Never] : S \in SUBSET AnyCoin}}

-----------------------------------------------------------------------------
(* The rules *)

\* out_of_step: the two nodes being at different heights accounts for a coin the
\* second source does not have.
OutOfStep(height) ==
    /\ height <= primaryTip
    /\ \/ height > secondaryTip /\ height - secondaryTip <= CredibleLag
       \/ height <= secondaryTip /\ secondaryTip > primaryTip

Missing == {o \in offered : o.coin \notin held}
Unexplained == {o \in Missing : ~OutOfStep(o.height)}

\* same_chain: the block at the lower of the two tips.
SameBlock == honest

\* Mutant: everything offered is allowed.
AgreedOutpointsAll == CoinsOf(offered)

\* agreed_outpoints
AgreedOutpoints == CoinsOf(offered) \ withheld

\* OutOfStep::refusal: which of the two is to be waited for.
Refusal == IF secondaryTip < primaryTip THEN "behind" ELSE "ahead"

End(kind, coins) ==
    /\ step' = "end"
    /\ result' = [kind |-> kind, coins |-> coins]

\* The order of the reads.
NextStep(s) ==
    [coins |-> "tip", tip |-> "secondTip", secondTip |-> "secondCoins",
     secondCoins |-> "judge"][s]

-----------------------------------------------------------------------------
(* The reads *)

\* corroborated_funding: what the funding node offers, and from which height.
\* Without an offer there is nothing to ask the second source.
ReadCoins ==
    /\ step = "coins"
    /\ offered' \in Offers
    /\ step' = NextStep(step)
    /\ UNCHANGED <<world, nodes, primaryTip, secondaryTip, held, withheld, result>>

ReadTip ==
    /\ step = "tip"
    /\ primaryTip' \in IF honest THEN {primary} ELSE 0 .. Never
    /\ step' = IF offered = {} THEN "build" ELSE NextStep(step)
    /\ UNCHANGED <<world, nodes, offered, secondaryTip, held, withheld, result>>

\* against: the second source's tip, and then its coins.
ReadSecondTip ==
    /\ step = "secondTip"
    /\ secondaryTip' = secondary
    /\ step' = NextStep(step)
    /\ UNCHANGED <<world, nodes, offered, primaryTip, held, withheld, result>>

ReadSecondCoins ==
    /\ step = "secondCoins"
    /\ held' = CoinsAt(secondary)
    /\ step' = NextStep(step)
    /\ UNCHANGED <<world, nodes, offered, primaryTip, secondaryTip, withheld, result>>

\* A node that does not answer.
Silent ==
    /\ \/ step \in {"coins", "tip", "block", "build"} /\ End("flow", {})
       \/ step \in {"secondTip", "secondCoins", "block"} /\ End("silent", {})
    /\ UNCHANGED <<world, nodes, reads>>

\* against: nothing missing, something the heights do not explain, or one more
\* question.
Judge ==
    /\ step = "judge"
    /\ withheld' = CoinsOf(Missing)
    /\ IF Missing = {} THEN step' = "build" /\ UNCHANGED result
       ELSE IF Unexplained # {} THEN End("uncorroborated", {})
       ELSE step' = "block" /\ UNCHANGED result
    /\ UNCHANGED <<world, nodes, offered, primaryTip, secondaryTip, held>>

\* same_chain, and what corroborated_funding does with the verdict: the coins
\* both have, if there are any.
SharedBlock ==
    /\ step = "block"
    /\ IF ~SameBlock THEN End("uncorroborated", {})
       ELSE IF withheld = CoinsOf(offered) THEN End(Refusal, {})
       ELSE step' = "build" /\ UNCHANGED result
    /\ UNCHANGED <<world, nodes, reads>>

\* prepare: the coins are read once more, through the filter, and the payment
\* is built or falls short; a shortfall beside withheld coins is put down to
\* them (shortfall).
Build ==
    /\ step = "build"
    /\ \E offers \in Offers :
        LET usable == CoinsOf(offers) \cap AgreedOutpoints
        IN  IF Cardinality(usable) >= want
            THEN \E S \in SUBSET usable : Cardinality(S) = want /\ End("built", S)
            ELSE End(IF withheld = {} THEN "short" ELSE Refusal, {})
    /\ UNCHANGED <<world, nodes, reads>>

\* A node indexes the next block.
Index ==
    /\ \/ primary < MaxHeight /\ primary' = primary + 1 /\ UNCHANGED secondary
       \/ secondary < MaxHeight /\ secondary' = secondary + 1 /\ UNCHANGED primary
    /\ UNCHANGED <<world, step, reads, result>>

Read == ReadCoins \/ ReadTip \/ ReadSecondTip \/ ReadSecondCoins

Next ==
    \/ Read
    \/ Silent
    \/ Judge
    \/ SharedBlock
    \/ Build
    \/ Index

Spec == Init /\ [][Next]_vars

-----------------------------------------------------------------------------
(* Properties *)

\* "What a chosen height cannot buy ... is a wider allowed set": whatever the
\* funding node says, and says again while the payment is built, nothing is
\* spent that the second source did not name (Corroborated::address_utxos).
SpendsOnlyVouched == result.kind = "built" => result.coins \subseteq held

\* "Two nodes on different chains cannot, however they number things": a node
\* that offers coins of another chain is refused, and never put down to lag
\* (against, rule 4).
ForeignIsRefused ==
    (~honest /\ CoinsOf(offered) \cap Foreign # {}) =>
        result.kind \in {"none", "uncorroborated", "silent", "flow"}

\* Two honest nodes on one chain are never said to be on two, unless one is
\* further behind than CREDIBLE_LAG (against, "The tip first and the coins
\* after").
\* Does not hold if Spending: a coin spent by a block that the second node
\* takes in between its tip and its coins is missing.
HonestNotAccused ==
    (honest /\ result.kind = "uncorroborated") =>
        \E o \in Missing : o.height - secondaryTip > CredibleLag

\* A payment that the coins both nodes have can fund is not refused for want of
\* coins ("refusing outright would punish the commonest honest state").
RefusedOnlyIfShort ==
    (honest /\ result.kind \in {"short", "behind", "ahead"}) =>
        Cardinality(CoinsOf(offered) \cap held) < want
=============================================================================
