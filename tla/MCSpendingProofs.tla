-------------------------- MODULE MCSpendingProofs --------------------------
(* Properties of the run Spending as theorems: the coins two nodes vouch for, *)
(* the launches, the reviews and the notes of one account.                    *)
(*                                                                            *)
(* A behaviour is that of one part, so an invariant is one implication for    *)
(* each part it is about, and PartStep gives each part its own step.          *)
EXTENDS MCSpending, FiniteSetTheorems, TLAPS

\* A step is one of the part whose behaviour it is.
LEMMA PartStep ==
    ASSUME [Next]_vars
    PROVE  /\ part' = part
           /\ part = "coins" => [C!Next]_(C!vars)
           /\ part = "review" => [R!Next]_(R!vars)
           /\ part = "notes" => [O!Next]_(O!vars)
           /\ part = "launch" => [L!Next]_(L!vars)
<1>1. CASE UNCHANGED vars
  BY <1>1 DEF vars, slots, C!vars, C!world, C!nodes, C!reads, R!vars, O!vars, L!vars
<1>2. CASE Next
  BY <1>2 DEF Next
<1> QED
  BY <1>1, <1>2

\* A behaviour starts as that part does.
LEMMA PartInit ==
    ASSUME Init
    PROVE  /\ part = "coins" => C!Init
           /\ part = "review" => R!Init
           /\ part = "notes" => O!Init
           /\ part = "launch" => L!Init
  BY DEF Init

-----------------------------------------------------------------------------
(* The coins two nodes vouch for *)

\* Corroboration counts as this module does.
LEMMA SameCardinality == \A set : C!Cardinality(set) = Cardinality(set)
  BY DEF C!Cardinality, Cardinality

\* What a preparation knows: types, and that no coin is spent meanwhile.
CoinsTyped ==
    /\ s1 \in [Coins -> C!Height] /\ \A c \in Coins : s2[c] = C!Never
    /\ s3 \in BOOLEAN /\ s4 \in 0 .. TopHeight /\ s5 \in 0 .. TopHeight
    /\ s6 \in Nat \ {0} /\ s7 \in C!Steps /\ s8 \subseteq C!Offer
    /\ s9 \in Nat /\ s10 \in 0 .. s5 /\ s11 \subseteq Coins
    /\ s13.kind = "none" <=> s7 # "end"

\* An honest node offers what it has indexed, and is asked for its tip after it.
HonestOffer ==
    s3 => \A o \in s8 :
        /\ o.coin \in Coins /\ o.height = s1[o.coin] /\ o.height <= s4
        /\ s7 \notin {"coins", "tip", "end"} => o.height <= s9

\* The second node is asked for its coins after its tip: what it lacks is newer.
SecondLacks == s7 = "judge" => \A c \in Coins \ s11 : s1[c] > s10

\* What is withheld is what the second node lacks, from the moment it is judged.
Withholds ==
    s7 \in {"block", "build"} =>
        \A o \in s8 : o.coin \in s12 <=> o.coin \notin s11

\* A node of another chain that was caught never gets as far as the build.
ForeignStops == s7 = "build" /\ ~s3 => \A o \in s8 : o.coin \notin Others

Vouched ==
    /\ C!SpendsOnlyVouched /\ C!ForeignIsRefused /\ C!HonestNotAccused /\ C!RefusedOnlyIfShort
CoinsInv ==
    CoinsTyped /\ HonestOffer /\ SecondLacks /\ Withholds /\ ForeignStops /\ Vouched

\* What the constants are.
LEMMA CoinsConstants ==
    /\ Coins \cap Others = {} /\ TopHeight \in Nat \ {0} /\ Lag \in Nat
    /\ IsFiniteSet(Coins) /\ IsFiniteSet(Others) /\ C!Never = TopHeight + 1
    /\ C!Never \in Nat /\ C!Height \subseteq Nat
  BY SpendingAssumption DEF C!CorroborationAssumption, C!Never, C!Height

\* Before the first question nothing is offered, and some coin is wanted.
LEMMA CoinsInit == ASSUME C!Init PROVE CoinsInv
<1>1. s7 = "coins" /\ s8 = {} /\ s9 = 0 /\ s10 = 0 /\ s11 = {} /\ s12 = {} /\ s13 = C!NotYet
      /\ s3 \in BOOLEAN /\ s4 \in 0 .. TopHeight /\ s5 \in 0 .. TopHeight
  BY DEF C!Init
<1>2. s1 \in [Coins -> C!Height] /\ \A c \in Coins : s2[c] = C!Never
  BY CoinsConstants DEF C!Init
<1>3. s6 \in Nat \ {0}
  <2>1. IsFiniteSet(Coins \cup Others)
    BY CoinsConstants, FS_Union
  <2>2. Cardinality(C!AnyCoin) \in Nat
    BY <2>1, FS_CardinalityType DEF C!AnyCoin
  <2>3. s6 \in 1 .. C!Cardinality(C!AnyCoin)
    BY DEF C!Init
  <2> QED
    BY <2>2, <2>3, SameCardinality
<1>4. CoinsTyped
  BY <1>1, <1>2, <1>3 DEF CoinsTyped, C!Steps, C!NotYet
<1>5. Vouched
  BY <1>1 DEF Vouched, C!SpendsOnlyVouched, C!ForeignIsRefused, C!HonestNotAccused,
              C!RefusedOnlyIfShort, C!NotYet
<1> QED
  BY <1>1, <1>4, <1>5 DEF CoinsInv, HonestOffer, SecondLacks, Withholds, ForeignStops

\* The coin of an offer, and what a step leaves of what was asked.
LEMMA CoinsOfIs == \A offers, c : c \in C!CoinsOf(offers) <=> \E o \in offers : o.coin = c
  BY DEF C!CoinsOf

\* A node at a height names the coins of the chain that are as old.
LEMMA CoinsAtIs ==
    ASSUME CoinsTyped, NEW h \in 0 .. TopHeight
    PROVE  C!CoinsAt(h) = {c \in Coins : s1[c] <= h}
<1>1. \A c \in Coins : h < s2[c]
  <2>1. \A c \in Coins : s2[c] = TopHeight + 1
    BY CoinsConstants DEF CoinsTyped
  <2>2. h < TopHeight + 1
    BY CoinsConstants
  <2> QED
    BY <2>1, <2>2
<1> QED
  BY <1>1 DEF C!CoinsAt

\* What is compared are natural numbers.
LEMMA CoinsNumbers ==
    ASSUME CoinsTyped
    PROVE  /\ s4 \in Nat /\ s5 \in Nat /\ s6 \in Nat /\ s10 \in Nat /\ s10 <= s5
           /\ \A c \in Coins : s1[c] \in Nat
<1>1. \A c \in Coins : s1[c] \in C!Height
  BY DEF CoinsTyped
<1>2. s4 \in 0 .. TopHeight /\ s5 \in 0 .. TopHeight /\ s10 \in 0 .. s5 /\ s6 \in Nat
  BY DEF CoinsTyped
<1>3. TopHeight \in Nat
  BY CoinsConstants
<1>4. s4 \in Nat /\ s5 \in Nat
  BY <1>2, <1>3
<1>5. s10 \in Nat /\ s10 <= s5
  BY <1>2, <1>4
<1>6. \A c \in Coins : s1[c] \in Nat
  BY <1>1, CoinsConstants
<1> QED
  BY <1>2, <1>4, <1>5, <1>6

\* A preparation that has not ended has kept its word.
LEMMA NotEnded == s13'.kind = "none" => Vouched'
  BY DEF Vouched, C!SpendsOnlyVouched, C!ForeignIsRefused, C!HonestNotAccused,
         C!RefusedOnlyIfShort

\* The first questions, to the funding node.
LEMMA CoinsRead ==
    ASSUME CoinsInv, C!ReadCoins
    PROVE  CoinsInv'
<1>1. /\ s7 = "coins" /\ s7' = "tip" /\ s13.kind = "none" /\ s8' \in C!Offers
      /\ s1' = s1 /\ s2' = s2 /\ s3' = s3 /\ s4' = s4 /\ s5' = s5 /\ s6' = s6
      /\ s9' = s9 /\ s10' = s10 /\ s11' = s11 /\ s12' = s12 /\ s13' = s13
  BY DEF C!ReadCoins, C!world, C!nodes, C!NextStep, CoinsInv, CoinsTyped
<1>2. s3 => \A o \in s8' : o.coin \in Coins /\ o.height = s1[o.coin] /\ o.height <= s4
  BY <1>1, CoinsAtIs DEF C!Offers, CoinsInv, CoinsTyped
<1>3. s8' \subseteq C!Offer
  <2>1. CASE s3
    <3>1. \A c \in C!CoinsAt(s4) : c \in C!AnyCoin /\ s1[c] \in 1 .. C!Never
      BY CoinsConstants DEF CoinsInv, CoinsTyped, C!CoinsAt, C!AnyCoin, C!Height
    <3> QED
      BY <2>1, <1>1, <3>1 DEF C!Offers, C!Offer
  <2>2. CASE ~s3
    BY <2>2, <1>1 DEF C!Offers, C!Offer
  <2> QED
    BY <2>1, <2>2
<1>4. Vouched' /\ CoinsTyped'
  BY <1>1, <1>3, NotEnded DEF CoinsInv, CoinsTyped, C!Steps
<1> QED
  BY <1>1, <1>2, <1>4
  DEF CoinsInv, HonestOffer, SecondLacks, Withholds, ForeignStops

\* The tip of the funding node; one that offered nothing is asked nothing more.
LEMMA TipRead ==
    ASSUME CoinsInv, C!ReadTip
    PROVE  CoinsInv'
<1>1. /\ s7 = "tip" /\ s13.kind = "none"
      /\ s7' = (IF s8 = {} THEN "build" ELSE "secondTip")
      /\ s9' \in (IF s3 THEN {s4} ELSE 0 .. C!Never)
      /\ s1' = s1 /\ s2' = s2 /\ s3' = s3 /\ s4' = s4 /\ s5' = s5 /\ s6' = s6
      /\ s8' = s8 /\ s10' = s10 /\ s11' = s11 /\ s12' = s12 /\ s13' = s13
  BY DEF C!ReadTip, C!world, C!nodes, C!NextStep, CoinsInv, CoinsTyped
<1>2. s9' \in Nat /\ (s3 => s9' = s4)
  BY <1>1, CoinsConstants DEF CoinsInv, CoinsTyped
<1>3. Vouched' /\ CoinsTyped'
  BY <1>1, <1>2, NotEnded DEF CoinsInv, CoinsTyped, C!Steps
<1>4. HonestOffer'
  BY <1>1, <1>2 DEF CoinsInv, HonestOffer
<1> QED
  BY <1>1, <1>3, <1>4 DEF CoinsInv, SecondLacks, Withholds, ForeignStops

\* The two to the second node.
LEMMA SecondTipRead ==
    ASSUME CoinsInv, C!ReadSecondTip
    PROVE  CoinsInv'
<1>1. /\ s7 = "secondTip" /\ s13.kind = "none" /\ s7' = "secondCoins" /\ s10' = s5
      /\ s1' = s1 /\ s2' = s2 /\ s3' = s3 /\ s4' = s4 /\ s5' = s5 /\ s6' = s6
      /\ s8' = s8 /\ s9' = s9 /\ s11' = s11 /\ s12' = s12 /\ s13' = s13
  BY DEF C!ReadSecondTip, C!world, C!nodes, C!NextStep, CoinsInv, CoinsTyped
<1>2. Vouched' /\ CoinsTyped'
  BY <1>1, NotEnded, CoinsConstants DEF CoinsInv, CoinsTyped, C!Steps
<1> QED
  BY <1>1, <1>2 DEF CoinsInv, HonestOffer, SecondLacks, Withholds, ForeignStops

\* The second node names what its chain has at its tip.
LEMMA SecondCoinsRead ==
    ASSUME CoinsInv, C!ReadSecondCoins
    PROVE  CoinsInv'
<1>1. /\ s7 = "secondCoins" /\ s13.kind = "none" /\ s7' = "judge" /\ s11' = C!CoinsAt(s5)
      /\ s1' = s1 /\ s2' = s2 /\ s3' = s3 /\ s4' = s4 /\ s5' = s5 /\ s6' = s6
      /\ s8' = s8 /\ s9' = s9 /\ s10' = s10 /\ s12' = s12 /\ s13' = s13
  BY DEF C!ReadSecondCoins, C!world, C!nodes, C!NextStep, CoinsInv, CoinsTyped
<1>2. s11' = {c \in Coins : s1[c] <= s5}
  BY <1>1, CoinsAtIs DEF CoinsInv, CoinsTyped
<1>3. Vouched' /\ CoinsTyped'
  BY <1>1, <1>2, NotEnded DEF CoinsInv, CoinsTyped, C!Steps
<1>4. SecondLacks'
  <2>1. s5 \in Nat /\ s10 \in Nat /\ s10 <= s5 /\ \A c \in Coins : s1[c] \in Nat
    BY CoinsNumbers DEF CoinsInv
  <2> QED
    BY <1>1, <1>2, <2>1 DEF SecondLacks
<1> QED
  BY <1>1, <1>3, <1>4 DEF CoinsInv, HonestOffer, Withholds, ForeignStops

\* A node that does not answer ends the preparation.
LEMMA NodeSilent ==
    ASSUME CoinsInv, C!Silent
    PROVE  CoinsInv'
<1>1. /\ s7' = "end" /\ s13'.kind \in {"flow", "silent"} /\ s3' = s3
      /\ s1' = s1 /\ s2' = s2 /\ s4' = s4 /\ s5' = s5 /\ s6' = s6
      /\ s8' = s8 /\ s9' = s9 /\ s10' = s10 /\ s11' = s11 /\ s12' = s12
  BY DEF C!Silent, C!End, C!world, C!nodes, C!reads
<1>2. CoinsTyped'
  BY <1>1 DEF CoinsInv, CoinsTyped, C!Steps
<1>3. Vouched'
  BY <1>1 DEF Vouched, C!SpendsOnlyVouched, C!ForeignIsRefused, C!HonestNotAccused,
              C!RefusedOnlyIfShort
<1> QED
  BY <1>1, <1>2, <1>3 DEF CoinsInv, HonestOffer, SecondLacks, Withholds, ForeignStops

\* What one more block on a node changes of it.
LEMMA NodeIndexes ==
    ASSUME CoinsInv, C!Index
    PROVE  CoinsInv'
<1>1. /\ s7' = s7 /\ s13' = s13 /\ s1' = s1 /\ s2' = s2 /\ s3' = s3 /\ s6' = s6
      /\ s8' = s8 /\ s9' = s9 /\ s10' = s10 /\ s11' = s11 /\ s12' = s12
      /\ \/ s4 < TopHeight /\ s4' = s4 + 1 /\ s5' = s5
         \/ s5 < TopHeight /\ s5' = s5 + 1 /\ s4' = s4
  BY DEF C!Index, C!world, C!reads
<1>2. s4' \in 0 .. TopHeight /\ s5' \in 0 .. TopHeight /\ s4 <= s4' /\ s5 <= s5'
  BY <1>1, CoinsConstants DEF CoinsInv, CoinsTyped
<1>3. CoinsTyped'
  BY <1>1, <1>2, CoinsConstants DEF CoinsInv, CoinsTyped
<1>4. HonestOffer'
  <2>1. \A o \in s8 : o.height \in Nat
    BY CoinsConstants DEF CoinsInv, CoinsTyped, C!Offer
  <2> QED
    BY <1>1, <1>2, <2>1, CoinsConstants DEF CoinsInv, CoinsTyped, HonestOffer
<1>5. Vouched'
  BY <1>1 DEF CoinsInv, Vouched, C!SpendsOnlyVouched, C!ForeignIsRefused, C!HonestNotAccused,
              C!RefusedOnlyIfShort, C!Missing
<1> QED
  BY <1>1, <1>3, <1>4, <1>5 DEF CoinsInv, SecondLacks, Withholds, ForeignStops

\* The verdict: nothing missing, something the heights do not explain, or one more
\* question.
LEMMA Judged ==
    ASSUME CoinsInv, C!Judge
    PROVE  CoinsInv'
<1> DEFINE unexplained == C!Missing # {} /\ C!Unexplained # {}
<1>1. /\ s7 = "judge" /\ s13.kind = "none" /\ s12' = C!CoinsOf(C!Missing)
      /\ s1' = s1 /\ s2' = s2 /\ s3' = s3 /\ s4' = s4 /\ s5' = s5 /\ s6' = s6
      /\ s8' = s8 /\ s9' = s9 /\ s10' = s10 /\ s11' = s11
      /\ \/ s7' = "build" /\ C!Missing = {} /\ s13' = s13
         \/ s7' = "block" /\ C!Missing # {} /\ s13' = s13
         \/ s7' = "end" /\ s13' = [kind |-> "uncorroborated", coins |-> {}] /\ unexplained
  BY DEF C!Judge, C!End, C!world, C!nodes, CoinsInv, CoinsTyped
<1> HIDE DEF unexplained
<1>2. CoinsTyped'
  BY <1>1 DEF CoinsInv, CoinsTyped, C!Steps
<1>3. HonestOffer' /\ SecondLacks'
  BY <1>1 DEF CoinsInv, HonestOffer, SecondLacks
<1>4. Withholds'
  BY <1>1, CoinsOfIs DEF Withholds, C!Missing
<1>5. ForeignStops'
  BY <1>1, CoinsConstants DEF ForeignStops, CoinsInv, CoinsTyped, C!Missing
<1>6. Vouched'
  <2>1. CASE s7' # "end"
    BY <1>1, <2>1, NotEnded
  <2>2. CASE s7' = "end"
    <3>1. s13'.kind = "uncorroborated" /\ unexplained
      BY <1>1, <2>2
    <3>2. ASSUME s3 PROVE \E o \in C!Missing : o.height - s10 > Lag
      <4>1. PICK o \in C!Missing : ~C!OutOfStep(o.height)
        BY <3>1 DEF unexplained, C!Unexplained
      <4>2. /\ o \in s8 /\ o.coin \in Coins \ s11 /\ o.height = s1[o.coin] /\ o.height <= s9
            /\ s1[o.coin] > s10
        BY <4>1, <3>2, <1>1 DEF CoinsInv, HonestOffer, SecondLacks, C!Missing
      <4>3. s1[o.coin] \in Nat /\ s10 \in Nat
        BY <4>2, CoinsNumbers DEF CoinsInv
      <4> QED
        BY <4>1, <4>2, <4>3, CoinsConstants DEF C!OutOfStep
    <3>3. C!Missing' = C!Missing
      BY <1>1 DEF C!Missing
    <3> QED
      BY <1>1, <3>1, <3>2, <3>3
      DEF Vouched, C!SpendsOnlyVouched, C!ForeignIsRefused, C!HonestNotAccused,
          C!RefusedOnlyIfShort
  <2> QED
    BY <2>1, <2>2
<1> QED
  BY <1>2, <1>3, <1>4, <1>5, <1>6 DEF CoinsInv

\* Among the coins that both have, none is the fewest.
LEMMA NoneIsShort ==
    ASSUME CoinsTyped, C!CoinsOf(s8) \cap s11 = {}
    PROVE  C!Cardinality(C!CoinsOf(s8) \cap s11) < s6
<1>1. Cardinality({}) = 0 /\ s6 \in Nat /\ s6 > 0
  BY FS_EmptySet DEF CoinsTyped
<1> QED
  BY <1>1, SameCardinality

\* The block at the lower tip: two chains, nothing in common, or what is.
LEMMA BlockShared ==
    ASSUME CoinsInv, C!SharedBlock
    PROVE  CoinsInv'
<1>1. /\ s7 = "block" /\ s13.kind = "none"
      /\ s1' = s1 /\ s2' = s2 /\ s3' = s3 /\ s4' = s4 /\ s5' = s5 /\ s6' = s6
      /\ s8' = s8 /\ s9' = s9 /\ s10' = s10 /\ s11' = s11 /\ s12' = s12
      /\ \/ s7' = "build" /\ s3 /\ s13' = s13
         \/ s7' = "end" /\ ~s3 /\ s13' = [kind |-> "uncorroborated", coins |-> {}]
         \/ s7' = "end" /\ s3 /\ s12 = C!CoinsOf(s8) /\ s13' = [kind |-> C!Refusal, coins |-> {}]
  BY DEF C!SharedBlock, C!SameBlock, C!End, C!world, C!nodes, C!reads, CoinsInv, CoinsTyped
<1>2. C!Refusal \in {"behind", "ahead"}
  BY DEF C!Refusal
<1>3. CoinsTyped'
  BY <1>1, <1>2 DEF CoinsInv, CoinsTyped, C!Steps
<1>4. HonestOffer' /\ SecondLacks' /\ Withholds' /\ ForeignStops'
  BY <1>1 DEF CoinsInv, HonestOffer, SecondLacks, Withholds, ForeignStops
<1>5. Vouched'
  <2>1. CASE s7' = "build"
    BY <1>1, <2>1, NotEnded
  <2>2. CASE s7' = "end" /\ ~s3
    BY <1>1, <2>2 DEF Vouched, C!SpendsOnlyVouched, C!ForeignIsRefused, C!HonestNotAccused,
                      C!RefusedOnlyIfShort
  <2>3. CASE s7' = "end" /\ s3
    <3>1. s12 = C!CoinsOf(s8) /\ s13'.kind \in {"behind", "ahead"}
      BY <1>1, <1>2, <2>3
    <3>2. C!CoinsOf(s8) \cap s11 = {}
      BY <3>1, <1>1, CoinsOfIs DEF CoinsInv, Withholds
    <3>3. C!Cardinality(C!CoinsOf(s8) \cap s11) < s6
      BY <3>2, NoneIsShort DEF CoinsInv
    <3> QED
      BY <1>1, <2>3, <3>1, <3>3
      DEF Vouched, C!SpendsOnlyVouched, C!ForeignIsRefused, C!HonestNotAccused,
          C!RefusedOnlyIfShort
  <2> QED
    BY <1>1, <2>1, <2>2, <2>3
<1> QED
  BY <1>3, <1>4, <1>5 DEF CoinsInv

\* The build takes from what is offered again only what was agreed; an honest node
\* still offers all that it did.
LEMMA CoinsBuilt ==
    ASSUME CoinsInv, C!Build
    PROVE  CoinsInv'
<1> DEFINE usable(offers) == C!CoinsOf(offers) \cap C!AgreedOutpoints
           both == C!CoinsOf(s8) \cap s11
<1>1. /\ s7 = "build" /\ s7' = "end"
      /\ s1' = s1 /\ s2' = s2 /\ s3' = s3 /\ s4' = s4 /\ s5' = s5 /\ s6' = s6
      /\ s8' = s8 /\ s9' = s9 /\ s10' = s10 /\ s11' = s11 /\ s12' = s12
  BY DEF C!Build, C!End, C!world, C!nodes, C!reads
<1>2. PICK offers \in C!Offers :
        IF C!Cardinality(usable(offers)) >= s6
        THEN \E some \in SUBSET usable(offers) : C!Cardinality(some) = s6 /\ C!End("built", some)
        ELSE C!End(IF s12 = {} THEN "short" ELSE C!Refusal, {})
  BY DEF C!Build
<1> HIDE DEF usable
<1>3. C!AgreedOutpoints = both
  BY <1>1, CoinsOfIs DEF C!AgreedOutpoints, CoinsInv, Withholds
<1>4. \/ \E some \in SUBSET usable(offers) : s13' = [kind |-> "built", coins |-> some]
      \/ /\ s13'.kind \in {"short", "behind", "ahead"}
         /\ ~(C!Cardinality(usable(offers)) >= s6)
  BY <1>2 DEF C!End, C!Refusal
<1>9. s13'.kind \in {"built", "short", "behind", "ahead"}
  BY <1>4
<1>5. CoinsTyped'
  BY <1>1, <1>9 DEF CoinsInv, CoinsTyped, C!Steps
<1>6. C!SpendsOnlyVouched'
  BY <1>1, <1>3, <1>4 DEF C!SpendsOnlyVouched, usable
<1>7. C!ForeignIsRefused' /\ C!HonestNotAccused'
  BY <1>1, <1>9, CoinsOfIs DEF C!ForeignIsRefused, C!HonestNotAccused, CoinsInv, ForeignStops
<1>8. C!RefusedOnlyIfShort'
  <2> SUFFICES ASSUME s3, s13'.kind \in {"short", "behind", "ahead"}
               PROVE  C!Cardinality(both) < s6
    BY <1>1 DEF C!RefusedOnlyIfShort
  <2>1. C!CoinsOf(s8) \subseteq C!CoinsOf(offers)
    <3>1. \A o \in s8 : o.coin \in C!CoinsAt(s4)
      BY <1>1, CoinsAtIs DEF CoinsInv, CoinsTyped, HonestOffer
    <3>2. offers = {[coin |-> c, height |-> s1[c]] : c \in C!CoinsAt(s4)}
      BY DEF C!Offers
    <3>3. \A c \in C!CoinsAt(s4) : \E o \in offers : o.coin = c
      <4>1. \A c \in C!CoinsAt(s4) : [coin |-> c, height |-> s1[c]] \in offers
        BY <3>2
      <4> QED
        BY <4>1
    <3> QED
      BY <3>1, <3>3, CoinsOfIs
  <2>2. usable(offers) = both
    BY <1>3, <2>1 DEF usable
  <2>3. ~(Cardinality(both) >= s6)
    <3>1. ~(C!Cardinality(usable(offers)) >= s6)
      BY <1>4
    <3>2. C!Cardinality(usable(offers)) = Cardinality(both)
      BY <2>2, SameCardinality
    <3> HIDE DEF both
    <3> QED
      BY <3>1, <3>2
  <2>4. IsFiniteSet(both)
    <3>1. both \subseteq Coins
      BY DEF CoinsInv, CoinsTyped
    <3> QED
      BY <3>1, CoinsConstants, FS_Subset
  <2>5. Cardinality(both) \in Nat /\ s6 \in Nat
    BY <2>4, FS_CardinalityType DEF CoinsInv, CoinsTyped
  <2> QED
    BY <2>3, <2>5, SameCardinality
<1> QED
  BY <1>1, <1>5, <1>6, <1>7, <1>8
  DEF CoinsInv, Vouched, HonestOffer, SecondLacks, Withholds, ForeignStops

LEMMA CoinsStep == CoinsInv /\ [C!Next]_(C!vars) => CoinsInv'
<1>1. ASSUME CoinsInv, UNCHANGED C!vars PROVE CoinsInv'
  BY <1>1 DEF C!vars, C!world, C!nodes, C!reads, CoinsInv, CoinsTyped, HonestOffer, SecondLacks,
              Withholds, ForeignStops, Vouched, C!SpendsOnlyVouched, C!ForeignIsRefused,
              C!HonestNotAccused, C!RefusedOnlyIfShort, C!Missing
<1> QED
  BY <1>1, CoinsRead, TipRead, SecondTipRead, SecondCoinsRead, NodeSilent, NodeIndexes, Judged,
     BlockShared, CoinsBuilt DEF C!Next, C!Read

\* "What a chosen height cannot buy is a wider allowed set" (Corroborated): for
\* any coins, heights and lag, whatever the funding node says, no coin is spent that
\* the second node did not name, coins of another chain stop the payment, and an
\* honest node is neither called dishonest nor short of what both have.
THEOREM OnlyVouchedIsSpent == Spec => []SpendsOnlyVouched
<1> DEFINE Inv == part = "coins" => CoinsInv
<1>1. Init => Inv
  BY PartInit, CoinsInit
<1>2. Inv /\ [Next]_vars => Inv'
  BY PartStep, CoinsStep
<1>3. Inv => SpendsOnlyVouched
  BY DEF CoinsInv, Vouched, SpendsOnlyVouched
<1> QED
  BY <1>1, <1>2, <1>3, PTL DEF Spec
-----------------------------------------------------------------------------
(* The launches of one chain *)

\* A claim whose salt and step the wallet holds, and one whose name has landed.
Held(c, step) == s3.mem = [pending |-> c, step |-> step]
Landed(c) == c \in Claims /\ s11[c] = "registered"

\* A definition is of the name it is under, and of the launch that waits.
RightName(v) ==
    /\ v.name = NameOf[v.under]
    /\ L!LaunchInProgress => s7.record.name = v.name

\* A step of a registration is of the claim that is held, or comes too late for a
\* name that has landed; the launch that waits, waits for that claim's name.
JobFits(j) ==
    /\ j.kind = "reserve" =>
          ~L!InProgress /\ (L!LaunchInProgress => s7.record.name = NameOf[j.claim])
    /\ j.kind = "commit" => Held(j.claim, "reserved")
    /\ j.kind \in {"poll", "register"} => Held(j.claim, "committed") \/ Landed(j.claim)
    /\ j.kind = "register" /\ j.answer = "ok" => Held(j.claim, "committed") /\ Landed(j.claim)
    /\ j.kind \in {"prepare", "send"} => RightName(j.review)
    /\ j.kind = "send" /\ j.answer = "ok" => j.review.under \in s12
JobsFit ==
    /\ \A j \in s10 : JobFits(j)
    /\ \A j, k \in s10 :
          j.kind \in {"reserve", "commit"} /\ k.kind \in {"reserve", "commit"} => j = k

\* Files say what memory does, on the one chain there is.
FilesSay ==
    s1 = c1 /\ s3.mem = s3.file /\ s7.home = c1 /\ s8[c1] = s7.record

ReadyFits == s5 # NoClaim => Held(s5, "committed") \/ Landed(s5)
IntentFits ==
    /\ L!LaunchInProgress /\ L!InProgress => s7.record.name = NameOf[s3.mem.pending]
    /\ s7.record.step = "ready_to_define" =>
          \E c \in Claims : NameOf[c] = s7.record.name /\ Landed(c)

\* A name that waits for a currency is that of the launch, or has one.
WantedFits ==
    \A c \in s13 \ s14 : s7.record.name = NameOf[c] \/ \E d \in s12 : NameOf[d] = NameOf[c]

LaunchTyped ==
    /\ s2 \in Keys /\ s3 \in L!Reservation /\ s4 \in [{c1} -> L!Record \cup {L!NoRecord}]
    /\ s5 \in Claims \cup {NoClaim} /\ s6 \in BOOLEAN
    /\ s7 \in [record : L!Wish \cup {L!NoWish}, home : {c1}]
    /\ s8 \in [{c1} -> L!Wish \cup {L!NoWish}]
    /\ s9 \subseteq L!Review /\ s10 \subseteq L!NameJob \cup L!LaunchJob
    /\ s11 \in [Claims -> L!Fate] /\ s12 \subseteq Claims /\ s13 \subseteq Claims
    /\ s14 \subseteq Claims /\ s15 \in 0 .. Restarts
ReviewsFit == \A v \in s9 : RightName(v)

LaunchInv ==
    /\ LaunchTyped /\ FilesSay /\ JobsFit /\ ReviewsFit /\ ReadyFits /\ IntentFits /\ WantedFits

\* What the constants are.
LEMMA LaunchConstants ==
    /\ k1 \in Keys /\ NameOf \in [Claims -> Names] /\ NoName \notin Names
    /\ NoClaim \notin Claims /\ Restarts \in Nat
  BY SpendingAssumption DEF L!LaunchAssumption

\* Nothing is written by halves in this part.
LEMMA Written == \A w \in L!Write : w = TRUE
  BY DEF L!Write

LEMMA LaunchInit == ASSUME L!Init PROVE LaunchInv
<1>1. /\ s1 = c1 /\ s2 = k1 /\ s3 = L!EmptyReservation /\ s4 = [c \in {c1} |-> L!NoRecord]
      /\ s5 = NoClaim /\ s6 = FALSE /\ s7 = [record |-> L!NoWish, home |-> c1]
      /\ s8 = [c \in {c1} |-> L!NoWish] /\ s9 = {} /\ s10 = {}
      /\ s11 = [c \in Claims |-> "unsent"] /\ s12 = {} /\ s13 = {} /\ s14 = {} /\ s15 = 0
  BY DEF L!Init
<1>2. LaunchTyped
  <2>1. s3 \in L!Reservation /\ s4 \in [{c1} -> L!Record \cup {L!NoRecord}]
    BY <1>1 DEF L!EmptyReservation, L!Reservation
  <2>2. s6 \in BOOLEAN
    BY <1>1
  <2>3. s7 \in [record : L!Wish \cup {L!NoWish}, home : {c1}]
        /\ s8 \in [{c1} -> L!Wish \cup {L!NoWish}] /\ s11 \in [Claims -> L!Fate]
    BY <1>1 DEF L!Fate
  <2> QED
    BY <1>1, <2>1, <2>2, <2>3, LaunchConstants DEF LaunchTyped
<1>3. s7.record.step = "awaiting_identity" /\ ~L!LaunchInProgress
  BY <1>1 DEF L!NoWish, L!LaunchInProgress
<1> QED
  BY <1>1, <1>2, <1>3
  DEF LaunchInv, FilesSay, JobsFit, ReviewsFit, ReadyFits, IntentFits, WantedFits,
      L!EmptyReservation

\* The jobs of names and those of definitions, and what an answer changes of one.
LEMMA JobKinds ==
    \A j \in L!NameJob \cup L!LaunchJob :
        /\ j.kind \in {"reserve", "commit", "poll", "register"} => j \in L!NameJob
        /\ j.kind \in {"prepare", "send"} => j \in L!LaunchJob
  BY DEF L!NameJob, L!LaunchJob

LEMMA NameWorks ==
    ASSUME s1 = c1, NEW c \in Claims, NEW kind \in {"reserve", "commit", "poll", "register"}
    PROVE  /\ L!NameWork(kind, c) \in L!NameJob /\ L!NameWork(kind, c).kind = kind
           /\ L!NameWork(kind, c).claim = c /\ L!NameWork(kind, c).answer = "none"
  BY DEF L!NameWork, L!NameJob, L!Answer

LEMMA LaunchWorks ==
    ASSUME s1 = c1, NEW v \in L!Review, NEW kind \in {"prepare", "send"}
    PROVE  /\ L!LaunchWork(kind, v) \in L!LaunchJob /\ L!LaunchWork(kind, v).kind = kind
           /\ L!LaunchWork(kind, v).review = v /\ L!LaunchWork(kind, v).answer = "none"
  BY DEF L!LaunchWork, L!LaunchJob, L!Answer

LEMMA Answered ==
    ASSUME NEW j \in L!NameJob \cup L!LaunchJob, NEW answer \in {"ok", "error"}
    PROVE  LET k == [j EXCEPT !.answer = answer]
           IN  /\ k \in L!NameJob \cup L!LaunchJob /\ k.kind = j.kind /\ k.answer = answer
               /\ j \in L!NameJob => k.claim = j.claim
               /\ j \in L!LaunchJob => k.review = j.review
<1>1. CASE j \in L!NameJob
  BY <1>1 DEF L!NameJob, L!LaunchJob, L!Answer
<1>2. CASE j \in L!LaunchJob
  BY <1>2 DEF L!NameJob, L!LaunchJob, L!Answer
<1> QED
  BY <1>1, <1>2

\* What fits stays so while the records do not change.
LEMMA JobStays ==
    ASSUME NEW j, JobFits(j), s3' = s3, s7' = s7, s12 \subseteq s12',
           \A c : Landed(c) => Landed(c)'
    PROVE  JobFits(j)'
<1>1. (L!InProgress)' = L!InProgress /\ (L!LaunchInProgress)' = L!LaunchInProgress
  BY DEF L!InProgress, L!LaunchInProgress
<1>2. \A v : RightName(v) => RightName(v)'
  BY <1>1 DEF RightName
<1> QED
  BY <1>1, <1>2 DEF JobFits, Held

\* The chain only goes on.
Onward == (\A c : Landed(c) => Landed(c)') /\ s12 \subseteq s12'
RecordsSame == s1' = s1 /\ s3' = s3 /\ s7' = s7 /\ s8' = s8 /\ Onward

\* Fewer jobs, or one more that fits.
LEMMA JobsStay ==
    ASSUME JobsFit, RecordsSame, s10' \subseteq s10
    PROVE  JobsFit'
  BY JobStays DEF JobsFit, RecordsSame, Onward

LEMMA JobsMore ==
    ASSUME JobsFit, RecordsSame, NEW new, s10' \subseteq s10 \cup {new}, JobFits(new)',
           new.kind \notin {"reserve", "commit"}
    PROVE  JobsFit'
  BY JobStays DEF JobsFit, RecordsSame, Onward

\* And what else holds of the records.
LEMMA RecordsStay ==
    ASSUME LaunchInv, RecordsSame, s13' \ s14' \subseteq s13 \ s14
    PROVE  /\ FilesSay' /\ IntentFits' /\ WantedFits'
           /\ \A v : RightName(v) => RightName(v)'
           /\ \A c : Held(c, "committed") \/ Landed(c) => (Held(c, "committed") \/ Landed(c))'
<1>1. (L!InProgress)' = L!InProgress /\ (L!LaunchInProgress)' = L!LaunchInProgress
  BY DEF RecordsSame, L!InProgress, L!LaunchInProgress
<1>2. FilesSay' /\ WantedFits'
  BY DEF LaunchInv, RecordsSame, Onward, FilesSay, WantedFits
<1>3. IntentFits'
  BY <1>1 DEF LaunchInv, RecordsSame, Onward, IntentFits
<1>4. \A c : Held(c, "committed") \/ Landed(c) => (Held(c, "committed") \/ Landed(c))'
  BY DEF RecordsSame, Onward, Held
<1> QED
  BY <1>1, <1>2, <1>3, <1>4 DEF RightName, RecordsSame

\* The button of the second step: for a claim that is held or has landed.
LEMMA ClaimFinished ==
    ASSUME LaunchInv, L!FinishRegistration
    PROVE  LaunchInv'
<1>1. /\ s1' = s1 /\ s2' = s2 /\ s3' = s3 /\ s4' = s4 /\ s6' = s6 /\ s7' = s7 /\ s8' = s8
      /\ s9' = s9 /\ s11' = s11 /\ s12' = s12 /\ s13' = s13 /\ s14' = s14 /\ s15' = s15
      /\ s5 # NoClaim /\ s5' = NoClaim
      /\ s10' \subseteq s10 \cup {L!NameWork("register", s5)}
  BY DEF L!FinishRegistration
<1>2. s1 = c1 /\ s5 \in Claims
  BY <1>1 DEF LaunchInv, FilesSay, LaunchTyped
<1>3. RecordsSame
  BY <1>1 DEF RecordsSame, Onward, Landed
<1>4. PICK c \in Claims : c = s5
  BY <1>2
<1>5. PICK new \in L!NameJob : /\ new = L!NameWork("register", c) /\ new.kind = "register"
                               /\ new.claim = c /\ new.answer = "none"
  BY <1>2, NameWorks
<1>6. JobFits(new)'
  <2>1. (Held(c, "committed") \/ Landed(c))'
    BY <1>1, <1>3, <1>4, RecordsStay DEF LaunchInv, ReadyFits
  <2> QED
    BY <1>5, <2>1 DEF JobFits
<1>7. JobsFit'
  BY <1>1, <1>3, <1>4, <1>5, <1>6, JobsMore DEF LaunchInv
<1>8. LaunchTyped'
  BY <1>1, <1>4, <1>5 DEF LaunchInv, LaunchTyped
<1> QED
  BY <1>1, <1>3, <1>7, <1>8, RecordsStay DEF LaunchInv, ReviewsFit, ReadyFits

\* A claim is started when nothing else is under way, for the name that waits.
LEMMA ClaimStarted ==
    ASSUME LaunchInv, NEW c \in Claims, L!StartRegistration(c)
    PROVE  LaunchInv'
<1>1. /\ s1' = s1 /\ s2' = s2 /\ s3' = s3 /\ s4' = s4 /\ s5' = s5 /\ s6' = s6 /\ s7' = s7
      /\ s8' = s8 /\ s9' = s9 /\ s11' = s11 /\ s12' = s12 /\ s13' = s13 /\ s14' = s14
      /\ s15' = s15 /\ s10 = {} /\ ~L!InProgress
      /\ s10' = s10 \cup {L!NameWork("reserve", c)}
      /\ L!LaunchInProgress => s7.record.name = NameOf[c]
  BY DEF L!StartRegistration, L!StartsClaim, L!MayClaim, L!Idle
<1>2. RecordsSame
  BY <1>1 DEF RecordsSame, Onward, Landed
<1>3. PICK new \in L!NameJob : /\ new = L!NameWork("reserve", c) /\ new.kind = "reserve"
                               /\ new.claim = c /\ new.answer = "none"
  BY NameWorks DEF LaunchInv, FilesSay
<1>4. JobFits(new)'
  BY <1>1, <1>3 DEF JobFits, L!InProgress, L!LaunchInProgress
<1>5. s10' = {new}
  BY <1>1, <1>3
<1>6. JobsFit'
  BY <1>4, <1>5 DEF JobsFit
<1>7. LaunchTyped'
  BY <1>1, <1>5 DEF LaunchInv, LaunchTyped
<1> QED
  BY <1>1, <1>2, <1>6, <1>7, RecordsStay DEF LaunchInv, ReviewsFit, ReadyFits

\* Asked for with a currency: written down first, when nothing waits.
LEMMA CurrencyStarted ==
    ASSUME LaunchInv, NEW c \in Claims, NEW w \in L!Write, L!StartCurrencyFromNewName(c, w)
    PROVE  LaunchInv'
<1> DEFINE wish == [name |-> NameOf[c], key |-> s2, step |-> "awaiting_identity"]
<1>1. /\ s1' = s1 /\ s2' = s2 /\ s3' = s3 /\ s4' = s4 /\ s5' = s5 /\ s6' = s6
      /\ s9' = s9 /\ s11' = s11 /\ s12' = s12 /\ s13' = s13 \cup {c} /\ s14' = s14
      /\ s15' = s15 /\ s10 = {} /\ s9 = {} /\ ~L!InProgress /\ ~L!LaunchInProgress
      /\ s10' \subseteq s10 \cup {L!NameWork("reserve", c)} /\ L!Begin(NameOf[c], w)
  BY DEF L!StartCurrencyFromNewName, L!StartsClaim, L!MayLaunch, L!Idle
<1>2. s1 = c1 /\ s7.home = c1 /\ s7 \in [record : L!Wish \cup {L!NoWish}, home : {c1}]
      /\ s8 \in [{c1} -> L!Wish \cup {L!NoWish}] /\ s3.mem = s3.file /\ s2 \in Keys
  BY DEF LaunchInv, FilesSay, LaunchTyped
<1>3. wish \in L!Wish /\ wish # L!NoWish
  BY <1>2, LaunchConstants DEF L!Wish, L!NoWish, L!Stage
<1>4. s7' = [s7 EXCEPT !.record = wish] /\ s8' = [s8 EXCEPT ![c1] = wish]
  BY <1>1, <1>2, <1>3, Written DEF L!Begin, L!Remember
<1>5. PICK new \in L!NameJob : /\ new = L!NameWork("reserve", c) /\ new.kind = "reserve"
                               /\ new.claim = c /\ new.answer = "none"
  BY <1>2, NameWorks
<1>6. /\ s7'.record.name = NameOf[c] /\ s7'.record.step = "awaiting_identity" /\ s7'.home = c1
      /\ s8'[c1] = s7'.record
  BY <1>2, <1>4
<1>7. JobFits(new)'
  BY <1>1, <1>5, <1>6 DEF JobFits, L!InProgress
<1>8. JobsFit'
  BY <1>1, <1>5, <1>7 DEF JobsFit
<1>9. LaunchTyped'
  <2>1. s7' \in [record : L!Wish \cup {L!NoWish}, home : {c1}]
        /\ s8' \in [{c1} -> L!Wish \cup {L!NoWish}]
    BY <1>2, <1>3, <1>4
  <2> QED
    BY <1>1, <1>5, <2>1 DEF LaunchInv, LaunchTyped
<1>10. WantedFits'
  <2>1. s7.record.name = NoName
    BY <1>1 DEF L!LaunchInProgress, L!NoWish
  <2>2. \A d \in s13 : NameOf[d] # NoName
    BY LaunchConstants DEF LaunchInv, LaunchTyped
  <2> QED
    BY <1>1, <1>6, <2>1, <2>2 DEF LaunchInv, WantedFits
<1>11. IntentFits' /\ FilesSay' /\ ReviewsFit' /\ ReadyFits'
  <2>1. (~L!InProgress)'
    BY <1>1 DEF L!InProgress
  <2>2. ReadyFits'
    BY <1>1 DEF LaunchInv, ReadyFits, Held, Landed
  <2> QED
    BY <1>1, <1>2, <1>6, <2>1, <2>2 DEF IntentFits, FilesSay, ReviewsFit
<1> QED
  BY <1>8, <1>9, <1>10, <1>11 DEF LaunchInv

\* What is built is of the name asked for and the identity it is under.
LEMMA Builds ==
    ASSUME LaunchInv, NEW name \in Names, NEW c \in Claims, NEW resumed \in BOOLEAN, NEW kept,
           L!Build(name, c, resumed, kept)
    PROVE  \E new \in L!LaunchJob :
              /\ s10' \subseteq kept \cup {new} /\ kept \subseteq s10'
              /\ new.kind = "prepare" /\ new.answer = "none"
              /\ new.review.name = name /\ new.review.under = c
<1> DEFINE v == [name |-> name, under |-> c, key |-> s2, on |-> s1, resumed |-> resumed]
<1>1. s1 = c1 /\ v \in L!Review /\ v.name = name /\ v.under = c
  BY DEF LaunchInv, FilesSay, LaunchTyped, L!Review
<1>2. s10' = kept \cup {L!LaunchWork("prepare", v)} \/ s10' = kept
  BY DEF L!Build
<1> HIDE DEF v
<1> QED
  BY <1>1, <1>2, LaunchWorks

\* A definition is built under a name of the wallet's: that of the launch, if one
\* waits.
LEMMA DefinitionBuilt ==
    ASSUME LaunchInv, NEW c \in Claims,
           L!PrepareLaunch(c) \/ L!ResumeLaunch(c)
    PROVE  LaunchInv'
<1>1. /\ s1' = s1 /\ s2' = s2 /\ s3' = s3 /\ s4' = s4 /\ s5' = s5 /\ s6' = s6 /\ s7' = s7
      /\ s8' = s8 /\ s9' = s9 /\ s11' = s11 /\ s12' = s12 /\ s13' = s13 /\ s14' = s14
      /\ s15' = s15
      /\ L!LaunchInProgress => s7.record.name = NameOf[c]
      /\ \E resumed \in BOOLEAN : L!Build(NameOf[c], c, resumed, s10)
  BY DEF L!PrepareLaunch, L!ResumeLaunch, L!MayLaunch
<1>2. RecordsSame
  BY <1>1 DEF RecordsSame, Onward, Landed
<1>3. NameOf[c] \in Names
  BY LaunchConstants
<1>4. PICK new \in L!LaunchJob :
        /\ s10' \subseteq s10 \cup {new} /\ new.kind = "prepare" /\ new.answer = "none"
        /\ new.review.name = NameOf[c] /\ new.review.under = c
  BY <1>1, <1>3, Builds
<1>5. JobFits(new)'
  BY <1>1, <1>4 DEF JobFits, RightName, L!LaunchInProgress
<1>6. JobsFit'
  BY <1>2, <1>4, <1>5, JobsMore DEF LaunchInv
<1>7. LaunchTyped'
  BY <1>1, <1>4 DEF LaunchInv, LaunchTyped
<1> QED
  BY <1>1, <1>2, <1>6, <1>7, RecordsStay DEF LaunchInv, ReviewsFit, ReadyFits

\* A registration is let go of while nothing is under way.
LEMMA ClaimAbandoned ==
    ASSUME LaunchInv, NEW w \in L!Write, L!AbandonRegistration(w)
    PROVE  LaunchInv'
<1>1. /\ s1' = s1 /\ s2' = s2 /\ s4' = s4 /\ s6' = s6 /\ s7' = s7 /\ s8' = s8 /\ s9' = s9
      /\ s10 = {} /\ s10' = s10 /\ s11' = s11 /\ s12' = s12 /\ s13' = s13 /\ s15' = s15
      /\ s5' = NoClaim /\ s3' = L!Finished(s3, w) /\ L!InProgress
      /\ s14' = s14 \cup {s3.mem.pending}
  BY DEF L!AbandonRegistration
<1>2. s3' = [mem |-> L!NoRecord, file |-> L!NoRecord]
  BY <1>1, Written DEF L!Finished
<1>3. s3.mem.pending \in Claims
  BY <1>1 DEF LaunchInv, LaunchTyped, L!Reservation, L!InProgress, L!Record
<1>4. LaunchTyped'
  <2>1. s3' \in L!Reservation
    BY <1>2 DEF L!Reservation
  <2> QED
    BY <1>1, <1>3, <2>1 DEF LaunchInv, LaunchTyped
<1>5. JobsFit'
  BY <1>1 DEF JobsFit
<1>6. (~L!InProgress)' /\ (L!LaunchInProgress)' = L!LaunchInProgress
  BY <1>1, <1>2 DEF L!InProgress, L!LaunchInProgress
<1>7. FilesSay' /\ ReadyFits' /\ IntentFits' /\ WantedFits' /\ ReviewsFit'
  <2>1. FilesSay' /\ ReadyFits'
    BY <1>1, <1>2 DEF LaunchInv, FilesSay, ReadyFits
  <2>2. IntentFits'
    BY <1>1, <1>6 DEF LaunchInv, IntentFits, Landed
  <2>3. WantedFits' /\ ReviewsFit'
    BY <1>1, <1>6 DEF LaunchInv, WantedFits, ReviewsFit, RightName
  <2> QED
    BY <2>1, <2>2, <2>3
<1> QED
  BY <1>4, <1>5, <1>7 DEF LaunchInv

\* The launch held is forgotten, in its file too.
LEMMA Forgets ==
    ASSUME LaunchInv, NEW w \in L!Write, L!Forget(w)
    PROVE  /\ s7' = [record |-> L!NoWish, home |-> c1] /\ s8' = [c \in {c1} |-> L!NoWish]
           /\ (~L!LaunchInProgress)'
<1>1. s7' = [s7 EXCEPT !.record = L!NoWish] /\ s8' = [s8 EXCEPT ![s7.home] = L!NoWish]
  BY Written DEF L!Forget
<1>2. s7 \in [record : L!Wish \cup {L!NoWish}, home : {c1}] /\ s8 \in [{c1} -> L!Wish \cup {L!NoWish}]
      /\ s7.home = c1
  BY DEF LaunchInv, LaunchTyped, FilesSay
<1>3. s7' = [record |-> L!NoWish, home |-> c1] /\ s8' = [c \in {c1} |-> L!NoWish]
  BY <1>1, <1>2
<1> QED
  BY <1>3 DEF L!LaunchInProgress

\* With no launch that waits, what is being built may be of any name.
LEMMA JobForgets ==
    ASSUME NEW j, JobFits(j), s3' = s3, (~L!LaunchInProgress)', s12 \subseteq s12',
           \A c : Landed(c) => Landed(c)'
    PROVE  JobFits(j)'
<1>1. (L!InProgress)' = L!InProgress
  BY DEF L!InProgress
<1>2. \A v : RightName(v) => RightName(v)'
  BY DEF RightName
<1> QED
  BY <1>1, <1>2 DEF JobFits, Held

\* The launch is let go of, and with it all that waited for its name.
LEMMA LaunchAbandoned ==
    ASSUME LaunchInv, NEW w \in L!Write, L!AbandonLaunch(w)
    PROVE  LaunchInv'
<1>1. /\ s1' = s1 /\ s2' = s2 /\ s3' = s3 /\ s4' = s4 /\ s5' = s5 /\ s6' = s6 /\ s9' = s9
      /\ s10' = s10 /\ s11' = s11 /\ s12' = s12 /\ s13' = s13 /\ s15' = s15
      /\ L!Forget(w)
      /\ s14' = s14 \cup {c \in s13 : NameOf[c] = s7.record.name}
  BY DEF L!AbandonLaunch
<1>2. /\ s7' = [record |-> L!NoWish, home |-> c1] /\ s8' = [c \in {c1} |-> L!NoWish]
      /\ (~L!LaunchInProgress)'
  BY <1>1, Forgets
<1>3. LaunchTyped'
  <2>1. s7' \in [record : L!Wish \cup {L!NoWish}, home : {c1}]
        /\ s8' \in [{c1} -> L!Wish \cup {L!NoWish}]
    BY <1>2
  <2>2. s14' \subseteq Claims
    BY <1>1 DEF LaunchInv, LaunchTyped
  <2> QED
    BY <1>1, <2>1, <2>2 DEF LaunchInv, LaunchTyped
<1>4. JobsFit'
  BY <1>1, <1>2, JobForgets DEF LaunchInv, JobsFit, Landed
<1>5. s7'.record.step = "awaiting_identity" /\ s7'.home = c1 /\ s8'[c1] = s7'.record
  BY <1>2 DEF L!NoWish
<1>6. IntentFits' /\ FilesSay' /\ ReviewsFit'
  BY <1>1, <1>2, <1>5 DEF LaunchInv, IntentFits, FilesSay, ReviewsFit, RightName
<1>7. WantedFits' /\ ReadyFits'
  BY <1>1 DEF LaunchInv, WantedFits, ReadyFits, Held, Landed
<1> QED
  BY <1>3, <1>4, <1>6, <1>7 DEF LaunchInv

\* A review is sent as it stands, or dropped.
LEMMA ReviewAnswered ==
    ASSUME LaunchInv, NEW v \in s9, L!ConfirmLaunch(v) \/ L!CancelLaunch(v)
    PROVE  LaunchInv'
<1>1. /\ s1' = s1 /\ s2' = s2 /\ s3' = s3 /\ s4' = s4 /\ s5' = s5 /\ s6' = s6 /\ s7' = s7
      /\ s8' = s8 /\ s11' = s11 /\ s12' = s12 /\ s13' = s13 /\ s14' = s14 /\ s15' = s15
      /\ s9' \subseteq s9 /\ s10' \subseteq s10 \cup {L!LaunchWork("send", v)}
  BY DEF L!ConfirmLaunch, L!CancelLaunch
<1>2. RecordsSame
  BY <1>1 DEF RecordsSame, Onward, Landed
<1>3. v \in L!Review /\ RightName(v) /\ s1 = c1
  BY DEF LaunchInv, LaunchTyped, ReviewsFit, FilesSay
<1>4. PICK new \in L!LaunchJob : /\ new = L!LaunchWork("send", v) /\ new.kind = "send"
                                 /\ new.review = v /\ new.answer = "none"
  BY <1>3, LaunchWorks
<1>5. RightName(v)'
  BY <1>1, <1>2, <1>3, RecordsStay
<1>6. JobFits(new)'
  BY <1>4, <1>5 DEF JobFits
<1>7. JobsFit'
  BY <1>1, <1>2, <1>4, <1>6, JobsMore DEF LaunchInv
<1>8. LaunchTyped'
  BY <1>1, <1>4 DEF LaunchInv, LaunchTyped
<1> QED
  BY <1>1, <1>2, <1>7, <1>8, RecordsStay DEF LaunchInv, ReviewsFit, ReadyFits

\* The active key changes, and the one chain does not.
LEMMA KeySet ==
    ASSUME LaunchInv, NEW k \in Keys, L!SetActiveKey(k)
    PROVE  LaunchInv'
<1>1. /\ s1' = s1 /\ s2' = k /\ s3' = s3 /\ s4' = s4 /\ s5' = s5 /\ s6' = s6 /\ s7' = s7
      /\ s8' = s8 /\ s9' = s9 /\ s10' = s10 /\ s11' = s11 /\ s12' = s12 /\ s13' = s13
      /\ s14' = s14 /\ s15' = s15
  BY DEF L!SetActiveKey
<1>2. RecordsSame
  BY <1>1 DEF RecordsSame, Onward, Landed
<1>3. LaunchTyped'
  BY <1>1 DEF LaunchInv, LaunchTyped
<1>4. JobsFit'
  BY <1>1, <1>2, JobsStay DEF LaunchInv
<1> QED
  BY <1>1, <1>2, <1>3, <1>4, RecordsStay DEF LaunchInv, ReviewsFit, ReadyFits

LEMMA OneChain == ASSUME LaunchInv, NEW c \in {c1}, L!SwitchNetwork(c) PROVE FALSE
  BY DEF LaunchInv, FilesSay, L!SwitchNetwork

\* The chain is asked for the claim that is held.
LEMMA ClaimPolled ==
    ASSUME LaunchInv, L!PollRegistration
    PROVE  LaunchInv'
<1>1. /\ s1' = s1 /\ s2' = s2 /\ s3' = s3 /\ s4' = s4 /\ s5' = s5 /\ s6' = TRUE /\ s7' = s7
      /\ s8' = s8 /\ s9' = s9 /\ s11' = s11 /\ s12' = s12 /\ s13' = s13 /\ s14' = s14
      /\ s15' = s15 /\ L!InProgress /\ s3.mem.step = "committed"
      /\ s10' = s10 \cup {L!NameWork("poll", s3.mem.pending)}
  BY DEF L!PollRegistration
<1>2. RecordsSame
  BY <1>1 DEF RecordsSame, Onward, Landed
<1>3. s3.mem \in L!Record
  BY <1>1 DEF LaunchInv, LaunchTyped, L!Reservation, L!InProgress
<1>4. PICK c \in Claims : c = s3.mem.pending /\ Held(c, "committed")
  BY <1>1, <1>3 DEF L!Record, Held
<1>5. PICK new \in L!NameJob : /\ new = L!NameWork("poll", c) /\ new.kind = "poll"
                               /\ new.claim = c /\ new.answer = "none"
  BY NameWorks DEF LaunchInv, FilesSay
<1>6. JobFits(new)'
  <2>1. Held(c, "committed")'
    BY <1>1, <1>4 DEF Held
  <2> QED
    BY <1>5, <2>1 DEF JobFits
<1>7. JobsFit'
  BY <1>1, <1>2, <1>4, <1>5, <1>6, JobsMore DEF LaunchInv
<1>8. LaunchTyped'
  <2>1. s6' \in BOOLEAN
    BY <1>1
  <2> QED
    BY <1>1, <1>4, <1>5, <2>1 DEF LaunchInv, LaunchTyped
<1> QED
  BY <1>1, <1>2, <1>7, <1>8, RecordsStay DEF LaunchInv, ReviewsFit, ReadyFits

-----------------------------------------------------------------------------
(* The answers *)

\* What an answered job is.
LEMMA AnsweredIs ==
    ASSUME LaunchInv, NEW j \in s10, j.answer # "none"
    PROVE  /\ j \in L!NameJob \cup L!LaunchJob /\ j.answer \in {"ok", "error"} /\ JobFits(j)
           /\ j.kind \in {"reserve", "commit", "poll", "register"} =>
                 j \in L!NameJob /\ j.claim \in Claims
           /\ j.kind \in {"prepare", "send"} => j \in L!LaunchJob /\ j.review \in L!Review
<1>1. j \in L!NameJob \cup L!LaunchJob /\ JobFits(j)
  BY DEF LaunchInv, LaunchTyped, JobsFit
<1>2. j.answer \in {"ok", "error"}
  BY <1>1 DEF L!NameJob, L!LaunchJob, L!Answer
<1> QED
  BY <1>1, <1>2 DEF L!NameJob, L!LaunchJob

\* A claim that is kept is none of the empty record.
LEMMA HeldIsKept ==
    ASSUME NEW c \in Claims, NEW step
    PROVE  /\ [pending |-> c, step |-> step] # L!NoRecord
           /\ Held(c, step) => L!InProgress
<1>1. [pending |-> c, step |-> step].pending # L!NoRecord.pending
  BY LaunchConstants DEF L!NoRecord
<1> QED
  BY <1>1 DEF Held, L!InProgress

\* The salt is written, and the claim is sent.
LEMMA ReserveFinished ==
    ASSUME LaunchInv, NEW j \in s10, j.answer # "none", NEW w \in L!Write,
           L!FinishReserved(j, w),
           UNCHANGED <<s1, s2, s4, s11, s12, s13, s14, s15>>
    PROVE  LaunchInv'
<1>1. /\ s1' = s1 /\ s2' = s2 /\ s4' = s4 /\ s5' = s5 /\ s6' = s6 /\ s7' = s7 /\ s8' = s8
      /\ s9' = s9 /\ s11' = s11 /\ s12' = s12 /\ s13' = s13 /\ s14' = s14 /\ s15' = s15
      /\ j.kind = "reserve"
  BY DEF L!FinishReserved
<1>2. j \in L!NameJob /\ j.claim \in Claims /\ JobFits(j)
  BY <1>1, AnsweredIs
<1>3. CASE j.answer = "error"
  <2>1. s3' = s3 /\ s10' \subseteq s10
    BY <1>3 DEF L!FinishReserved
  <2>2. RecordsSame
    BY <1>1, <2>1 DEF RecordsSame, Onward, Landed
  <2>3. LaunchTyped'
    BY <1>1, <2>1 DEF LaunchInv, LaunchTyped
  <2>4. JobsFit'
    BY <2>1, <2>2, JobsStay DEF LaunchInv
  <2> QED
    BY <1>1, <2>2, <2>3, <2>4, RecordsStay DEF LaunchInv, ReviewsFit, ReadyFits
<1>4. CASE j.answer # "error"
  <2> PICK c \in Claims : c = j.claim
    BY <1>2
  <2> DEFINE held == [pending |-> c, step |-> "reserved"]
  <2>1. s3' = L!Reserved(s3, c, TRUE) /\ s10' = (s10 \ {j}) \cup {L!NameWork("commit", c)}
    BY <1>4, Written DEF L!FinishReserved
  <2>2. held # L!NoRecord
    BY HeldIsKept
  <2>3. s3' = [mem |-> held, file |-> held]
    BY <2>1, <2>2 DEF L!Reserved, L!Persisted
  <2>4. PICK new \in L!NameJob : /\ new = L!NameWork("commit", c) /\ new.kind = "commit"
                                 /\ new.claim = c /\ new.answer = "none"
    BY NameWorks DEF LaunchInv, FilesSay
  <2>5. ~L!InProgress /\ (L!LaunchInProgress => s7.record.name = NameOf[c])
    BY <1>1, <1>2 DEF JobFits
  <2>6. Held(c, "reserved")'
    BY <2>3 DEF Held
  <2>7. \A k \in s10 \ {j} : JobFits(k)'
    <3> TAKE k \in s10 \ {j}
    <3>1. JobFits(k) /\ k.kind \notin {"reserve", "commit"}
      BY <1>1 DEF LaunchInv, JobsFit
    <3>2. k.kind \in {"poll", "register"} =>
             Landed(k.claim) /\ ~(k.kind = "register" /\ k.answer = "ok")
      <4>1. k \in L!NameJob \cup L!LaunchJob
        BY DEF LaunchInv, LaunchTyped
      <4>2. k.kind \in {"poll", "register"} => k.claim \in Claims
        BY <4>1 DEF L!NameJob, L!LaunchJob
      <4>3. k.kind \in {"poll", "register"} => ~Held(k.claim, "committed")
        BY <2>5, <4>2, HeldIsKept
      <4> QED
        BY <3>1, <4>3 DEF JobFits
    <3>3. (L!LaunchInProgress)' = L!LaunchInProgress
      BY <1>1 DEF L!LaunchInProgress
    <3> QED
      BY <1>1, <3>1, <3>2, <3>3 DEF JobFits, Landed, RightName
  <2>8. JobFits(new)'
    BY <2>4, <2>6 DEF JobFits
  <2>9. JobsFit'
    <3>1. \A k \in s10 \ {j} : k.kind \notin {"reserve", "commit"}
      BY <1>1 DEF LaunchInv, JobsFit
    <3> QED
      BY <2>1, <2>4, <2>7, <2>8, <3>1 DEF JobsFit
  <2>10. LaunchTyped'
    <3>1. s3' \in L!Reservation
      BY <2>3 DEF L!Reservation, L!Record, L!Step
    <3> QED
      BY <1>1, <2>1, <2>4, <3>1 DEF LaunchInv, LaunchTyped
  <2>11. IntentFits'
    BY <1>1, <2>3, <2>5 DEF LaunchInv, IntentFits, L!LaunchInProgress, Landed
  <2>12. ReadyFits'
    <3>1. s5 # NoClaim => Landed(s5)
      <4>1. s5 # NoClaim => s5 \in Claims
        BY DEF LaunchInv, LaunchTyped
      <4>2. s5 # NoClaim => ~Held(s5, "committed")
        BY <2>5, <4>1, HeldIsKept
      <4> QED
        BY <4>2 DEF LaunchInv, ReadyFits
    <3> QED
      BY <1>1, <3>1 DEF ReadyFits, Landed
  <2>13. FilesSay' /\ WantedFits' /\ ReviewsFit'
    BY <1>1, <2>3
    DEF LaunchInv, FilesSay, WantedFits, ReviewsFit, RightName, L!LaunchInProgress
  <2> QED
    BY <2>9, <2>10, <2>11, <2>12, <2>13 DEF LaunchInv
<1> QED
  BY <1>3, <1>4

\* Heard of or not, the claim counts as out.
LEMMA CommitFinished ==
    ASSUME LaunchInv, NEW j \in s10, j.answer # "none", NEW w1 \in L!Write, NEW w2 \in L!Write,
           L!FinishCommitted(j, w1, w2),
           UNCHANGED <<s1, s2, s4, s11, s12, s13, s14, s15>>
    PROVE  LaunchInv'
<1>1. /\ s1' = s1 /\ s2' = s2 /\ s4' = s4 /\ s5' = s5 /\ s6' = s6 /\ s7' = s7 /\ s8' = s8
      /\ s9' = s9 /\ s11' = s11 /\ s12' = s12 /\ s13' = s13 /\ s14' = s14 /\ s15' = s15
      /\ j.kind = "commit" /\ s10' = s10 \ {j}
      /\ s3' = L!MarkedCommitted(L!Updated(s3, j.claim, TRUE), TRUE)
  BY Written DEF L!FinishCommitted
<1>2. j \in L!NameJob /\ j.claim \in Claims /\ JobFits(j)
  BY <1>1, AnsweredIs
<1> PICK c \in Claims : c = j.claim
  BY <1>2
<1>3. Held(c, "reserved")
  BY <1>1, <1>2 DEF JobFits
<1> DEFINE held == [pending |-> c, step |-> "reserved"]
           marked == [pending |-> c, step |-> "committed"]
<1>4. s3' = [mem |-> marked, file |-> marked]
  <2>1. held # L!NoRecord /\ marked # L!NoRecord
    BY HeldIsKept
  <2>2. L!Updated(s3, c, TRUE) = [mem |-> held, file |-> held]
    BY <1>3, <2>1 DEF L!Updated, L!Persisted, Held
  <2>3. s3' = L!MarkedCommitted([mem |-> held, file |-> held], TRUE)
    BY <1>1, <2>2
  <2> QED
    BY <2>1, <2>3 DEF L!MarkedCommitted, L!Persisted
<1>5. Held(c, "committed")' /\ ~Held(c, "committed") /\ (\A d : d # c => ~Held(d, "committed"))
  <2>1. s3.mem.step = "reserved"
    BY <1>3 DEF Held
  <2>2. \A d : Held(d, "committed") => s3.mem.step = "committed"
    BY DEF Held
  <2> QED
    BY <1>4, <2>1, <2>2 DEF Held
<1>6. \A k \in s10 \ {j} : JobFits(k)' /\ k.kind \notin {"reserve", "commit"}
  <2> TAKE k \in s10 \ {j}
  <2>1. JobFits(k) /\ k.kind \notin {"reserve", "commit"}
    BY <1>1 DEF LaunchInv, JobsFit
  <2>2. k.kind \in {"poll", "register"} =>
           Landed(k.claim) /\ ~(k.kind = "register" /\ k.answer = "ok")
    BY <1>5, <2>1 DEF JobFits
  <2>3. (L!LaunchInProgress)' = L!LaunchInProgress
    BY <1>1 DEF L!LaunchInProgress
  <2> QED
    BY <1>1, <2>1, <2>2, <2>3 DEF JobFits, Landed, RightName
<1>7. JobsFit'
  BY <1>1, <1>6 DEF JobsFit
<1>8. LaunchTyped'
  <2>1. s3' \in L!Reservation
    BY <1>4 DEF L!Reservation, L!Record, L!Step
  <2> QED
    BY <1>1, <2>1 DEF LaunchInv, LaunchTyped
<1>9. IntentFits'
  <2>1. L!LaunchInProgress => s7.record.name = NameOf[c]
    BY <1>3, HeldIsKept DEF LaunchInv, IntentFits, Held
  <2>2. s3'.mem.pending = c
    BY <1>4
  <2>3. (L!LaunchInProgress => s7.record.name = NameOf[s3.mem.pending])'
    BY <1>1, <2>1, <2>2 DEF L!LaunchInProgress
  <2> QED
    BY <1>1, <2>3 DEF LaunchInv, IntentFits, Landed
<1>10. ReadyFits'
  <2>1. \A d : Held(d, "committed") \/ Landed(d) => (Held(d, "committed") \/ Landed(d))'
    BY <1>1, <1>5 DEF Landed
  <2> QED
    BY <1>1, <2>1 DEF LaunchInv, ReadyFits
<1>11. FilesSay' /\ WantedFits' /\ ReviewsFit'
  <2>1. s3'.mem = s3'.file
    BY <1>4
  <2>2. FilesSay' /\ WantedFits'
    BY <1>1, <2>1 DEF LaunchInv, FilesSay, WantedFits
  <2>3. ReviewsFit'
    BY <1>1 DEF LaunchInv, ReviewsFit, RightName, L!LaunchInProgress
  <2> QED
    BY <2>2, <2>3
<1> QED
  BY <1>7, <1>8, <1>9, <1>10, <1>11 DEF LaunchInv

\* The second step is offered for the claim that was asked about.
LEMMA PollFinished ==
    ASSUME LaunchInv, NEW j \in s10, j.answer # "none", L!FinishPoll(j),
           UNCHANGED <<s1, s2, s4, s11, s12, s13, s14, s15>>
    PROVE  LaunchInv'
<1>1. /\ s1' = s1 /\ s2' = s2 /\ s3' = s3 /\ s4' = s4 /\ s6' = FALSE /\ s7' = s7 /\ s8' = s8
      /\ s9' = s9 /\ s11' = s11 /\ s12' = s12 /\ s13' = s13 /\ s14' = s14 /\ s15' = s15
      /\ j.kind = "poll" /\ s10' = s10 \ {j} /\ s5' \in {s5, j.claim}
  BY DEF L!FinishPoll
<1>2. j.claim \in Claims /\ JobFits(j)
  BY <1>1, AnsweredIs
<1>3. RecordsSame
  BY <1>1 DEF RecordsSame, Onward, Landed
<1>4. s5' # NoClaim => Held(s5', "committed") \/ Landed(s5')
  BY <1>1, <1>2 DEF LaunchInv, ReadyFits, JobFits
<1>5. ReadyFits'
  BY <1>1, <1>4 DEF ReadyFits, Held, Landed
<1>6. JobsFit'
  BY <1>1, <1>3, JobsStay DEF LaunchInv
<1>7. LaunchTyped'
  <2>1. s6' \in BOOLEAN
    BY <1>1
  <2> QED
    BY <1>1, <1>2, <2>1 DEF LaunchInv, LaunchTyped
<1> QED
  BY <1>1, <1>3, <1>5, <1>6, <1>7, RecordsStay DEF LaunchInv, ReviewsFit

\* The name has landed: the claim is done with, and a launch that waits for it goes on.
LEMMA RegisterFinished ==
    ASSUME LaunchInv, NEW j \in s10, j.answer # "none", NEW w1 \in L!Write, NEW w2 \in L!Write,
           L!FinishRegistered(j, w1, w2),
           UNCHANGED <<s1, s2, s4, s11, s12, s13, s14, s15>>
    PROVE  LaunchInv'
<1>1. /\ s1' = s1 /\ s2' = s2 /\ s4' = s4 /\ s5' = s5 /\ s6' = s6 /\ s9' = s9 /\ s11' = s11
      /\ s12' = s12 /\ s13' = s13 /\ s14' = s14 /\ s15' = s15 /\ j.kind = "register"
  BY DEF L!FinishRegistered
<1>2. j \in L!NameJob /\ j.claim \in Claims /\ JobFits(j) /\ j.answer \in {"ok", "error"}
  BY <1>1, AnsweredIs
<1>3. CASE j.answer # "ok"
  <2>1. s3' = s3 /\ s7' = s7 /\ s8' = s8 /\ s10' = s10 \ {j}
    BY <1>3 DEF L!FinishRegistered
  <2>2. RecordsSame
    BY <1>1, <2>1 DEF RecordsSame, Onward, Landed
  <2>3. LaunchTyped'
    BY <1>1, <2>1 DEF LaunchInv, LaunchTyped
  <2>4. JobsFit'
    BY <2>1, <2>2, JobsStay DEF LaunchInv
  <2> QED
    BY <1>1, <2>1, <2>2, <2>3, <2>4, RecordsStay DEF LaunchInv, ReviewsFit, ReadyFits
<1>4. CASE j.answer = "ok"
  <2> PICK c \in Claims : c = j.claim
    BY <1>2
  <2>1. Held(c, "committed") /\ Landed(c) /\ L!InProgress
    BY <1>1, <1>2, <1>4, HeldIsKept DEF JobFits
  <2>2. s3' = [mem |-> L!NoRecord, file |-> L!NoRecord]
        /\ L!ContinueAfterIdentity(c, TRUE, s10 \ {j})
    BY <1>4, Written DEF L!FinishRegistered, L!Finished
  <2>3. (~L!InProgress)'
    BY <2>2 DEF L!InProgress
  \* Whatever the step of the launch becomes, its name and its waiting stay.
  <2>4. /\ s7'.record.name = s7.record.name /\ s7'.home = c1 /\ s8'[c1] = s7'.record
        /\ s7' \in [record : L!Wish \cup {L!NoWish}, home : {c1}]
        /\ s8' \in [{c1} -> L!Wish \cup {L!NoWish}]
        /\ (L!LaunchInProgress)' = L!LaunchInProgress
        /\ s7'.record.step = "ready_to_define" =>
              L!LaunchInProgress \/ s7.record.step = "ready_to_define"
    <3>1. s7 \in [record : L!Wish \cup {L!NoWish}, home : {c1}] /\ s7.home = c1
          /\ s8 \in [{c1} -> L!Wish \cup {L!NoWish}] /\ s8[c1] = s7.record
      BY DEF LaunchInv, FilesSay, LaunchTyped
    <3>2. CASE L!LaunchInProgress /\ s7.record.step = "awaiting_identity"
      <4> DEFINE wish == [s7.record EXCEPT !.step = "ready_to_define"]
      <4>1. s7.record \in L!Wish
        BY <3>1, <3>2 DEF L!LaunchInProgress
      <4>2. wish \in L!Wish /\ wish.name = s7.record.name /\ wish # L!NoWish
        BY <4>1, LaunchConstants DEF L!Wish, L!NoWish, L!Stage
      <4>3. s7' = [s7 EXCEPT !.record = wish] /\ s8' = [s8 EXCEPT ![c1] = wish]
        BY <2>2, <3>1, <3>2, <4>2 DEF L!ContinueAfterIdentity, L!IdentityExists, L!Remember
      <4> HIDE DEF wish
      <4>4. s7'.record = wish /\ s7'.home = c1 /\ s8'[c1] = wish
            /\ s7' \in [record : L!Wish \cup {L!NoWish}, home : {c1}]
            /\ s8' \in [{c1} -> L!Wish \cup {L!NoWish}]
        BY <3>1, <4>2, <4>3
      <4>5. (L!LaunchInProgress)'
        BY <4>2, <4>4 DEF L!LaunchInProgress
      <4> QED
        BY <3>2, <4>2, <4>4, <4>5
    <3>3. CASE ~(L!LaunchInProgress /\ s7.record.step = "awaiting_identity")
      <4>1. s7' = s7 /\ s8' = s8
        BY <2>2, <3>3 DEF L!ContinueAfterIdentity
      <4> QED
        BY <3>1, <4>1 DEF L!LaunchInProgress
    <3> QED
      BY <3>2, <3>3
  <2>5. L!LaunchInProgress => s7.record.name = NameOf[c]
    BY <2>1 DEF LaunchInv, IntentFits, Held
  <2>6. \A v : RightName(v) => RightName(v)'
    BY <2>4 DEF RightName
  <2>7. \A k \in s10 \ {j} : JobFits(k)' /\ k.kind \notin {"reserve", "commit"}
    <3> TAKE k \in s10 \ {j}
    <3>1. JobFits(k) /\ k \in L!NameJob \cup L!LaunchJob
      BY DEF LaunchInv, LaunchTyped, JobsFit
    <3>2. k.kind \notin {"reserve", "commit"}
      <4>1. s3.mem.step = "committed"
        BY <2>1 DEF Held
      <4>2. ~Held(k.claim, "reserved")
        BY <4>1 DEF Held
      <4> QED
        BY <2>1, <3>1, <4>2 DEF JobFits
    <3>3. k.kind \in {"poll", "register"} => Landed(k.claim)
      <4>1. Held(k.claim, "committed") => k.claim = c
        <5>1. s3.mem.pending = c
          BY <2>1 DEF Held
        <5> QED
          BY <5>1 DEF Held
      <4> QED
        BY <2>1, <3>1, <4>1 DEF JobFits
    <3>4. ~(k.kind = "register" /\ k.answer = "ok")
      <4> SUFFICES ASSUME k.kind = "register", k.answer = "ok" PROVE FALSE
        OBVIOUS
      <4>1. Held(k.claim, "committed")
        BY <3>1 DEF JobFits
      <4>2. k.claim = c
        <5>1. s3.mem.pending = c
          BY <2>1 DEF Held
        <5> QED
          BY <4>1, <5>1 DEF Held
      <4>3. k \in L!NameJob
        BY <3>1, JobKinds
      <4> QED
        BY <1>1, <1>2, <1>4, <4>2, <4>3 DEF L!NameJob
    <3> QED
      BY <1>1, <2>6, <3>1, <3>2, <3>3, <3>4 DEF JobFits, Landed
  <2>8. \/ s10' = s10 \ {j}
        \/ \E new \in L!LaunchJob : /\ s10' \subseteq (s10 \ {j}) \cup {new}
                                    /\ JobFits(new)' /\ new.kind = "prepare"
    <3>1. CASE L!LaunchInProgress /\ s7.record.step = "awaiting_identity"
      <4>1. NameOf[c] \in Names
        BY LaunchConstants
      <4>2. \E resumed \in BOOLEAN : L!Build(NameOf[c], c, resumed, s10 \ {j})
        <5>1. L!Build(NameOf[c], c, TRUE, s10 \ {j})
          BY <2>2, <2>5, <3>1 DEF L!ContinueAfterIdentity
        <5> QED
          BY <5>1
      <4>3. PICK new \in L!LaunchJob :
              /\ s10' \subseteq (s10 \ {j}) \cup {new} /\ new.kind = "prepare"
              /\ new.review.name = NameOf[c] /\ new.review.under = c
        BY <4>1, <4>2, Builds
      <4>4. JobFits(new)'
        BY <2>4, <2>5, <4>3 DEF JobFits, RightName
      <4> QED
        BY <4>3, <4>4
    <3>2. CASE ~(L!LaunchInProgress /\ s7.record.step = "awaiting_identity")
      BY <2>2, <3>2 DEF L!ContinueAfterIdentity
    <3> QED
      BY <3>1, <3>2
  <2>9. JobsFit'
    BY <2>7, <2>8 DEF JobsFit
  <2>10. LaunchTyped'
    <3>1. s3' \in L!Reservation
      BY <2>2 DEF L!Reservation
    <3>2. s10' \subseteq L!NameJob \cup L!LaunchJob
      BY <2>8 DEF LaunchInv, LaunchTyped
    <3> QED
      BY <1>1, <2>4, <3>1, <3>2 DEF LaunchInv, LaunchTyped
  <2>11. IntentFits'
    <3>1. s7'.record.step = "ready_to_define" =>
             \E d \in Claims : NameOf[d] = s7'.record.name /\ Landed(d)
      BY <2>1, <2>4, <2>5 DEF LaunchInv, IntentFits
    <3> QED
      BY <1>1, <2>3, <3>1 DEF IntentFits, Landed
  <2>12. ReadyFits'
    <3>1. s5 # NoClaim => Landed(s5)
      <4>1. s3.mem.pending = c
        BY <2>1 DEF Held
      <4>2. Held(s5, "committed") => s5 = c
        BY <4>1 DEF Held
      <4> QED
        BY <2>1, <4>2 DEF LaunchInv, ReadyFits
    <3> QED
      BY <1>1, <3>1 DEF ReadyFits, Landed
  <2>13. FilesSay' /\ WantedFits' /\ ReviewsFit'
    BY <1>1, <2>2, <2>4, <2>6 DEF LaunchInv, FilesSay, WantedFits, ReviewsFit
  <2> QED
    BY <2>9, <2>10, <2>11, <2>12, <2>13 DEF LaunchInv
<1> QED
  BY <1>3, <1>4

\* A definition that was built is offered, one that was sent ends the launch.
LEMMA PrepareFinished ==
    ASSUME LaunchInv, NEW j \in s10, j.answer # "none", L!FinishLaunchPrepared(j),
           UNCHANGED <<s1, s2, s4, s11, s12, s13, s14, s15>>
    PROVE  LaunchInv'
<1>1. /\ s1' = s1 /\ s2' = s2 /\ s3' = s3 /\ s4' = s4 /\ s5' = s5 /\ s6' = s6 /\ s7' = s7
      /\ s8' = s8 /\ s11' = s11 /\ s12' = s12 /\ s13' = s13 /\ s14' = s14 /\ s15' = s15
      /\ j.kind = "prepare" /\ s10' = s10 \ {j} /\ s9' \subseteq s9 \cup {j.review}
  BY DEF L!FinishLaunchPrepared
<1>2. j.review \in L!Review /\ RightName(j.review)
  BY <1>1, AnsweredIs DEF JobFits
<1>3. RecordsSame
  BY <1>1 DEF RecordsSame, Onward, Landed
<1>4. JobsFit'
  BY <1>1, <1>3, JobsStay DEF LaunchInv
<1>5. LaunchTyped'
  BY <1>1, <1>2 DEF LaunchInv, LaunchTyped
<1>6. \A v \in s9 \cup {j.review} : RightName(v)
  BY <1>2 DEF LaunchInv, ReviewsFit
<1> QED
  BY <1>1, <1>3, <1>4, <1>5, <1>6, RecordsStay DEF LaunchInv, ReviewsFit, ReadyFits

LEMMA SendFinished ==
    ASSUME LaunchInv, NEW j \in s10, j.answer # "none", NEW w \in L!Write,
           L!FinishLaunchSent(j, w),
           UNCHANGED <<s1, s2, s4, s11, s12, s13, s14, s15>>
    PROVE  LaunchInv'
<1>1. /\ s1' = s1 /\ s2' = s2 /\ s3' = s3 /\ s4' = s4 /\ s5' = s5 /\ s6' = s6 /\ s9' = s9
      /\ s11' = s11 /\ s12' = s12 /\ s13' = s13 /\ s14' = s14 /\ s15' = s15
      /\ j.kind = "send" /\ s10' = s10 \ {j}
  BY DEF L!FinishLaunchSent
<1>2. JobFits(j) /\ j.review \in L!Review
  BY <1>1, AnsweredIs
<1>3. CASE j.answer # "ok"
  <2>1. s7' = s7 /\ s8' = s8
    BY <1>3 DEF L!FinishLaunchSent
  <2>2. RecordsSame
    BY <1>1, <2>1 DEF RecordsSame, Onward, Landed
  <2>3. LaunchTyped'
    BY <1>1, <2>1 DEF LaunchInv, LaunchTyped
  <2>4. JobsFit'
    BY <1>1, <2>2, JobsStay DEF LaunchInv
  <2> QED
    BY <1>1, <2>2, <2>3, <2>4, RecordsStay DEF LaunchInv, ReviewsFit, ReadyFits
<1>4. CASE j.answer = "ok"
  <2>1. /\ s7' = [record |-> L!NoWish, home |-> c1] /\ s8' = [c \in {c1} |-> L!NoWish]
        /\ (~L!LaunchInProgress)'
    BY <1>4, Forgets DEF L!FinishLaunchSent
  <2>2. LaunchTyped'
    <3>1. s7' \in [record : L!Wish \cup {L!NoWish}, home : {c1}]
          /\ s8' \in [{c1} -> L!Wish \cup {L!NoWish}]
      BY <2>1
    <3> QED
      BY <1>1, <3>1 DEF LaunchInv, LaunchTyped
  <2>3. JobsFit'
    BY <1>1, <2>1, JobForgets DEF LaunchInv, JobsFit, Landed
  <2>4. s7'.record.step = "awaiting_identity" /\ s7'.home = c1 /\ s8'[c1] = s7'.record
    BY <2>1 DEF L!NoWish
  <2>5. WantedFits'
    <3>1. j.review.under \in s12 /\ NameOf[j.review.under] = j.review.name
          /\ (L!LaunchInProgress => s7.record.name = j.review.name)
      BY <1>1, <1>2, <1>4 DEF JobFits, RightName
    <3>2. \A c \in s13 : s7.record.name = NameOf[c] => L!LaunchInProgress
      BY LaunchConstants DEF LaunchInv, LaunchTyped, L!LaunchInProgress, L!NoWish
    <3> QED
      BY <1>1, <3>1, <3>2 DEF LaunchInv, WantedFits
  <2>6. IntentFits' /\ FilesSay' /\ ReviewsFit'
    BY <1>1, <2>1, <2>4 DEF LaunchInv, IntentFits, FilesSay, ReviewsFit, RightName
  <2>7. ReadyFits'
    BY <1>1 DEF LaunchInv, ReadyFits, Held, Landed
  <2> QED
    BY <2>2, <2>3, <2>5, <2>6, <2>7 DEF LaunchInv
<1> QED
  BY <1>3, <1>4

-----------------------------------------------------------------------------
(* Workers, the process, and the theorem *)

\* What a job becomes when its worker answers.
LEMMA JobAnswered ==
    ASSUME LaunchInv, NEW j \in s10, NEW answer \in {"ok", "error"}, L!Run(j, answer)
    PROVE  LaunchInv'
<1>1. /\ s1' = s1 /\ s2' = s2 /\ s3' = s3 /\ s4' = s4 /\ s5' = s5 /\ s6' = s6 /\ s7' = s7
      /\ s8' = s8 /\ s9' = s9 /\ s13' = s13 /\ s14' = s14 /\ s15' = s15 /\ j.answer = "none"
      /\ s10' = (s10 \ {j}) \cup {[j EXCEPT !.answer = answer]}
  BY DEF L!Run
<1>2. j \in L!NameJob \cup L!LaunchJob /\ JobFits(j)
  BY DEF LaunchInv, LaunchTyped, JobsFit
<1>3. PICK new \in L!NameJob \cup L!LaunchJob :
        /\ new = [j EXCEPT !.answer = answer] /\ new.kind = j.kind /\ new.answer = answer
        /\ j \in L!NameJob => new.claim = j.claim
        /\ j \in L!LaunchJob => new.review = j.review
  BY <1>2, Answered
\* Only a claim that was sent and confirmed lands, and then the wallet holds it.
<1>4. /\ s11' = s11 \/ (/\ j.kind \in {"commit", "register"} /\ j.claim \in Claims
                        /\ s11[j.claim] # "registered"
                        /\ \E fate \in {"sent", "registered"} :
                              /\ s11' = [s11 EXCEPT ![j.claim] = fate]
                              /\ j.kind = "register" => fate = "registered")
      /\ j.kind = "register" /\ answer = "ok" =>
            s11[j.claim] = "confirmed" /\ s11' = [s11 EXCEPT ![j.claim] = "registered"]
      /\ s12' = s12 \/ (j.kind = "send" /\ s12' = s12 \cup {j.review.under})
      /\ j.kind = "send" /\ answer = "ok" => s12' = s12 \cup {j.review.under}
  BY <1>2, JobKinds
  DEF L!Run, L!RunReserve, L!RunClaim, L!RunPoll, L!RunPrepare, L!RunSend, L!NameJob
<1>5. s11 \in [Claims -> L!Fate] /\ s12 \subseteq Claims
  BY DEF LaunchInv, LaunchTyped
<1>6. RecordsSame
  <2>1. \A c : Landed(c) => Landed(c)'
    BY <1>4, <1>5 DEF Landed
  <2> QED
    BY <1>1, <1>4, <2>1 DEF RecordsSame, Onward
<1>7. JobFits(new)'
  <2>1. JobFits(j)'
    BY <1>2, <1>6, JobStays DEF RecordsSame, Onward
  <2>2. j.kind = "register" /\ answer = "ok" =>
           (Held(j.claim, "committed") /\ Landed(j.claim))'
    <3>1. j.kind = "register" => j \in L!NameJob /\ j.claim \in Claims
      BY <1>2, JobKinds DEF L!NameJob
    <3>2. j.kind = "register" /\ answer = "ok" => Held(j.claim, "committed")
      BY <1>2, <1>4 DEF JobFits, Landed
    <3> QED
      BY <1>1, <1>4, <1>5, <3>1, <3>2 DEF Held, Landed
  <2>3. j.kind = "send" /\ answer = "ok" => j.review.under \in s12'
    BY <1>4
  <2>4. j.kind \in {"reserve", "commit", "poll", "register"} => j \in L!NameJob
    BY <1>2, JobKinds
  <2>5. j.kind \in {"prepare", "send"} => j \in L!LaunchJob
    BY <1>2, JobKinds
  <2> QED
    BY <1>3, <2>1, <2>2, <2>3, <2>4, <2>5 DEF JobFits
<1>8. JobsFit'
  <2>1. \A k \in s10 : JobFits(k)'
    BY <1>6, JobStays DEF LaunchInv, JobsFit, RecordsSame, Onward
  <2> QED
    BY <1>1, <1>3, <1>7, <2>1 DEF LaunchInv, JobsFit
<1>9. LaunchTyped'
  <2>1. s11' \in [Claims -> L!Fate]
    BY <1>4, <1>5 DEF L!Fate
  <2>2. s12' \subseteq Claims
    <3>1. j.kind = "send" => j.review.under \in Claims
      BY <1>2, JobKinds DEF L!LaunchJob, L!Review
    <3> QED
      BY <1>4, <1>5, <3>1
  <2> QED
    BY <1>1, <1>3, <2>1, <2>2 DEF LaunchInv, LaunchTyped
<1> QED
  BY <1>1, <1>6, <1>8, <1>9, RecordsStay DEF LaunchInv, ReviewsFit, ReadyFits

\* The process dies: what it opens is what it held.
LEMMA LaunchRestarts ==
    ASSUME LaunchInv, L!Restart
    PROVE  LaunchInv'
<1>1. /\ s1' = s1 /\ s2' = s2 /\ s4' = s4 /\ s5' = NoClaim /\ s6' = FALSE /\ s8' = s8
      /\ s9' = {} /\ s10' = {} /\ s11' = s11 /\ s12' = s12 /\ s13' = s13 /\ s14' = s14
      /\ s15 < Restarts /\ s15' = s15 + 1 /\ s3' = L!Reopened(s3)
      /\ s7' = [record |-> s8[s1], home |-> s1]
  BY DEF L!Restart
<1>2. /\ s3 \in L!Reservation /\ s7 \in [record : L!Wish \cup {L!NoWish}, home : {c1}]
      /\ s3.mem = s3.file /\ s7.home = c1 /\ s8[c1] = s7.record /\ s1 = c1 /\ s15 \in 0 .. Restarts
  BY DEF LaunchInv, LaunchTyped, FilesSay
<1>3. s3' = s3 /\ s7' = s7
  BY <1>1, <1>2 DEF L!Reopened, L!Reservation
<1>4. RecordsSame
  BY <1>1, <1>3 DEF RecordsSame, Onward, Landed
<1>5. s15' \in 0 .. Restarts
  BY <1>1, <1>2, LaunchConstants
<1>6. LaunchTyped'
  <2>1. s6' \in BOOLEAN
    BY <1>1
  <2> QED
    BY <1>1, <1>3, <1>5, <2>1 DEF LaunchInv, LaunchTyped
<1>7. JobsFit' /\ ReviewsFit' /\ ReadyFits'
  BY <1>1 DEF JobsFit, ReviewsFit, ReadyFits
<1> QED
  BY <1>1, <1>4, <1>6, <1>7, RecordsStay DEF LaunchInv

\* A commitment that was sent gets its block.
LEMMA ClaimMined ==
    ASSUME LaunchInv, NEW c \in Claims, L!Mined(c)
    PROVE  LaunchInv'
<1>1. /\ s1' = s1 /\ s2' = s2 /\ s3' = s3 /\ s4' = s4 /\ s5' = s5 /\ s6' = s6 /\ s7' = s7
      /\ s8' = s8 /\ s9' = s9 /\ s10' = s10 /\ s12' = s12 /\ s13' = s13 /\ s14' = s14
      /\ s15' = s15 /\ s11[c] = "sent" /\ s11' = [s11 EXCEPT ![c] = "confirmed"]
  BY DEF L!Mined
<1>2. s11 \in [Claims -> L!Fate]
  BY DEF LaunchInv, LaunchTyped
<1>3. \A d : Landed(d) => Landed(d)'
  BY <1>1, <1>2 DEF Landed
<1>4. RecordsSame
  BY <1>1, <1>3 DEF RecordsSame, Onward
<1>5. LaunchTyped'
  <2>1. s11' \in [Claims -> L!Fate]
    BY <1>1, <1>2 DEF L!Fate
  <2> QED
    BY <1>1, <2>1 DEF LaunchInv, LaunchTyped
<1>6. JobsFit'
  BY <1>1, <1>4, JobsStay DEF LaunchInv
<1> QED
  BY <1>1, <1>4, <1>5, <1>6, RecordsStay DEF LaunchInv, ReviewsFit, ReadyFits

LEMMA LaunchStep == LaunchInv /\ [L!Next]_(L!vars) => LaunchInv'
<1>1. ASSUME LaunchInv, UNCHANGED L!vars PROVE LaunchInv'
  <2>1. /\ s1' = s1 /\ s2' = s2 /\ s3' = s3 /\ s4' = s4 /\ s5' = s5 /\ s6' = s6 /\ s7' = s7
        /\ s8' = s8 /\ s9' = s9 /\ s10' = s10 /\ s11' = s11 /\ s12' = s12 /\ s13' = s13
        /\ s14' = s14 /\ s15' = s15
    BY <1>1 DEF L!vars
  <2>2. RecordsSame
    BY <2>1 DEF RecordsSame, Onward, Landed
  <2>3. LaunchTyped'
    BY <1>1, <2>1 DEF LaunchInv, LaunchTyped
  <2>4. JobsFit'
    BY <1>1, <2>1, <2>2, JobsStay DEF LaunchInv
  <2> QED
    BY <1>1, <2>1, <2>2, <2>3, <2>4, RecordsStay DEF LaunchInv, ReviewsFit, ReadyFits
<1>2. ASSUME LaunchInv, L!Command PROVE LaunchInv'
  BY <1>2, ClaimFinished, ClaimStarted, CurrencyStarted, DefinitionBuilt, ClaimAbandoned,
     LaunchAbandoned, ReviewAnswered, KeySet, OneChain DEF L!Command
<1>3. ASSUME LaunchInv, NEW j \in s10, L!Finish(j) PROVE LaunchInv'
  BY <1>3, ReserveFinished, CommitFinished, PollFinished, RegisterFinished, PrepareFinished,
     SendFinished DEF L!Finish
<1> QED
  BY <1>1, <1>2, <1>3, ClaimPolled, JobAnswered, LaunchRestarts, ClaimMined DEF L!Next

\* The panel's third step is done when the name has landed, which is when the step of
\* the launch is the last.
LEMMA DoneIsReady ==
    L!LaunchPending.canContinue \/ L!SaidDone("wait_to_confirm") =>
        s7.record.step # "awaiting_identity"
<1> SUFFICES ASSUME s7.record.step = "awaiting_identity"
             PROVE  ~L!LaunchPending.canContinue /\ ~L!SaidDone("wait_to_confirm")
  OBVIOUS
<1>1. L!LaunchPending.steps = L!Progress("awaiting_identity")
  BY DEF L!LaunchPending
<1>2. DOMAIN L!Claiming = 1 .. 4 /\ Len(L!Claiming) = 4
  BY DEF L!Claiming
<1>3. \A i \in 1 .. 4 : L!Claiming[i].label = "wait_to_confirm" => i = 3
  BY DEF L!Claiming
<1>4. /\ DOMAIN L!Progress("awaiting_identity") = 1 .. 4
      /\ \A i \in 1 .. 4 : L!Progress("awaiting_identity")[i].label = L!Claiming[i].label
      /\ L!Progress("awaiting_identity")[3].state = "now"
  BY <1>2 DEF L!Progress
<1> QED
  BY <1>1, <1>3, <1>4 DEF L!SaidDone, L!LaunchPending

\* For any claims, names, keys and restarts: a currency is built, reviewed and sent
\* under the name it was asked for with ("if a currency was waiting for it",
\* continue_after_identity), the launch file names what was paid for until it is
\* defined or let go of, and the panel calls a step done that is.
THEOREM LaunchedUnderItsName == Spec => []LaunchUnderItsName
<1> DEFINE Inv == part = "launch" => LaunchInv
<1>1. Init => Inv
  BY PartInit, LaunchInit
<1>2. Inv /\ [Next]_vars => Inv'
  BY PartStep, LaunchStep
<1>3. ASSUME LaunchInv PROVE L!LaunchUnderItsName
  <2>1. \A j \in s10 \cap L!LaunchJob : RightName(j.review)
    BY <1>3 DEF LaunchInv, JobsFit, JobFits, L!LaunchJob
  <2> QED
    BY <1>3, <2>1 DEF LaunchInv, ReviewsFit, RightName, L!LaunchUnderItsName, L!Definitions
<1>4. ASSUME LaunchInv PROVE L!LaunchRemembered
  <2>1. \A c \in s13 \ s14 : HomeOf[c] = c1
    BY <1>4 DEF HomeOf, LaunchInv, LaunchTyped
  <2> QED
    BY <1>4, <2>1 DEF LaunchInv, WantedFits, FilesSay, L!LaunchRemembered
<1>5. ASSUME LaunchInv PROVE L!ReadyIsRegistered
  <2>1. L!LaunchInProgress /\ s7.record.step # "awaiting_identity" =>
           s7.record.step = "ready_to_define"
    BY <1>5 DEF LaunchInv, LaunchTyped, L!LaunchInProgress, L!Wish, L!Stage
  <2>2. L!LaunchPending.identity = s7.record.name
    BY DEF L!LaunchPending
  <2> QED
    BY <1>5, <2>1, <2>2, DoneIsReady DEF LaunchInv, IntentFits, Landed, L!ReadyIsRegistered
<1>6. Inv => LaunchUnderItsName
  BY <1>3, <1>4, <1>5 DEF LaunchUnderItsName
<1> QED
  BY <1>1, <1>2, <1>6, PTL DEF Spec
-----------------------------------------------------------------------------
(* The reviews: what a ledger's operations return *)

LP == INSTANCE LedgerOpsProofs WITH Tx <- 1 .. Tickets, AbsentAfter <- Checks

\* What the constants are.
LEMMA ReviewConstants ==
    /\ c1 \in Chains /\ Tickets \in Nat /\ Refusals \in Nat /\ Records \in Nat
    /\ Checks \in Nat \ {0} /\ "revocation" \notin Refusable
  BY SpendingAssumption DEF R!ReviewsAssumption

\* The ledger here is the one of LedgerOpsProofs.
LEMMA SameLedger ==
    /\ R!Ledger = LP!Ledger /\ R!File = LP!File /\ R!State = LP!State
    /\ \A file : R!Opened(file) = LP!Opened(file)
    /\ \A l, t, w : R!Committed(l, t, w) = LP!Committed(l, t, w)
    /\ \A l, id, s, w : R!StateSet(l, id, s, w) = LP!StateSet(l, id, s, w)
    /\ \A l, w : R!ConfirmedForgotten(l, w) = LP!ConfirmedForgotten(l, w)
<1>1. R!File = LP!File /\ R!State = LP!State /\ R!Ledger = LP!Ledger
  BY DEF R!Ledger, LP!Ledger, R!File, LP!File, R!Record, LP!Record, R!State, LP!State
<1>2. \A file : R!Opened(file) = LP!Opened(file)
  BY DEF R!Opened, LP!Opened, R!NextId, LP!NextId
<1>3. \A l, w : R!Persisted(l, w) = LP!Persisted(l, w)
  BY DEF R!Persisted, LP!Persisted
<1>4. \A l, t, w : R!Committed(l, t, w) = LP!Committed(l, t, w)
  BY <1>3 DEF R!Committed, LP!Committed
<1>5. \A l, id, s, w : R!StateSet(l, id, s, w) = LP!StateSet(l, id, s, w)
  BY <1>3 DEF R!StateSet, LP!StateSet
<1>6. \A l, w : R!ConfirmedForgotten(l, w) = LP!ConfirmedForgotten(l, w)
  BY <1>3 DEF R!ConfirmedForgotten, LP!ConfirmedForgotten
<1> QED
  BY <1>1, <1>2, <1>4, <1>5, <1>6

\* A file that can be read is what opens, and the next id is above its ids.
LEMMA LedgerOpens ==
    ASSUME NEW file \in R!File, file.readable, \A rec \in file.records : rec.id <= Records
    PROVE  /\ R!Opened(file) \in R!Ledger /\ R!Opened(file).file = file
           /\ R!Opened(file).mem = file.records /\ R!Opened(file).next <= Records + 1
           /\ \A rec \in file.records : rec.id < R!Opened(file).next
<1>1. R!Opened(file).mem = file.records
  BY DEF R!Opened
<1>2. /\ LP!Opened(file) \in LP!Ledger /\ LP!Opened(file).file = file
      /\ LP!Opened(file).next <= Records + 1
      /\ \A rec \in LP!Opened(file).mem : rec.id < LP!Opened(file).next
  BY SameLedger, ReviewConstants, LP!OpenedFresh DEF LP!AbsentAfterAssumption
<1> QED
  BY <1>1, <1>2, SameLedger

\* One more record, under the next id; in the file if it was written.
LEMMA LedgerCommits ==
    ASSUME NEW l \in R!Ledger, NEW t \in 1 .. Tickets, NEW w \in BOOLEAN
    PROVE  LET after == R!Committed(l, t, w)
               rec == [id |-> l.next, tx |-> t, checks |-> 0, state |-> "uncertain"]
           IN  /\ after \in R!Ledger /\ after.mem = l.mem \cup {rec} /\ after.next = l.next + 1
               /\ w => after.file = [readable |-> TRUE, records |-> after.mem]
               /\ ~w => after.file = l.file
<1>1. LP!Committed(l, t, w) \in LP!Ledger
  BY SameLedger, ReviewConstants, LP!OperationsTyped DEF LP!AbsentAfterAssumption
<1>2. /\ LP!Committed(l, t, w).mem =
            l.mem \cup {[id |-> l.next, tx |-> t, checks |-> 0, state |-> "uncertain"]}
      /\ LP!Committed(l, t, w).next = l.next + 1
      /\ w => LP!Committed(l, t, w).file =
                 [readable |-> TRUE, records |-> LP!Committed(l, t, w).mem]
      /\ ~w => LP!Committed(l, t, w).file = l.file
  BY SameLedger, ReviewConstants, LP!CommittedEffect DEF LP!AbsentAfterAssumption
<1> QED
  BY <1>1, <1>2, SameLedger

\* The records that are left are of those there were, and an undecided one is
\* touched by the answer to its own id only.
KeepsOthers(after, before, id) ==
    /\ \A rec \in after : \E old \in before : old.id = rec.id /\ old.tx = rec.tx
    /\ \A rec \in before : rec.id # id /\ rec.state = "uncertain" => rec \in after

LEMMA LedgerAnswers ==
    ASSUME NEW l \in R!Ledger, NEW id \in Nat, NEW s \in {"confirmed", "abandoned"},
           NEW w1 \in BOOLEAN, NEW w2 \in BOOLEAN, NEW after,
           after = R!ConfirmedForgotten(R!StateSet(l, id, s, w1), w2)
    PROVE  /\ after \in R!Ledger /\ after.next = l.next /\ KeepsOthers(after.mem, l.mem, id)
           /\ \/ after.file = l.file
              \/ after.file.readable /\ KeepsOthers(after.file.records, l.mem, id)
<1> DEFINE set == R!StateSet(l, id, s, w1)
<1>1. s \in R!State
  BY DEF R!State
<1>2. /\ set \in R!Ledger
      /\ set.mem = {IF rec.id = id THEN [rec EXCEPT !.state = s] ELSE rec : rec \in l.mem}
      /\ set.next = l.next
      /\ set.file = l.file \/ set.file = [readable |-> TRUE, records |-> set.mem]
  <2>1. LP!StateSet(l, id, s, w1) \in LP!Ledger
    BY <1>1, SameLedger, ReviewConstants, LP!OperationsTyped DEF LP!AbsentAfterAssumption
  <2>2. /\ LP!StateSet(l, id, s, w1).mem =
              {IF rec.id = id THEN [rec EXCEPT !.state = s] ELSE rec : rec \in l.mem}
        /\ LP!StateSet(l, id, s, w1).next = l.next
        /\ w1 => LP!StateSet(l, id, s, w1).file =
                    [readable |-> TRUE, records |-> LP!StateSet(l, id, s, w1).mem]
        /\ ~w1 => LP!StateSet(l, id, s, w1).file = l.file
    BY <1>1, SameLedger, ReviewConstants, LP!StateSetEffect DEF LP!AbsentAfterAssumption
  <2> QED
    BY <2>1, <2>2, SameLedger
<1> HIDE DEF set
<1>3. /\ after \in R!Ledger /\ after.mem = {rec \in set.mem : rec.state # "confirmed"}
      /\ after.next = set.next
      /\ after.file = set.file \/ after.file = [readable |-> TRUE, records |-> after.mem]
  <2>1. after = LP!ConfirmedForgotten(set, w2) /\ set \in LP!Ledger
    BY <1>2, SameLedger DEF set
  <2>2. after \in LP!Ledger
    BY <2>1, ReviewConstants, LP!OperationsTyped DEF LP!AbsentAfterAssumption
  <2>3. /\ after.mem = {rec \in set.mem : rec.state # "confirmed"} /\ after.next = set.next
        /\ w2 => after.file = [readable |-> TRUE, records |-> after.mem]
        /\ ~w2 => after.file = set.file
    BY <2>1, ReviewConstants, LP!ConfirmedForgottenEffect DEF LP!AbsentAfterAssumption
  <2> QED
    BY <2>2, <2>3, SameLedger
<1>4. l.mem \subseteq R!Record
  BY DEF R!Ledger
<1>5. KeepsOthers(set.mem, l.mem, id)
  <2>1. \A rec \in l.mem : [rec EXCEPT !.state = s].id = rec.id
                           /\ [rec EXCEPT !.state = s].tx = rec.tx
    BY <1>4 DEF R!Record
  <2> QED
    BY <1>2, <2>1 DEF KeepsOthers
<1>6. KeepsOthers(after.mem, l.mem, id)
  BY <1>3, <1>5 DEF KeepsOthers
<1>7. ASSUME NEW records, KeepsOthers(records, l.mem, id),
             after.file = [readable |-> TRUE, records |-> records]
      PROVE  after.file.readable /\ KeepsOthers(after.file.records, l.mem, id)
  <2>1. after.file.records = records
    BY <1>7
  <2>2. after.file.readable
    BY <1>7
  <2> QED
    BY <1>7, <2>1, <2>2
<1>8. \/ after.file = l.file
      \/ after.file.readable /\ KeepsOthers(after.file.records, l.mem, id)
  <2>1. CASE after.file = [readable |-> TRUE, records |-> after.mem]
    BY <1>6, <1>7, <2>1
  <2>2. CASE after.file = set.file
    BY <1>2, <1>5, <1>7, <2>2
  <2> QED
    BY <1>3, <2>1, <2>2
<1>9. after \in R!Ledger /\ after.next = l.next
  BY <1>2, <1>3
<1> QED
  BY <1>6, <1>8, <1>9

-----------------------------------------------------------------------------
(* The reviews: what holds of their tickets, their words and their records *)

HeldReviews == s5 \cup s7

\* No two of what is built, held, sent and handed over have one ticket, but for a
\* job that was handed over.
TicketsOnce ==
    /\ \A j \in s9 : j.review.ticket <= s4
    /\ \A r \in HeldReviews : r.ticket <= s4
    /\ \A i \in DOMAIN s13 : s13[i].review.ticket <= s4
    /\ \A j, k \in s9 : j.review.ticket = k.review.ticket => j = k
    /\ \A q, r \in HeldReviews : q.ticket = r.ticket => q = r
    /\ \A j \in s9 : \A r \in HeldReviews : j.review.ticket # r.ticket
    /\ \A i \in DOMAIN s13 : \A r \in HeldReviews : s13[i].review.ticket # r.ticket
    /\ \A i \in DOMAIN s13 : \A j \in s9 :
          s13[i].review.ticket = j.review.ticket => j.what = "send" /\ j.answer # "none"
    /\ R!SentOnce

\* A revocation that is held needs its word, one that left had it.
WordsTyped ==
    /\ \A r \in s5 : r.kind = "revocation" => r.ticket \in s6
    /\ \A j \in s9 : j.what = "send" /\ j.review.kind = "revocation" => j.review.ticket \in s11
    /\ R!RevocationNeedsWord

\* An undecided record of a conversion, on its chain; in memory too while that is
\* open.
Recorded(r, c) ==
    r.kind = "conversion" /\ r.ticket \notin s12 =>
        \E rec \in R!FileOf(c).records :
            rec.tx = r.ticket /\ rec.state = "uncertain" /\ (c = s1 => rec \in s2.mem)
\* The id a job answers for is of its own transaction or of none.
AnswersItsOwn(j) ==
    j.what = "send" /\ j.review.kind = "conversion" =>
        /\ j.on = s1 /\ j.record < s2.next
        /\ \A rec \in s2.mem : rec.id = j.record => rec.tx = j.review.ticket
FilesFit ==
    /\ s2.file.readable /\ \A c \in Chains : s3[c].readable
    /\ \A rec \in s2.mem : rec.id < s2.next
    /\ s2.next <= Records + 1
    /\ \A rec \in s2.file.records : rec.id <= Records
    /\ \A c \in Chains : \A rec \in s3[c].records : rec.id <= Records
LedgerFits ==
    /\ FilesFit /\ \A j \in s9 : AnswersItsOwn(j)
    /\ \A j \in s9 : j.what = "send" => Recorded(j.review, j.on)
    /\ \A i \in DOMAIN s13 : Recorded(s13[i].review, s13[i].on)

ReviewsInv == R!TypeOK /\ TicketsOnce /\ WordsTyped /\ LedgerFits

LEMMA ReviewsInit == ASSUME R!Init PROVE ReviewsInv
<1>1. /\ s1 = c1 /\ s2 = R!Opened(R!EmptyFile) /\ s3 = [c \in Chains |-> R!EmptyFile]
      /\ s4 = 0 /\ s5 = {} /\ s6 = {} /\ s7 = {} /\ s8 = FALSE /\ s9 = {} /\ s10 = 0
      /\ s11 = {} /\ s12 = {} /\ s13 = <<>>
  BY DEF R!Init
<1>2. R!EmptyFile \in R!File /\ R!EmptyFile.readable /\ R!EmptyFile.records = {}
  <2>1. R!EmptyFile.readable
    BY DEF R!EmptyFile
  <2>2. R!EmptyFile.records = {}
    BY DEF R!EmptyFile
  <2>3. R!EmptyFile \in R!File
    BY DEF R!EmptyFile, R!File
  <2> QED
    BY <2>1, <2>2, <2>3
<1>3. s2 \in R!Ledger /\ s2.file = R!EmptyFile /\ s2.mem = {} /\ s2.next <= Records + 1
  <2>1. \A rec \in R!EmptyFile.records : rec.id <= Records
    BY <1>2
  <2> QED
    BY <1>1, <1>2, <2>1, LedgerOpens
<1>4. R!TypeOK
  <2>1. s8 \in BOOLEAN
    BY <1>1
  <2>2. s13 \in Seq(R!Sending)
    BY <1>1
  <2>3. s3 \in [Chains -> R!File]
    BY <1>1, <1>2
  <2> QED
    BY <1>1, <1>3, <2>1, <2>2, <2>3, ReviewConstants DEF R!TypeOK
<1>5. TicketsOnce /\ WordsTyped
  <2>1. DOMAIN s13 = {}
    BY <1>1
  <2> QED
    BY <1>1, <2>1 DEF TicketsOnce, WordsTyped, HeldReviews, R!SentOnce, R!RevocationNeedsWord
<1>6. LedgerFits
  <2>1. FilesFit
    BY <1>1, <1>2, <1>3 DEF FilesFit
  <2>2. DOMAIN s13 = {}
    BY <1>1
  <2> QED
    BY <1>1, <2>1, <2>2 DEF LedgerFits
<1> QED
  BY <1>4, <1>5, <1>6 DEF ReviewsInv

\* What a job is, and what a review is of.
LEMMA ReviewJobs ==
    ASSUME R!TypeOK, NEW j \in s9
    PROVE  /\ j \in R!Job /\ j.review \in R!Review /\ j.what \in {"build", "send"}
           /\ j.review.ticket \in 1 .. Tickets /\ j.record \in Nat /\ j.on \in Chains
           /\ j.answer \in {"none", "failed", "ok", "uncertain"}
  BY DEF R!TypeOK, R!Job, R!Review, R!Ticket, R!Answers

LEMMA ReviewKinds ==
    ASSUME R!TypeOK
    PROVE  /\ \A r \in s5 : r \in R!Review /\ r.kind # "conversion" /\ r.ticket \in 1 .. Tickets
           /\ \A r \in s7 : r \in R!Review /\ r.kind = "conversion" /\ r.ticket \in 1 .. Tickets
  BY DEF R!TypeOK, R!IsChange, R!Review, R!Ticket

\* Tickets of reviews that are dropped, that come in, and that go out.
LEMMA TicketsFewer ==
    ASSUME TicketsOnce, s4' = s4, s13' = s13, s9' \subseteq s9, HeldReviews' \subseteq HeldReviews
    PROVE  TicketsOnce'
  BY DEF TicketsOnce, R!SentOnce

LEMMA TicketsIn ==
    ASSUME TicketsOnce, s4' = s4, s13' = s13, NEW j \in s9, j.what = "build", s9' = s9 \ {j},
           NEW r, r = j.review, HeldReviews' \subseteq HeldReviews \cup {r}
    PROVE  TicketsOnce'
<1>1. \A k \in s9' : k.review.ticket # r.ticket
  BY DEF TicketsOnce
<1>2. \A i \in DOMAIN s13 : s13[i].review.ticket # r.ticket
  BY DEF TicketsOnce
<1>3. \A q \in HeldReviews : q.ticket # r.ticket
  BY DEF TicketsOnce
<1>4. r.ticket <= s4
  BY DEF TicketsOnce
<1> QED
  BY <1>1, <1>2, <1>3, <1>4 DEF TicketsOnce, R!SentOnce

LEMMA TicketsOut ==
    ASSUME TicketsOnce, s4' = s4, s13' = s13, NEW r \in HeldReviews,
           HeldReviews' \subseteq HeldReviews \ {r}, NEW new, new.review = r,
           s9' \subseteq s9 \cup {new}
    PROVE  TicketsOnce'
<1>1. \A k \in s9 : k.review.ticket # r.ticket
  BY DEF TicketsOnce
<1>2. \A i \in DOMAIN s13 : s13[i].review.ticket # r.ticket
  BY DEF TicketsOnce
<1>3. \A q \in HeldReviews' : q.ticket # r.ticket
  BY DEF TicketsOnce
<1>4. r.ticket <= s4
  BY DEF TicketsOnce
<1>5. \A j, k \in s9' : j.review.ticket = k.review.ticket => j = k
  BY <1>1 DEF TicketsOnce
<1>6. \A j \in s9' : \A q \in HeldReviews' : j.review.ticket # q.ticket
  BY <1>3 DEF TicketsOnce
<1> QED
  BY <1>1, <1>2, <1>4, <1>5, <1>6 DEF TicketsOnce, R!SentOnce

\* The ledger when no new conversion leaves.
LEMMA LedgerRests ==
    ASSUME LedgerFits, s1' = s1, s2' = s2, s3' = s3, s12 \subseteq s12', s13' = s13,
           \A j \in s9' : j \in s9 \/ j.what = "build" \/ j.review.kind # "conversion"
    PROVE  LedgerFits'
<1>1. \A r, c : Recorded(r, c) => Recorded(r, c)'
  BY DEF Recorded, R!FileOf
<1>2. FilesFit'
  BY DEF LedgerFits, FilesFit
<1>3. \A j \in s9' : AnswersItsOwn(j)'
  BY DEF LedgerFits, AnswersItsOwn
<1>4. \A j \in s9' : j.what = "send" => Recorded(j.review, j.on)'
  BY <1>1 DEF LedgerFits, Recorded
<1> QED
  BY <1>1, <1>2, <1>3, <1>4 DEF LedgerFits

\* A job as it is begun.
LEMMA JobsMade ==
    ASSUME NEW r \in R!Review, NEW c \in Chains, NEW id \in Nat
    PROVE  /\ R!Building(r, c) \in R!Job /\ R!Send(r, c, id) \in R!Job
           /\ R!Building(r, c).review = r /\ R!Send(r, c, id).review = r
           /\ R!Building(r, c).what = "build" /\ R!Send(r, c, id).what = "send"
           /\ R!Send(r, c, id).record = id /\ R!Send(r, c, id).on = c
           /\ R!Send(r, c, id).answer = "none"
<1>1. R!Building(r, c) \in R!Job
  BY DEF R!Building, R!Job, R!Answers
<1>2. R!Send(r, c, id) \in R!Job
  BY DEF R!Send, R!Job, R!Answers
<1>3. R!Building(r, c).review = r /\ R!Building(r, c).what = "build"
  BY DEF R!Building
<1>4. /\ R!Send(r, c, id).review = r /\ R!Send(r, c, id).what = "send"
      /\ R!Send(r, c, id).record = id /\ R!Send(r, c, id).on = c
      /\ R!Send(r, c, id).answer = "none"
  BY DEF R!Send
<1> QED
  BY <1>1, <1>2, <1>3, <1>4

\* A review is asked for under the next ticket.
LEMMA ReviewAsked ==
    ASSUME ReviewsInv, NEW kind \in R!Kind, R!Prepare(kind)
    PROVE  ReviewsInv'
<1> DEFINE r == [ticket |-> s4 + 1, kind |-> kind, of |-> s1]
<1>1. /\ s1' = s1 /\ s2' = s2 /\ s3' = s3 /\ s4' = s4 + 1 /\ s5' = s5 /\ s6' = s6 /\ s7' = s7
      /\ s8' = s8 /\ s10' = s10 /\ s11' = s11 /\ s12' = s12 /\ s13' = s13
      /\ s4 < Tickets /\ s9' = s9 \cup {R!Building(r, s1)}
  BY DEF R!Prepare
<1>2. s4 \in 0 .. Tickets /\ s1 \in Chains
  BY DEF ReviewsInv, R!TypeOK
<1>3. s4 + 1 \in 1 .. Tickets /\ s4 \in Nat
  BY <1>1, <1>2, ReviewConstants
<1>4. r \in R!Review
  BY <1>2, <1>3 DEF R!Review, R!Ticket
<1>5. PICK new \in R!Job : /\ new = R!Building(r, s1) /\ new.what = "build"
                           /\ new.review.ticket = s4 + 1
  <2>1. r.ticket = s4 + 1 /\ 0 \in Nat
    OBVIOUS
  <2> HIDE DEF r
  <2>2. /\ R!Building(r, s1) \in R!Job /\ R!Building(r, s1).review = r
        /\ R!Building(r, s1).what = "build"
    BY <1>2, <1>4, <2>1, JobsMade
  <2> QED
    BY <2>1, <2>2
<1>6. R!TypeOK'
  <2>1. s4' \in 0 .. Tickets
    BY <1>1, <1>3
  <2> QED
    BY <1>1, <1>5, <2>1 DEF ReviewsInv, R!TypeOK
<1>7. TicketsOnce'
  <2>1. \A j \in s9 : j.review.ticket \in Nat /\ j.review.ticket <= s4
    BY ReviewJobs DEF ReviewsInv, TicketsOnce
  <2>2. \A q \in HeldReviews : q.ticket \in Nat /\ q.ticket <= s4
    BY ReviewKinds DEF ReviewsInv, TicketsOnce, HeldReviews
  <2>3. \A i \in DOMAIN s13 : s13[i].review.ticket \in Nat /\ s13[i].review.ticket <= s4
    <3>1. \A i \in DOMAIN s13 : s13[i] \in R!Sending
      BY DEF ReviewsInv, R!TypeOK
    <3> QED
      BY <3>1 DEF ReviewsInv, TicketsOnce, R!Sending, R!Review, R!Ticket
  <2>4. HeldReviews' = HeldReviews
    BY <1>1 DEF HeldReviews
  <2>5. \A j \in s9' : j.review.ticket <= s4'
    BY <1>1, <1>3, <1>5, <2>1
  <2>6. (\A q \in HeldReviews : q.ticket <= s4 + 1) /\ \A i \in DOMAIN s13 : s13[i].review.ticket <= s4 + 1
    BY <1>3, <2>2, <2>3
  <2>7. \A j, k \in s9' : j.review.ticket = k.review.ticket => j = k
    <3>1. \A j \in s9 : j.review.ticket # s4 + 1
      BY <1>3, <2>1
    <3> QED
      BY <1>1, <1>5, <3>1 DEF ReviewsInv, TicketsOnce
  <2>8. \A j \in s9' : \A q \in HeldReviews : j.review.ticket # q.ticket
    <3>1. \A q \in HeldReviews : q.ticket # s4 + 1
      BY <1>3, <2>2
    <3> QED
      BY <1>1, <1>5, <3>1 DEF ReviewsInv, TicketsOnce
  <2>9. \A i \in DOMAIN s13 : \A j \in s9' :
           s13[i].review.ticket = j.review.ticket => j.what = "send" /\ j.answer # "none"
    <3>1. \A i \in DOMAIN s13 : s13[i].review.ticket # s4 + 1
      BY <1>3, <2>3
    <3> QED
      BY <1>1, <1>5, <3>1 DEF ReviewsInv, TicketsOnce
  <2> QED
    BY <1>1, <2>4, <2>5, <2>6, <2>7, <2>8, <2>9 DEF ReviewsInv, TicketsOnce, R!SentOnce
<1>8. WordsTyped'
  BY <1>1, <1>5 DEF ReviewsInv, WordsTyped, R!RevocationNeedsWord
<1>9. LedgerFits'
  BY <1>1, <1>5, LedgerRests DEF ReviewsInv
<1> QED
  BY <1>6, <1>7, <1>8, <1>9 DEF ReviewsInv

\* What was built is held, a revocation with the mark that asks for its word.
LEMMA ReviewBuilt ==
    ASSUME ReviewsInv, NEW j \in s9,
           R!FinishIdentityChangePrepared(j) \/ R!FinishConvertPrepare(j)
    PROVE  ReviewsInv'
<1>1. /\ s1' = s1 /\ s2' = s2 /\ s3' = s3 /\ s4' = s4 /\ s8' = s8 /\ s10' = s10 /\ s11' = s11
      /\ s12' = s12 /\ s13' = s13 /\ j.what = "build" /\ s9' = s9 \ {j}
      /\ s6 \subseteq s6' /\ s6' \subseteq s6 \cup {j.review.ticket}
      /\ s5' \subseteq s5 \cup {j.review} /\ s7' \subseteq s7 \cup {j.review}
      /\ j.review.kind = "conversion" => s5' = s5
      /\ j.review.kind # "conversion" => s7' = s7
      /\ j.review.kind = "revocation" /\ s5' # s5 => j.review.ticket \in s6'
  BY DEF R!FinishIdentityChangePrepared, R!FinishConvertPrepare, R!IsChange
<1>2. PICK r \in R!Review : r = j.review /\ r.ticket \in 1 .. Tickets
  BY ReviewJobs DEF ReviewsInv
<1>3. R!TypeOK'
  <2>1. s5' \subseteq {q \in R!Review : R!IsChange(q)}
    BY <1>1, <1>2 DEF ReviewsInv, R!TypeOK, R!IsChange
  <2>2. s7' \subseteq {q \in R!Review : ~R!IsChange(q)}
    BY <1>1, <1>2 DEF ReviewsInv, R!TypeOK, R!IsChange
  <2>3. s6' \subseteq R!Ticket
    BY <1>1, <1>2 DEF ReviewsInv, R!TypeOK, R!Ticket
  <2> QED
    BY <1>1, <2>1, <2>2, <2>3 DEF ReviewsInv, R!TypeOK
<1>4. TicketsOnce'
  <2>1. HeldReviews' \subseteq HeldReviews \cup {r}
    BY <1>1, <1>2 DEF HeldReviews
  <2> QED
    BY <1>1, <1>2, <2>1, TicketsIn DEF ReviewsInv
<1>5. WordsTyped'
  BY <1>1 DEF ReviewsInv, WordsTyped, R!RevocationNeedsWord
<1>6. LedgerFits'
  BY <1>1, LedgerRests DEF ReviewsInv
<1> QED
  BY <1>3, <1>4, <1>5, <1>6 DEF ReviewsInv

\* A review that is dropped takes its mark along.
LEMMA ReviewCancelled ==
    ASSUME ReviewsInv, NEW t \in R!Ticket, R!Cancel(t)
    PROVE  ReviewsInv'
<1>1. /\ s1' = s1 /\ s2' = s2 /\ s3' = s3 /\ s4' = s4 /\ s8' = s8 /\ s9' = s9 /\ s10' = s10
      /\ s11' = s11 /\ s12' = s12 /\ s13' = s13 /\ s5' = {r \in s5 : r.ticket # t}
      /\ s7' \subseteq s7 /\ s6 \ {t} \subseteq s6' /\ s6' \subseteq s6
  BY DEF R!Cancel
<1>2. R!TypeOK'
  BY <1>1 DEF ReviewsInv, R!TypeOK
<1>3. TicketsOnce'
  <2>1. HeldReviews' \subseteq HeldReviews
    BY <1>1 DEF HeldReviews
  <2> QED
    BY <1>1, <2>1, TicketsFewer DEF ReviewsInv
<1>4. WordsTyped'
  BY <1>1 DEF ReviewsInv, WordsTyped, R!RevocationNeedsWord
<1>5. LedgerFits'
  BY <1>1, LedgerRests DEF ReviewsInv
<1> QED
  BY <1>2, <1>3, <1>4, <1>5 DEF ReviewsInv

\* A change leaves with its word; refused, it stays, and a revocation never is.
LEMMA ChangeConfirmed ==
    ASSUME ReviewsInv, NEW r \in s5, NEW word \in BOOLEAN, R!ConfirmIdentityChange(r, word)
    PROVE  ReviewsInv'
<1>1. /\ s1' = s1 /\ s2' = s2 /\ s3' = s3 /\ s4' = s4 /\ s7' = s7 /\ s8' = s8 /\ s12' = s12
      /\ s13' = s13 /\ s6' = s6 \ {r.ticket} /\ (r.ticket \in s6 => word)
  BY DEF R!ConfirmIdentityChange
<1>2. r \in R!Review /\ r.kind # "conversion" /\ r.ticket \in 1 .. Tickets
  BY ReviewKinds DEF ReviewsInv
<1>3. \A q \in s5 : q.ticket = r.ticket => q = r
  BY DEF ReviewsInv, TicketsOnce, HeldReviews
<1>4. s6' \subseteq R!Ticket
  BY <1>1 DEF ReviewsInv, R!TypeOK
<1>5. CASE s5' = s5 /\ s9' = s9 /\ s11' = s11 /\ R!Refuse(r.kind)
  <2>1. r.kind # "revocation" /\ s10' = s10 + 1 /\ s10 < Refusals
    BY <1>5, ReviewConstants DEF R!Refuse
  <2>2. s10' \in 0 .. Refusals
    BY <2>1, ReviewConstants DEF ReviewsInv, R!TypeOK
  <2>3. R!TypeOK'
    BY <1>1, <1>4, <1>5, <2>2 DEF ReviewsInv, R!TypeOK
  <2>4. TicketsOnce'
    <3>1. HeldReviews' \subseteq HeldReviews
      BY <1>1, <1>5 DEF HeldReviews
    <3> QED
      BY <1>1, <1>5, <3>1, TicketsFewer DEF ReviewsInv
  <2>5. WordsTyped'
    BY <1>1, <1>3, <1>5, <2>1 DEF ReviewsInv, WordsTyped, R!RevocationNeedsWord
  <2>6. LedgerFits'
    BY <1>1, <1>5, LedgerRests DEF ReviewsInv
  <2> QED
    BY <2>3, <2>4, <2>5, <2>6 DEF ReviewsInv
<1>6. CASE ~(s5' = s5 /\ s9' = s9 /\ s11' = s11 /\ R!Refuse(r.kind))
  <2>1. /\ s5' = s5 \ {r} /\ s10' = s10 /\ s9' = s9 \cup {R!Send(r, s1, 0)}
        /\ s11' = IF word THEN s11 \cup {r.ticket} ELSE s11
    BY <1>6 DEF R!ConfirmIdentityChange
  <2>2. s1 \in Chains
    BY DEF ReviewsInv, R!TypeOK
  <2>3. PICK new \in R!Job : /\ new = R!Send(r, s1, 0) /\ new.what = "send" /\ new.review = r
    BY <1>2, <2>2, JobsMade
  <2>4. R!TypeOK'
    BY <1>1, <1>2, <1>4, <2>1, <2>3 DEF ReviewsInv, R!TypeOK, R!Ticket
  <2>5. TicketsOnce'
    <3>1. r \notin s7 /\ r \in HeldReviews
      BY <1>2, ReviewKinds DEF ReviewsInv, HeldReviews
    <3>2. HeldReviews' \subseteq HeldReviews \ {r}
      BY <1>1, <2>1, <3>1 DEF HeldReviews
    <3> QED
      BY <1>1, <2>1, <2>3, <3>1, <3>2, TicketsOut DEF ReviewsInv
  <2>6. WordsTyped'
    <3>1. r.kind = "revocation" => r.ticket \in s11'
      BY <1>1, <2>1 DEF ReviewsInv, WordsTyped
    <3>2. s11 \subseteq s11'
      BY <2>1
    <3>3. \A q \in s5' : q.kind = "revocation" => q.ticket \in s6'
      BY <1>1, <1>3, <2>1 DEF ReviewsInv, WordsTyped
    <3>4. R!RevocationNeedsWord'
      BY <1>1, <3>2 DEF ReviewsInv, WordsTyped, R!RevocationNeedsWord
    <3>5. \A j \in s9' : j.what = "send" /\ j.review.kind = "revocation" => j.review.ticket \in s11'
      BY <2>1, <2>3, <3>1, <3>2 DEF ReviewsInv, WordsTyped
    <3> QED
      BY <3>3, <3>4, <3>5 DEF WordsTyped
  <2>7. LedgerFits'
    BY <1>1, <1>2, <2>1, <2>3, LedgerRests DEF ReviewsInv
  <2> QED
    BY <2>4, <2>5, <2>6, <2>7 DEF ReviewsInv
<1> QED
  BY <1>5, <1>6

\* A record the next conversion adds: nothing that is recorded is lost by it.
LEMMA LedgerGrows ==
    ASSUME ReviewsInv, NEW t \in 1 .. Tickets, NEW w \in BOOLEAN, s2' = R!Committed(s2, t, w),
           s2.next <= Records, s1' = s1, s3' = s3, s12' = s12
    PROVE  /\ FilesFit' /\ \A r, c : Recorded(r, c) => Recorded(r, c)'
           /\ \A j \in s9 : AnswersItsOwn(j)'
<1> DEFINE rec == [id |-> s2.next, tx |-> t, checks |-> 0, state |-> "uncertain"]
<1>1. /\ s2 \in R!Ledger /\ s2' \in R!Ledger /\ s2'.mem = s2.mem \cup {rec}
      /\ s2'.next = s2.next + 1
      /\ s2'.file = s2.file \/ s2'.file = [readable |-> TRUE, records |-> s2'.mem]
  BY LedgerCommits DEF ReviewsInv, R!TypeOK
<1>2. rec.id = s2.next /\ s2.next \in Nat /\ s2.file.records \subseteq R!Record
  BY <1>1 DEF R!Ledger, R!File
<1>3. \A old \in s2.mem : old.id \in Nat
  BY <1>1 DEF R!Ledger, R!Record
<1> HIDE DEF rec
<1>4. FilesFit
  BY DEF ReviewsInv, LedgerFits
<1>5. \A new \in s2'.mem : new.id < s2'.next /\ new.id <= Records
  BY <1>1, <1>2, <1>3, <1>4, ReviewConstants DEF FilesFit
<1>6. s2'.file.readable /\ \A new \in s2'.file.records : new.id <= Records
  <2>1. CASE s2'.file = s2.file
    BY <1>4, <2>1 DEF FilesFit
  <2>2. CASE s2'.file = [readable |-> TRUE, records |-> s2'.mem]
    <3>1. s2'.file.records = s2'.mem
      BY <2>2
    <3>2. s2'.file.readable
      BY <2>2
    <3> QED
      BY <1>5, <3>1, <3>2
  <2> QED
    BY <1>1, <2>1, <2>2
<1>7. FilesFit'
  <2>1. s2'.next <= Records + 1
    BY <1>1, <1>2, ReviewConstants
  <2> QED
    BY <1>4, <1>5, <1>6, <2>1 DEF FilesFit
<1>8. ASSUME NEW r, NEW c, Recorded(r, c)
      PROVE  Recorded(r, c)'
  <2>1. c = s1 => \A old \in R!FileOf(c).records : old \in s2.mem => old \in R!FileOf(c)'.records
    <3>1. c = s1 => R!FileOf(c) = s2.file /\ R!FileOf(c)' = s2'.file
      BY DEF R!FileOf
    <3>2. s2'.file = [readable |-> TRUE, records |-> s2'.mem] => s2'.file.records = s2'.mem
      OBVIOUS
    <3> QED
      BY <1>1, <3>1, <3>2
  <2>2. c # s1 => R!FileOf(c)' = R!FileOf(c)
    BY DEF R!FileOf
  <2> QED
    BY <1>1, <1>8, <2>1, <2>2 DEF Recorded
<1>9. ASSUME NEW j \in s9
      PROVE  AnswersItsOwn(j)'
  <2>1. j.record \in Nat
    BY ReviewJobs DEF ReviewsInv
  <2>2. AnswersItsOwn(j)
    BY DEF ReviewsInv, LedgerFits
  <2> QED
    BY <1>1, <1>2, <2>1, <2>2 DEF AnswersItsOwn
<1> QED
  BY <1>7, <1>8, <1>9

\* A conversion that leaves is recorded first; one that is not written stays.
LEMMA ConversionConfirmed ==
    ASSUME ReviewsInv, NEW r \in s7, NEW wrote \in BOOLEAN, R!ConfirmConversion(r, wrote)
    PROVE  ReviewsInv'
<1>1. /\ s1' = s1 /\ s3' = s3 /\ s4' = s4 /\ s5' = s5 /\ s6' = s6 /\ s11' = s11 /\ s12' = s12
      /\ s13' = s13 /\ s2.next <= Records
  BY DEF R!ConfirmConversion
<1>2. r \in R!Review /\ r.kind = "conversion" /\ r.ticket \in 1 .. Tickets
  BY ReviewKinds DEF ReviewsInv
<1>3. CASE s2' = s2 /\ s7' = s7 /\ s8' = s8 /\ s9' = s9 /\ R!Refuse("conversion")
  <2>1. s10' = s10 + 1 /\ s10 < Refusals
    BY <1>3 DEF R!Refuse
  <2>2. s10' \in 0 .. Refusals
    BY <2>1, ReviewConstants DEF ReviewsInv, R!TypeOK
  <2>3. R!TypeOK'
    BY <1>1, <1>3, <2>2 DEF ReviewsInv, R!TypeOK
  <2>4. TicketsOnce'
    BY <1>1, <1>3, TicketsFewer DEF ReviewsInv, HeldReviews
  <2>5. WordsTyped'
    BY <1>1, <1>3 DEF ReviewsInv, WordsTyped, R!RevocationNeedsWord
  <2>6. LedgerFits'
    BY <1>1, <1>3, LedgerRests DEF ReviewsInv
  <2> QED
    BY <2>3, <2>4, <2>5, <2>6 DEF ReviewsInv
<1>4. CASE /\ s2' = R!Committed(s2, r.ticket, wrote) /\ s10' = s10
           /\ ~wrote /\ s7' = s7 /\ s8' = s8 /\ s9' = s9
  <2>1. s2' \in R!Ledger
    BY <1>2, <1>4, LedgerCommits DEF ReviewsInv, R!TypeOK
  <2>2. R!TypeOK'
    BY <1>1, <1>4, <2>1 DEF ReviewsInv, R!TypeOK
  <2>3. TicketsOnce'
    BY <1>1, <1>4, TicketsFewer DEF ReviewsInv, HeldReviews
  <2>4. WordsTyped'
    BY <1>1, <1>4 DEF ReviewsInv, WordsTyped, R!RevocationNeedsWord
  <2>5. LedgerFits'
    <3>1. /\ FilesFit' /\ \A q, c : Recorded(q, c) => Recorded(q, c)'
          /\ \A j \in s9 : AnswersItsOwn(j)'
      BY <1>1, <1>2, <1>4, LedgerGrows
    <3>2. \A j \in s9' : j.what = "send" => Recorded(j.review, j.on)'
      BY <1>4, <3>1 DEF ReviewsInv, LedgerFits
    <3>3. \A i \in DOMAIN s13' : Recorded(s13[i].review, s13[i].on)'
      BY <1>1, <3>1 DEF ReviewsInv, LedgerFits
    <3> QED
      BY <1>1, <1>4, <3>1, <3>2, <3>3 DEF LedgerFits
  <2> QED
    BY <2>2, <2>3, <2>4, <2>5 DEF ReviewsInv
<1>5. CASE /\ s2' = R!Committed(s2, r.ticket, wrote) /\ s10' = s10 /\ wrote
           /\ s7' = s7 \ {r} /\ s8' = TRUE /\ s9' = s9 \cup {R!Send(r, s1, s2.next)}
  <2>1. /\ s2 \in R!Ledger /\ s2.next \in Nat /\ s1 \in Chains
        /\ \A rec \in s2.mem : rec.id \in Nat
    BY DEF ReviewsInv, R!TypeOK, R!Ledger, R!Record
  <2>2. PICK new \in R!Job : /\ new = R!Send(r, s1, s2.next) /\ new.what = "send"
                             /\ new.review = r /\ new.record = s2.next /\ new.on = s1
    BY <1>2, <2>1, JobsMade
  <2>3. PICK rec : /\ rec = [id |-> s2.next, tx |-> r.ticket, checks |-> 0,
                             state |-> "uncertain"]
                   /\ rec.id = s2.next /\ rec.tx = r.ticket /\ rec.state = "uncertain"
    <3> DEFINE made == [id |-> s2.next, tx |-> r.ticket, checks |-> 0, state |-> "uncertain"]
    <3>1. made.id = s2.next /\ made.tx = r.ticket /\ made.state = "uncertain"
      OBVIOUS
    <3> QED
      BY <3>1
  <2>4. /\ s2' \in R!Ledger /\ s2'.mem = s2.mem \cup {rec} /\ s2'.next = s2.next + 1
        /\ s2'.file = [readable |-> TRUE, records |-> s2'.mem]
    BY <1>2, <1>5, <2>1, <2>3, LedgerCommits
  <2>5. s8' \in BOOLEAN
    BY <1>5
  <2>6. R!TypeOK'
    <3>1. s9' \subseteq R!Job
      BY <1>5, <2>2 DEF ReviewsInv, R!TypeOK
    <3> QED
      BY <1>1, <1>5, <2>4, <2>5, <3>1 DEF ReviewsInv, R!TypeOK
  <2>7. TicketsOnce'
    <3>1. r \notin s5 /\ r \in HeldReviews
      BY <1>2, ReviewKinds DEF ReviewsInv, HeldReviews
    <3>2. HeldReviews' \subseteq HeldReviews \ {r}
      BY <1>1, <1>5, <3>1 DEF HeldReviews
    <3>3. s9' \subseteq s9 \cup {new}
      BY <1>5, <2>2
    <3> QED
      BY <1>1, <2>2, <3>1, <3>2, <3>3, TicketsOut DEF ReviewsInv
  <2>8. WordsTyped'
    <3>1. \A j \in s9' : j.what = "send" /\ j.review.kind = "revocation" => j.review.ticket \in s11'
      BY <1>1, <1>2, <1>5, <2>2 DEF ReviewsInv, WordsTyped
    <3> QED
      BY <1>1, <3>1 DEF ReviewsInv, WordsTyped, R!RevocationNeedsWord
  <2>9. LedgerFits'
    <3>1. /\ FilesFit' /\ \A q, c : Recorded(q, c) => Recorded(q, c)'
          /\ \A j \in s9 : AnswersItsOwn(j)'
      BY <1>1, <1>2, <1>5, LedgerGrows
    <3>2. \A i \in DOMAIN s13' : Recorded(s13[i].review, s13[i].on)'
      BY <1>1, <3>1 DEF ReviewsInv, LedgerFits
    <3>3. AnswersItsOwn(new)'
      <4>1. \A old \in s2'.mem : old.id = s2.next => old.tx = r.ticket
        <5>1. \A old \in s2.mem : old.id < s2.next
          BY DEF ReviewsInv, LedgerFits, FilesFit
        <5> QED
          BY <2>1, <2>3, <2>4, <5>1
      <4> QED
        BY <1>1, <2>1, <2>2, <2>4, <4>1 DEF AnswersItsOwn
    <3>4. Recorded(new.review, new.on)'
      <4>1. R!FileOf(new.on)'.records = s2'.mem
        BY <1>1, <2>2, <2>4 DEF R!FileOf
      <4> QED
        BY <2>2, <2>3, <2>4, <4>1 DEF Recorded
    <3>5. \A j \in s9' : AnswersItsOwn(j)'
      BY <1>5, <2>2, <3>1, <3>3
    <3>6. \A j \in s9' : j.what = "send" => Recorded(j.review, j.on)'
      <4>1. \A j \in s9 : j.what = "send" => Recorded(j.review, j.on)'
        BY <3>1 DEF ReviewsInv, LedgerFits
      <4> QED
        BY <1>5, <2>2, <3>4, <4>1
    <3> QED
      BY <1>1, <3>1, <3>2, <3>5, <3>6 DEF LedgerFits
  <2> QED
    BY <2>6, <2>7, <2>8, <2>9 DEF ReviewsInv
<1> QED
  BY <1>3, <1>4, <1>5 DEF R!ConfirmConversion

\* The worker hands over what it was given, once.
LEMMA WorkAnswered ==
    ASSUME ReviewsInv, NEW j \in s9, NEW answer \in R!Answers, answer # "none", R!Run(j, answer)
    PROVE  ReviewsInv'
<1> DEFINE gone == [review |-> j.review, on |-> j.on]
<1>1. /\ s1' = s1 /\ s2' = s2 /\ s3' = s3 /\ s4' = s4 /\ s5' = s5 /\ s6' = s6 /\ s7' = s7
      /\ s8' = s8 /\ s10' = s10 /\ s11' = s11 /\ s12' = s12 /\ j.answer = "none"
  BY DEF R!Run
<1>2. /\ j \in R!Job /\ j.review \in R!Review /\ j.review.ticket \in 1 .. Tickets
      /\ j.on \in Chains /\ s13 \in Seq(R!Sending)
  BY ReviewJobs DEF ReviewsInv, R!TypeOK
<1>3. PICK new \in R!Job : /\ s9' = (s9 \ {j}) \cup {new} /\ new.review = j.review
                           /\ new.what = j.what /\ new.on = j.on /\ new.record = j.record
                           /\ new.answer = answer
  <2> DEFINE after == [j EXCEPT !.answer = answer]
  <2>1. after \in R!Job
    BY <1>2 DEF R!Job
  <2>2. /\ after.review = j.review /\ after.what = j.what /\ after.on = j.on
        /\ after.record = j.record /\ after.answer = answer
    BY <1>2 DEF R!Job
  <2>3. s9' = (s9 \ {j}) \cup {after}
    BY DEF R!Run
  <2> QED
    BY <2>1, <2>2, <2>3
<1>4. gone \in R!Sending /\ gone.review = j.review /\ gone.on = j.on
  BY <1>2 DEF R!Sending
<1> HIDE DEF gone
<1>5. /\ s13' \in Seq(R!Sending) /\ DOMAIN s13 \subseteq DOMAIN s13'
      /\ \A i \in DOMAIN s13 : s13'[i] = s13[i]
      /\ \A i \in DOMAIN s13' \ DOMAIN s13 :
            s13'[i] = gone /\ i = Len(s13) + 1 /\ j.what = "send"
  <2>1. CASE j.what = "send"
    <3>1. s13' = Append(s13, gone)
      BY <2>1 DEF R!Run, gone
    <3>2. /\ s13' \in Seq(R!Sending) /\ Len(s13') = Len(s13) + 1 /\ Len(s13) \in Nat
          /\ \A i \in 1 .. Len(s13) : s13'[i] = s13[i]
          /\ s13'[Len(s13) + 1] = gone
      BY <1>2, <1>4, <3>1
    <3>3. DOMAIN s13 = 1 .. Len(s13) /\ DOMAIN s13' = 1 .. (Len(s13) + 1)
      BY <1>2, <3>2
    <3> QED
      BY <2>1, <3>2, <3>3
  <2>2. CASE j.what # "send"
    BY <1>2, <2>2 DEF R!Run
  <2> QED
    BY <2>1, <2>2
<1>6. /\ \A i \in DOMAIN s13 : s13[i].review.ticket # j.review.ticket
      /\ \A k \in s9 \ {j} : k.review.ticket # j.review.ticket
      /\ j.review.ticket <= s4 /\ \A q \in HeldReviews : q.ticket # j.review.ticket
  BY <1>1 DEF ReviewsInv, TicketsOnce
<1>7. R!TypeOK'
  BY <1>1, <1>3, <1>5 DEF ReviewsInv, R!TypeOK
<1>8. TicketsOnce'
  <2>1. HeldReviews' = HeldReviews
    BY <1>1 DEF HeldReviews
  <2>2. /\ \A k \in s9' : k.review.ticket <= s4
        /\ \A k, l \in s9' : k.review.ticket = l.review.ticket => k = l
        /\ \A k \in s9' : \A q \in HeldReviews : k.review.ticket # q.ticket
    <3>1. \A k \in s9' : k \in s9 \ {j} \/ k = new
      BY <1>1, <1>3
    <3> QED
      BY <1>3, <1>6, <3>1 DEF ReviewsInv, TicketsOnce
  <2>3. \A i \in DOMAIN s13' : i \in DOMAIN s13 \/ s13'[i].review = j.review
    BY <1>4, <1>5
  <2>4. /\ \A i \in DOMAIN s13' : s13'[i].review.ticket <= s4
        /\ \A i \in DOMAIN s13' : \A q \in HeldReviews : s13'[i].review.ticket # q.ticket
    BY <1>5, <1>6, <2>3 DEF ReviewsInv, TicketsOnce
  <2>5. \A i \in DOMAIN s13' : \A k \in s9' :
           s13'[i].review.ticket = k.review.ticket => k.what = "send" /\ k.answer # "none"
    <3>1. ASSUME NEW i \in DOMAIN s13', NEW k \in s9 \ {j},
                 s13'[i].review.ticket = k.review.ticket
          PROVE  k.what = "send" /\ k.answer # "none"
      BY <1>5, <1>6, <2>3, <3>1 DEF ReviewsInv, TicketsOnce
    <3>2. ASSUME NEW i \in DOMAIN s13', s13'[i].review.ticket = j.review.ticket
          PROVE  j.what = "send" /\ answer # "none"
      BY <1>5, <1>6, <3>2
    <3> QED
      BY <1>1, <1>3, <3>1, <3>2
  <2>6. R!SentOnce'
    <3>1. ASSUME NEW i \in DOMAIN s13', NEW k \in DOMAIN s13',
                 s13'[i].review.ticket = s13'[k].review.ticket
          PROVE  i = k
      <4>1. CASE i \in DOMAIN s13 /\ k \in DOMAIN s13
        BY <1>5, <3>1, <4>1 DEF ReviewsInv, TicketsOnce, R!SentOnce
      <4>2. CASE i \notin DOMAIN s13 /\ k \notin DOMAIN s13
        BY <1>5, <4>2
      <4>3. CASE i \in DOMAIN s13 /\ k \notin DOMAIN s13
        BY <1>4, <1>5, <1>6, <3>1, <4>3
      <4>4. CASE i \notin DOMAIN s13 /\ k \in DOMAIN s13
        BY <1>4, <1>5, <1>6, <3>1, <4>4
      <4> QED
        BY <4>1, <4>2, <4>3, <4>4
    <3> QED
      BY <3>1 DEF R!SentOnce
  <2> QED
    BY <1>1, <2>1, <2>2, <2>4, <2>5, <2>6 DEF ReviewsInv, TicketsOnce
<1>9. WordsTyped'
  <2>1. \A k \in s9' : k.what = "send" /\ k.review.kind = "revocation" => k.review.ticket \in s11
    BY <1>1, <1>3 DEF ReviewsInv, WordsTyped
  <2>2. \A i \in DOMAIN s13' : s13'[i].review.kind = "revocation" => s13'[i].review.ticket \in s11
    <3>1. \A i \in DOMAIN s13' \ DOMAIN s13 : s13'[i].review = j.review /\ j.what = "send"
      BY <1>4, <1>5
    <3> QED
      BY <1>5, <3>1 DEF ReviewsInv, WordsTyped, R!RevocationNeedsWord
  <2> QED
    BY <1>1, <2>1, <2>2 DEF ReviewsInv, WordsTyped, R!RevocationNeedsWord
<1>10. LedgerFits'
  <2>1. \A q, c : Recorded(q, c) => Recorded(q, c)'
    BY <1>1 DEF Recorded, R!FileOf
  <2>2. FilesFit'
    BY <1>1 DEF ReviewsInv, LedgerFits, FilesFit
  <2>3. \A k \in s9' : AnswersItsOwn(k)'
    BY <1>1, <1>3 DEF ReviewsInv, LedgerFits, AnswersItsOwn
  <2>4. \A k \in s9' : k.what = "send" => Recorded(k.review, k.on)'
    <3>1. \A k \in s9' : k.what = "send" => Recorded(k.review, k.on)
      BY <1>1, <1>3 DEF ReviewsInv, LedgerFits
    <3> QED
      BY <2>1, <3>1
  <2>5. \A i \in DOMAIN s13' : Recorded(s13'[i].review, s13'[i].on)
    <3>1. \A i \in DOMAIN s13' \ DOMAIN s13 :
             s13'[i].review = j.review /\ s13'[i].on = j.on /\ j.what = "send"
      BY <1>4, <1>5
    <3> QED
      BY <1>5, <3>1 DEF ReviewsInv, LedgerFits
  <2>6. \A i \in DOMAIN s13' : Recorded(s13[i].review, s13[i].on)'
    BY <1>1, <2>5 DEF Recorded, R!FileOf
  <2> QED
    BY <2>2, <2>3, <2>4, <2>6 DEF LedgerFits
<1> QED
  BY <1>7, <1>8, <1>9, <1>10 DEF ReviewsInv

\* An answer that is read takes the job out.
LEMMA ChangeFinished ==
    ASSUME ReviewsInv, NEW j \in s9, R!FinishIdentityChanged(j)
    PROVE  ReviewsInv'
<1>1. /\ s1' = s1 /\ s2' = s2 /\ s3' = s3 /\ s4' = s4 /\ s5' = s5 /\ s6' = s6 /\ s7' = s7
      /\ s8' = s8 /\ s9' = s9 \ {j} /\ s10' = s10 /\ s11' = s11 /\ s12' = s12 /\ s13' = s13
  BY DEF R!FinishIdentityChanged
<1>2. R!TypeOK'
  BY <1>1 DEF ReviewsInv, R!TypeOK
<1>3. TicketsOnce'
  BY <1>1, TicketsFewer DEF ReviewsInv, HeldReviews
<1>4. WordsTyped'
  BY <1>1 DEF ReviewsInv, WordsTyped, R!RevocationNeedsWord
<1>5. LedgerFits'
  BY <1>1, LedgerRests DEF ReviewsInv
<1> QED
  BY <1>2, <1>3, <1>4, <1>5 DEF ReviewsInv

\* The answer marks the record of its own transaction; the others' stay undecided.
LEMMA ConvertFinished ==
    ASSUME ReviewsInv, NEW j \in s9, NEW w1 \in BOOLEAN, NEW w2 \in BOOLEAN,
           R!FinishConvertBroadcast(j, w1, w2)
    PROVE  ReviewsInv'
<1>1. /\ s1' = s1 /\ s3' = s3 /\ s4' = s4 /\ s5' = s5 /\ s6' = s6 /\ s7' = s7
      /\ s8' = FALSE /\ s9' = s9 \ {j} /\ s10' = s10 /\ s11' = s11 /\ s13' = s13
      /\ j.what = "send" /\ j.answer # "none" /\ R!IsChange(j.review) = FALSE
  BY DEF R!FinishConvertBroadcast
<1>2. /\ j.review.ticket \in 1 .. Tickets /\ j.record \in Nat /\ j.review.kind = "conversion"
      /\ s2 \in R!Ledger
  BY <1>1, ReviewJobs DEF ReviewsInv, R!TypeOK, R!IsChange
<1>3. s8' \in BOOLEAN
  BY <1>1
<1>4. TicketsOnce'
  BY <1>1, TicketsFewer DEF ReviewsInv, HeldReviews
<1>5. WordsTyped'
  BY <1>1 DEF ReviewsInv, WordsTyped, R!RevocationNeedsWord
<1>6. CASE s2' = s2 /\ s12' = s12
  <2>1. R!TypeOK'
    BY <1>1, <1>3, <1>6 DEF ReviewsInv, R!TypeOK
  <2>2. LedgerFits'
    BY <1>1, <1>6, LedgerRests DEF ReviewsInv
  <2> QED
    BY <1>4, <1>5, <2>1, <2>2 DEF ReviewsInv
<1>7. CASE /\ s12' = s12 \cup {j.review.ticket}
           /\ \E s \in {"confirmed", "abandoned"} :
                 s2' = R!ConfirmedForgotten(R!StateSet(s2, j.record, s, w1), w2)
  <2>1. /\ s2' \in R!Ledger /\ s2'.next = s2.next /\ KeepsOthers(s2'.mem, s2.mem, j.record)
        /\ \/ s2'.file = s2.file
           \/ s2'.file.readable /\ KeepsOthers(s2'.file.records, s2.mem, j.record)
    <3>1. PICK s \in {"confirmed", "abandoned"}, l \in R!Ledger, id \in Nat :
             /\ l = s2 /\ id = j.record
             /\ s2' = R!ConfirmedForgotten(R!StateSet(l, id, s, w1), w2)
      BY <1>2, <1>7
    <3>3. PICK after : after = s2' /\ after = R!ConfirmedForgotten(R!StateSet(l, id, s, w1), w2)
      BY <3>1
    <3>2. /\ after \in R!Ledger /\ after.next = l.next /\ KeepsOthers(after.mem, l.mem, id)
          /\ \/ after.file = l.file
             \/ after.file.readable /\ KeepsOthers(after.file.records, l.mem, id)
      BY <3>3, LedgerAnswers
    <3> QED
      BY <3>1, <3>2, <3>3
  <2>2. R!TypeOK'
    <3>1. s12' \subseteq R!Ticket
      BY <1>2, <1>7 DEF ReviewsInv, R!TypeOK, R!Ticket
    <3> QED
      BY <1>1, <1>3, <2>1, <3>1 DEF ReviewsInv, R!TypeOK
  <2>3. FilesFit'
    <3>1. /\ FilesFit /\ s2.next \in Nat /\ \A rec \in s2.mem : rec.id \in Nat
      BY <1>2 DEF ReviewsInv, LedgerFits, R!Ledger, R!Record
    <3>2. \A rec \in s2'.mem : rec.id < s2'.next
      BY <2>1, <3>1 DEF FilesFit, KeepsOthers
    <3>3. \A rec \in s2.mem : rec.id <= Records
      BY <3>1, ReviewConstants DEF FilesFit
    <3>4. s2'.file.readable /\ \A rec \in s2'.file.records : rec.id <= Records
      BY <2>1, <3>1, <3>3 DEF FilesFit, KeepsOthers
    <3> QED
      BY <1>1, <2>1, <3>1, <3>2, <3>4 DEF FilesFit
  <2>4. \A k \in s9' : AnswersItsOwn(k)'
    <3>1. \A k \in s9' : AnswersItsOwn(k)
      BY <1>1 DEF ReviewsInv, LedgerFits
    <3> QED
      BY <1>1, <2>1, <3>1 DEF AnswersItsOwn, KeepsOthers
  <2>5. \A rec \in s2.mem : rec.id = j.record => rec.tx = j.review.ticket
    BY <1>1, <1>2 DEF ReviewsInv, LedgerFits, AnswersItsOwn
  <2>6. ASSUME NEW r, NEW c, Recorded(r, c)
        PROVE  Recorded(r, c)'
    <3>1. SUFFICES ASSUME r.kind = "conversion", r.ticket \notin s12'
                   PROVE  \E rec \in R!FileOf(c)'.records :
                             rec.tx = r.ticket /\ rec.state = "uncertain" /\ (c = s1 => rec \in s2'.mem)
      BY <1>1 DEF Recorded
    <3>2. r.ticket \notin s12 /\ r.ticket # j.review.ticket
      BY <1>7, <3>1
    <3>3. PICK rec \in R!FileOf(c).records :
             rec.tx = r.ticket /\ rec.state = "uncertain" /\ (c = s1 => rec \in s2.mem)
      BY <2>6, <3>1, <3>2 DEF Recorded
    <3>4. CASE c = s1
      <4>1. rec.id # j.record /\ rec \in s2.mem
        BY <2>5, <3>2, <3>3, <3>4
      <4>2. rec \in s2'.mem
        BY <2>1, <3>3, <4>1 DEF KeepsOthers
      <4>3. R!FileOf(c)' = s2'.file /\ R!FileOf(c) = s2.file
        BY <1>1, <3>4 DEF R!FileOf
      <4>4. rec \in s2'.file.records
        BY <2>1, <3>3, <4>1, <4>3 DEF KeepsOthers
      <4> QED
        BY <3>3, <4>2, <4>3, <4>4
    <3>5. CASE c # s1
      <4>1. R!FileOf(c)' = R!FileOf(c)
        BY <1>1, <3>5 DEF R!FileOf
      <4> QED
        BY <3>3, <3>5, <4>1
    <3> QED
      BY <3>4, <3>5
  <2>7. LedgerFits'
    <3>1. \A k \in s9' : k.what = "send" => Recorded(k.review, k.on)'
      BY <1>1, <2>6 DEF ReviewsInv, LedgerFits
    <3>2. \A i \in DOMAIN s13' : Recorded(s13[i].review, s13[i].on)'
      <4>1. \A i \in DOMAIN s13 : Recorded(s13[i].review, s13[i].on)
        BY DEF ReviewsInv, LedgerFits
      <4>2. SUFFICES ASSUME NEW i \in DOMAIN s13'
                     PROVE  Recorded(s13[i].review, s13[i].on)'
        OBVIOUS
      <4>3. PICK r, c : r = s13[i].review /\ c = s13[i].on /\ Recorded(r, c)
        BY <1>1, <4>1
      <4>4. Recorded(r, c)'
        BY <2>6, <4>3
      <4>5. r = s13'[i].review /\ c = s13'[i].on
        BY <1>1, <4>3
      <4> QED
        BY <4>4, <4>5 DEF Recorded, R!FileOf
    <3> QED
      BY <2>3, <2>4, <3>1, <3>2 DEF LedgerFits
  <2> QED
    BY <1>4, <1>5, <2>2, <2>7 DEF ReviewsInv
<1> QED
  BY <1>6, <1>7 DEF R!FinishConvertBroadcast

\* With nothing out, a file goes with its chain and is read back with it.
LEMMA ChainSwitched ==
    ASSUME ReviewsInv, NEW c \in Chains, R!SwitchNetwork(c)
    PROVE  ReviewsInv'
<1>1. /\ c # s1 /\ s9 = {} /\ s7 = {} /\ s1' = c /\ s2' = R!Opened(s3[c]) /\ s5' = {}
      /\ s6' = {} /\ s4' = s4 /\ s7' = s7 /\ s8' = s8 /\ s9' = s9 /\ s10' = s10
      /\ s11' = s11 /\ s12' = s12 /\ s13' = s13
      /\ s3' = [s3 EXCEPT ![s1] = s2.file, ![c] = R!EmptyFile]
  BY DEF R!SwitchNetwork, R!AtRest
<1>2. R!EmptyFile \in R!File /\ R!EmptyFile.readable /\ R!EmptyFile.records = {}
  <2>1. R!EmptyFile.readable
    BY DEF R!EmptyFile
  <2>2. R!EmptyFile.records = {}
    BY DEF R!EmptyFile
  <2>3. R!EmptyFile \in R!File
    BY DEF R!EmptyFile, R!File
  <2> QED
    BY <2>1, <2>2, <2>3
<1>3. /\ s1 \in Chains /\ s3 \in [Chains -> R!File] /\ s2.file \in R!File /\ s13 \in Seq(R!Sending)
  BY DEF ReviewsInv, R!TypeOK, R!Ledger
<1>4. FilesFit
  BY DEF ReviewsInv, LedgerFits
<1>5. /\ s3' \in [Chains -> R!File] /\ s3'[s1] = s2.file /\ s3'[c] = R!EmptyFile
      /\ \A d \in Chains : d # s1 /\ d # c => s3'[d] = s3[d]
  BY <1>1, <1>2, <1>3
<1>6. /\ s2' \in R!Ledger /\ s2'.file = s3[c] /\ s2'.mem = s3[c].records
      /\ s2'.next <= Records + 1 /\ \A rec \in s2'.mem : rec.id < s2'.next
  <2>1. s3[c] \in R!File /\ s3[c].readable /\ \A rec \in s3[c].records : rec.id <= Records
    BY <1>3, <1>4 DEF FilesFit
  <2> QED
    BY <1>1, <2>1, LedgerOpens
<1>7. R!TypeOK'
  BY <1>1, <1>3, <1>5, <1>6 DEF ReviewsInv, R!TypeOK
<1>8. TicketsOnce'
  BY <1>1, TicketsFewer DEF ReviewsInv, HeldReviews
<1>9. WordsTyped'
  BY <1>1 DEF ReviewsInv, WordsTyped, R!RevocationNeedsWord
<1>10. LedgerFits'
  <2>1. \A d \in Chains : s3'[d].readable /\ \A rec \in s3'[d].records : rec.id <= Records
    BY <1>2, <1>3, <1>4, <1>5 DEF FilesFit
  <2>2. s2'.file.readable /\ \A rec \in s2'.file.records : rec.id <= Records
    BY <1>3, <1>4, <1>6 DEF FilesFit
  <2>3. FilesFit'
    BY <1>6, <2>1, <2>2 DEF FilesFit
  <2>4. ASSUME NEW r, NEW d \in Chains, Recorded(r, d)
        PROVE  Recorded(r, d)'
    <3>1. R!FileOf(d)' = R!FileOf(d)
      BY <1>1, <1>3, <1>5, <1>6 DEF R!FileOf
    <3>2. d = c => R!FileOf(d).records = s2'.mem
      BY <1>1, <1>6 DEF R!FileOf
    <3> QED
      BY <1>1, <2>4, <3>1, <3>2 DEF Recorded
  <2>5. ASSUME NEW i \in DOMAIN s13'
        PROVE  Recorded(s13[i].review, s13[i].on)'
    <3>1. i \in DOMAIN s13 /\ s13[i] \in R!Sending
      BY <1>1, <1>3
    <3>2. PICK r \in R!Review, d \in Chains : r = s13[i].review /\ d = s13[i].on /\ Recorded(r, d)
      <4>1. s13[i].review \in R!Review /\ s13[i].on \in Chains
        BY <3>1 DEF R!Sending
      <4>2. Recorded(s13[i].review, s13[i].on)
        BY <3>1 DEF ReviewsInv, LedgerFits
      <4> QED
        BY <4>1, <4>2
    <3>3. Recorded(r, d)'
      BY <2>4, <3>2
    <3>4. r = s13'[i].review /\ d = s13'[i].on
      BY <1>1, <3>2
    <3> QED
      BY <3>3, <3>4 DEF Recorded, R!FileOf
  <2> QED
    BY <1>1, <2>3, <2>5 DEF LedgerFits
<1> QED
  BY <1>7, <1>8, <1>9, <1>10 DEF ReviewsInv

\* After a crash the file is all there is.
LEMMA ReviewsRestart == ASSUME ReviewsInv, R!Restart PROVE ReviewsInv'
<1>1. /\ s1' = s1 /\ s2' = R!Opened(s2.file) /\ s3' = s3 /\ s4' = s4 /\ s5' = {} /\ s6' = {}
      /\ s7' = {} /\ s8' = FALSE /\ s9' = {} /\ s10' = s10 /\ s11' = s11 /\ s12' = s12
      /\ s13' = s13
  BY DEF R!Restart
<1>2. /\ s2' \in R!Ledger /\ s2'.file = s2.file /\ s2'.mem = s2.file.records
      /\ s2'.next <= Records + 1 /\ \A rec \in s2'.mem : rec.id < s2'.next
  <2>1. s2.file \in R!File /\ s2.file.readable /\ \A rec \in s2.file.records : rec.id <= Records
    BY DEF ReviewsInv, R!TypeOK, R!Ledger, LedgerFits, FilesFit
  <2> QED
    BY <1>1, <2>1, LedgerOpens
<1>3. R!TypeOK'
  <2>1. s8' \in BOOLEAN
    BY <1>1
  <2> QED
    BY <1>1, <1>2, <2>1 DEF ReviewsInv, R!TypeOK
<1>4. TicketsOnce'
  BY <1>1, TicketsFewer DEF ReviewsInv, HeldReviews
<1>5. WordsTyped'
  BY <1>1 DEF ReviewsInv, WordsTyped, R!RevocationNeedsWord
<1>6. LedgerFits'
  <2>1. FilesFit'
    BY <1>1, <1>2 DEF ReviewsInv, LedgerFits, FilesFit
  <2>2. \A r, c : Recorded(r, c) => Recorded(r, c)'
    BY <1>1, <1>2 DEF Recorded, R!FileOf
  <2>3. \A i \in DOMAIN s13' : Recorded(s13[i].review, s13[i].on)'
    <3>1. SUFFICES ASSUME NEW i \in DOMAIN s13'
                   PROVE  Recorded(s13[i].review, s13[i].on)'
      OBVIOUS
    <3>2. PICK r, c : r = s13[i].review /\ c = s13[i].on /\ Recorded(r, c)
      BY <1>1 DEF ReviewsInv, LedgerFits
    <3>3. Recorded(r, c)'
      BY <2>2, <3>2
    <3>4. r = s13'[i].review /\ c = s13'[i].on
      BY <1>1, <3>2
    <3> QED
      BY <3>3, <3>4 DEF Recorded, R!FileOf
  <2> QED
    BY <1>1, <2>1, <2>3 DEF LedgerFits
<1> QED
  BY <1>3, <1>4, <1>5, <1>6 DEF ReviewsInv

LEMMA ReviewsRest == ASSUME ReviewsInv, UNCHANGED R!vars PROVE ReviewsInv'
<1>1. /\ s1' = s1 /\ s2' = s2 /\ s3' = s3 /\ s4' = s4 /\ s5' = s5 /\ s6' = s6 /\ s7' = s7
      /\ s8' = s8 /\ s9' = s9 /\ s10' = s10 /\ s11' = s11 /\ s12' = s12 /\ s13' = s13
  BY DEF R!vars
<1>2. R!TypeOK'
  BY <1>1 DEF ReviewsInv, R!TypeOK
<1>3. TicketsOnce'
  BY <1>1, TicketsFewer DEF ReviewsInv, HeldReviews
<1>4. WordsTyped'
  BY <1>1 DEF ReviewsInv, WordsTyped, R!RevocationNeedsWord
<1>5. LedgerFits'
  BY <1>1, LedgerRests DEF ReviewsInv
<1> QED
  BY <1>2, <1>3, <1>4, <1>5 DEF ReviewsInv

LEMMA ReviewsStep == ReviewsInv /\ [R!Next]_(R!vars) => ReviewsInv'
<1> SUFFICES ASSUME ReviewsInv, [R!Next]_(R!vars) PROVE ReviewsInv'
  OBVIOUS
<1>1. CASE UNCHANGED R!vars
  BY <1>1, ReviewsRest
<1>2. CASE R!Command
  <2>1. CASE \E kind \in R!Kind : R!Prepare(kind)
    BY <2>1, ReviewAsked
  <2>2. CASE \E t \in R!Ticket : R!Cancel(t)
    BY <2>2, ReviewCancelled
  <2>3. CASE \E r \in s5, word \in BOOLEAN : R!ConfirmIdentityChange(r, word)
    BY <2>3, ChangeConfirmed
  <2>4. CASE \E r \in s7, wrote \in R!Write : R!ConfirmConversion(r, wrote)
    BY <2>4, ConversionConfirmed DEF R!Write
  <2>5. CASE \E c \in Chains : R!SwitchNetwork(c)
    BY <2>5, ChainSwitched
  <2> QED
    BY <1>2, <2>1, <2>2, <2>3, <2>4, <2>5 DEF R!Command
<1>3. ASSUME NEW j \in s9, R!Finish(j)
      PROVE  ReviewsInv'
  BY <1>3, ReviewBuilt, ChangeFinished, ConvertFinished DEF R!Finish, R!Write
<1>4. ASSUME NEW j \in s9, NEW answer \in R!Answers \ {"none"}, R!Run(j, answer)
      PROVE  ReviewsInv'
  BY <1>4, WorkAnswered
<1> QED
  BY <1>1, <1>2, <1>3, <1>4, ReviewsRestart DEF R!Next

\* What is on its way is recorded.
LEMMA ReviewsSound ==
    ReviewsInv => R!SentOnce /\ R!RevocationNeedsWord /\ R!UnansweredRecorded
<1> SUFFICES ASSUME ReviewsInv PROVE R!SentOnce /\ R!RevocationNeedsWord /\ R!UnansweredRecorded
  OBVIOUS
<1>1. ASSUME NEW s \in R!OnItsWay
      PROVE  Recorded(s.review, s.on)
  <2>1. CASE \E j \in s9 : j.what = "send" /\ s = [review |-> j.review, on |-> j.on]
    <3>1. PICK j \in s9 : j.what = "send" /\ s = [review |-> j.review, on |-> j.on]
      BY <2>1
    <3>2. s.review = j.review /\ s.on = j.on
      BY <3>1
    <3> QED
      BY <3>1, <3>2 DEF ReviewsInv, LedgerFits
  <2>2. CASE \E i \in DOMAIN s13 : s = s13[i]
    BY <2>2 DEF ReviewsInv, LedgerFits
  <2> QED
    BY <2>1, <2>2 DEF R!OnItsWay
<1>2. R!UnansweredRecorded
  BY <1>1 DEF R!UnansweredRecorded, R!IsChange, Recorded
<1> QED
  BY <1>2 DEF ReviewsInv, TicketsOnce, WordsTyped
-----------------------------------------------------------------------------
(* The notes: a scan follows its chain, and what was sent is marked in it *)

\* An account's scan, and the block it reads next.
Scan == [account : {a, NoAccount}, from : Nat, read : Seq(O!Block), spent : SUBSET Notes]
Ends == {"none", "walking", "failed", "done"}

NotesTyped ==
    /\ s1 \in [{c1} -> Seq(O!Block)] /\ s2 = 0 /\ s3 = c1 /\ s4 \in BOOLEAN /\ s5 = a
    /\ s6[c1] /\ s7 \in Scan /\ s8 \in [{c1} -> Scan]
    /\ s9 \in [chain : {c1}, watching : Scan, to : Nat, end : Ends]
    /\ s10 \in Notes \cup {NoNote} /\ s11 \subseteq Notes

\* What was read is the chain from the account's birth on.
Follows(w) ==
    \/ w = O!Absent
    \/ /\ w.account = a /\ w.from = Born
       /\ Len(w.read) > 0 => Born + Len(w.read) - 1 <= Len(s1[c1])
       /\ \A i \in 1 .. Len(w.read) : w.read[i] = s1[c1][Born + i - 1]

\* Every note that was sent was seen spent, or is remembered as spent.
Covers(w) == s11 \subseteq O!Seen(w) \cup w.spent

HeldFits == Follows(s7) /\ (s7 # O!Absent => s4 /\ Covers(s7))
KeptFits == Follows(s8[c1]) /\ (s11 # {} => s8[c1] # O!Absent /\ Covers(s8[c1]))
ScanFits ==
    /\ Follows(s9.watching)
    /\ O!Running => /\ s9.watching # O!Absent /\ Covers(s9.watching) /\ s9.to <= Len(s1[c1])
                    /\ s10 = NoNote
PayingFits == s10 # NoNote => s10 \in O!Unspent(s7)

NotesInv == NotesTyped /\ HeldFits /\ KeptFits /\ ScanFits /\ PayingFits

LEMMA NotesConstants ==
    /\ a # NoAccount /\ NoNote \notin Notes /\ Born \in Nat \ {0} /\ Stride \in Nat \ {0}
    /\ Length \in Nat /\ OnlyA[a] = Born /\ \A note \in Notes : AllToA[note] = a
<1>1. OnlyA \in [{a} -> Nat \ {0}] /\ OnlyA[a] = Born /\ AllToA = [note \in Notes |-> a]
  BY SpendingAssumption DEF O!ShieldedScanAssumption, OnlyA, AllToA
<1>2. a # NoAccount /\ NoNote \notin Notes /\ Stride \in Nat \ {0} /\ Length \in Nat
  BY SpendingAssumption DEF O!ShieldedScanAssumption
<1> QED
  BY <1>1, <1>2

\* No scan, and a scan that has read nothing.
LEMMA ScanBegins ==
    /\ O!Absent \in Scan /\ O!Absent.read = <<>> /\ O!Absent.account = NoAccount
    /\ O!Watching(a) \in Scan /\ O!Watching(a).read = <<>> /\ O!Watching(a).account = a
    /\ O!Watching(a).from = Born /\ O!Unspent(O!Absent) = {}
<1>1. <<>> \in Seq(O!Block) /\ {} \in SUBSET Notes /\ 0 \in Nat
  OBVIOUS
<1>2. O!Absent \in Scan /\ O!Absent.read = <<>> /\ O!Absent.account = NoAccount
  BY <1>1 DEF O!Absent, Scan
<1>3. /\ O!Watching(a) \in Scan /\ O!Watching(a).read = <<>> /\ O!Watching(a).account = a
      /\ O!Watching(a).from = Born
  BY <1>1, NotesConstants DEF O!Watching, Scan
<1>4. O!Unspent(O!Absent) = {}
  BY <1>2 DEF O!Unspent, O!Brought
<1> QED
  BY <1>2, <1>3, <1>4

LEMMA FollowsFromStart == Follows(O!Absent) /\ Follows(O!Watching(a))
<1>1. Follows(O!Absent)
  BY DEF Follows
<1>2. Len(O!Watching(a).read) = 0
  BY ScanBegins
<1>3. Follows(O!Watching(a))
  BY <1>2, ScanBegins DEF Follows
<1> QED
  BY <1>1, <1>3

LEMMA NoJobIs ==
    /\ O!NoJob.chain = c1 /\ O!NoJob.watching = O!Absent /\ O!NoJob.to = 0
    /\ O!NoJob.end = "none" /\ O!NoJob \in [chain : {c1}, watching : Scan, to : Nat, end : Ends]
<1>1. (CHOOSE c \in {c1} : TRUE) = c1
  OBVIOUS
<1>2. O!Absent \in Scan /\ 0 \in Nat /\ "none" \in Ends
  BY ScanBegins DEF Ends
<1> QED
  BY <1>1, <1>2 DEF O!NoJob

LEMMA NotesInit == ASSUME O!Init PROVE NotesInv
<1>1. /\ s1 = [c \in {c1} |-> <<>>] /\ s2 = 0 /\ s3 = c1 /\ s4 = FALSE /\ s5 = a
      /\ s6 = [c \in {c1} |-> TRUE] /\ s7 = O!Absent /\ s8 = [c \in {c1} |-> O!Absent]
      /\ s9 = O!NoJob /\ s10 = NoNote /\ s11 = {}
  BY DEF O!Init
<1>2. s4 \in BOOLEAN
  BY <1>1
<1>3. s6[c1]
  BY <1>1
<1>4. NotesTyped
  BY <1>1, <1>2, <1>3, ScanBegins, NoJobIs DEF NotesTyped
<1>5. HeldFits /\ KeptFits
  <2>1. s8[c1] = O!Absent
    BY <1>1
  <2> QED
    BY <1>1, <2>1, FollowsFromStart DEF HeldFits, KeptFits
<1>6. ScanFits /\ PayingFits
  BY <1>1, NoJobIs, FollowsFromStart DEF ScanFits, PayingFits, O!Running
<1> QED
  BY <1>4, <1>5, <1>6 DEF NotesInv

\* The invariant for what a step leaves alone.
LEMMA HeldRests ==
    ASSUME HeldFits, s1' = s1, s4' = s4, s7' = s7, s11' = s11
    PROVE  HeldFits'
  BY DEF HeldFits, Follows, Covers

LEMMA KeptRests ==
    ASSUME KeptFits, s1' = s1, s8' = s8, s11' = s11
    PROVE  KeptFits'
  BY DEF KeptFits, Follows, Covers

LEMMA JobRests ==
    ASSUME ScanFits, s1' = s1, s9' = s9, s10' = s10, s11' = s11
    PROVE  ScanFits'
  BY DEF ScanFits, Follows, Covers, O!Running

\* A chain that grows is followed as far as it was.
LEMMA BlockMined == ASSUME NotesInv, O!Mine(c1) PROVE NotesInv'
<1>1. /\ s2' = s2 /\ s3' = s3 /\ s4' = s4 /\ s5' = s5 /\ s6' = s6 /\ s7' = s7 /\ s8' = s8
      /\ s9' = s9 /\ s10' = s10 /\ s11' = s11
  BY DEF O!Mine
<1>2. s1 \in [{c1} -> Seq(O!Block)] /\ s1[c1] \in Seq(O!Block) /\ s2 = 0
  BY DEF NotesInv, NotesTyped
<1>3. O!TipFork(c1) \in 0 .. 0
  <2>1. CASE s1[c1] = <<>>
    BY <2>1 DEF O!TipFork
  <2>2. CASE s1[c1] # <<>>
    <3>1. s1[c1][Len(s1[c1])] \in O!Block
      BY <1>2, <2>2
    <3> QED
      BY <2>2, <3>1 DEF O!TipFork, O!Block
  <2> QED
    BY <2>1, <2>2
<1>4. PICK new \in O!Block : s1' = [s1 EXCEPT ![c1] = Append(@, new)]
  <2>1. PICK note \in Notes \cup {NoNote}, gone \in Notes \cup {NoNote} :
           s1' = [s1 EXCEPT ![c1] = Append(@, [chain |-> c1, fork |-> s2,
                    after |-> O!TipFork(c1), brings |-> note, spends |-> gone])]
    <3>1. s11 \subseteq Notes
      BY DEF NotesInv, NotesTyped
    <3> QED
      BY <3>1 DEF O!Mine
  <2>2. [chain |-> c1, fork |-> s2, after |-> O!TipFork(c1), brings |-> note,
         spends |-> gone] \in O!Block
    BY <1>2, <1>3 DEF O!Block
  <2> QED
    BY <2>1, <2>2
<1>5. /\ s1' \in [{c1} -> Seq(O!Block)] /\ s1'[c1] = Append(s1[c1], new)
      /\ Len(s1[c1]) \in Nat /\ Len(s1'[c1]) = Len(s1[c1]) + 1
      /\ \A i \in 1 .. Len(s1[c1]) : s1'[c1][i] = s1[c1][i]
  BY <1>2, <1>4
<1>6. ASSUME NEW w \in Scan, Follows(w)
      PROVE  Follows(w)'
  <2>1. Len(w.read) \in Nat
    BY DEF Scan
  <2> QED
    BY <1>5, <1>6, <2>1, NotesConstants DEF Follows
<1>7. NotesTyped'
  BY <1>1, <1>5 DEF NotesInv, NotesTyped
<1>8. s7 \in Scan /\ s8[c1] \in Scan /\ s9.watching \in Scan /\ s9.to \in Nat
  BY DEF NotesInv, NotesTyped
<1>9. Follows(s7)' /\ Follows(s8[c1])' /\ Follows(s9.watching)'
  <2>1. PICK w1 \in Scan, w2 \in Scan, w3 \in Scan :
           w1 = s7 /\ w2 = s8[c1] /\ w3 = s9.watching
    BY <1>8
  <2>2. Follows(w1)' /\ Follows(w2)' /\ Follows(w3)'
    BY <1>6, <2>1 DEF NotesInv, HeldFits, KeptFits, ScanFits
  <2>3. w1 = s7' /\ w2 = s8'[c1] /\ w3 = s9'.watching
    BY <1>1, <2>1
  <2> QED
    BY <2>2, <2>3 DEF Follows
<1>10. HeldFits' /\ KeptFits'
  BY <1>1, <1>9 DEF NotesInv, HeldFits, KeptFits, Covers
<1>11. ScanFits'
  BY <1>1, <1>5, <1>8, <1>9 DEF NotesInv, ScanFits, Covers, O!Running
<1>12. PayingFits'
  BY <1>1 DEF NotesInv, PayingFits
<1> QED
  BY <1>7, <1>10, <1>11, <1>12 DEF NotesInv

\* A scan begins on a copy of what is held.
LEMMA ScanStarted == ASSUME NotesInv, O!ScanShielded PROVE NotesInv'
<1>1. /\ s1' = s1 /\ s2' = s2 /\ s3' = s3 /\ s4' = s4 /\ s5' = s5 /\ s6' = s6 /\ s7' = s7
      /\ s8' = s8 /\ s10' = s10 /\ s11' = s11 /\ s7 # O!Absent /\ s10 = NoNote
      /\ s9' = [chain |-> s3, watching |-> s7, to |-> Len(s1[s3]), end |-> "walking"]
  BY DEF O!ScanShielded
<1>2. s3 = c1 /\ s1[c1] \in Seq(O!Block) /\ s7 \in Scan
  BY DEF NotesInv, NotesTyped
<1>3. s9'.watching = s7 /\ s9'.to = Len(s1[c1]) /\ Len(s1[c1]) \in Nat
  BY <1>1, <1>2
<1>4. NotesTyped'
  <2>1. "walking" \in Ends
    BY DEF Ends
  <2>2. s9' \in [chain : {c1}, watching : Scan, to : Nat, end : Ends]
    BY <1>1, <1>2, <1>3, <2>1
  <2> QED
    BY <1>1, <2>2 DEF NotesInv, NotesTyped
<1>5. HeldFits' /\ KeptFits'
  BY <1>1, HeldRests, KeptRests DEF NotesInv
<1>6. ScanFits'
  <2>1. Follows(s7) /\ Covers(s7)
    BY <1>1 DEF NotesInv, HeldFits
  <2>2. Follows(s9.watching)' /\ Covers(s9.watching)'
    BY <1>1, <1>3, <2>1 DEF Follows, Covers
  <2> QED
    BY <1>1, <1>3, <2>2 DEF ScanFits
<1>7. PayingFits'
  BY <1>1 DEF NotesInv, PayingFits
<1> QED
  BY <1>4, <1>5, <1>6, <1>7 DEF NotesInv

\* A longer reading has seen what the shorter one saw.
LEMMA SeenGrows ==
    ASSUME NEW w, NEW v, DOMAIN w.read \subseteq DOMAIN v.read,
           \A i \in DOMAIN w.read : v.read[i] = w.read[i]
    PROVE  O!Seen(w) \subseteq O!Seen(v)
  BY DEF O!Seen

\* What a part of a sequence is.
LEMMA PartOfSequence ==
    ASSUME NEW A, NEW q \in Seq(A), NEW lo \in Nat \ {0}, NEW hi \in Nat, lo <= hi, hi <= Len(q)
    PROVE  /\ SubSeq(q, lo, hi) \in Seq(A) /\ Len(SubSeq(q, lo, hi)) = hi - lo + 1
           /\ \A i \in 1 .. hi - lo + 1 : SubSeq(q, lo, hi)[i] = q[lo + i - 1]
  OBVIOUS

\* One stride reads the next blocks of the chain, as far as it is asked to.
LEMMA StrideRead ==
    ASSUME NotesTyped, NEW w \in Scan, w # O!Absent, Follows(w), Covers(w), NEW until \in Nat,
           O!ResumesAt(w) <= until, until <= Len(s1[c1])
    PROVE  LET did == O!Sync(w, c1, until)
           IN  did.end = "ok" /\ did.w \in Scan /\ did.w # O!Absent /\ Follows(did.w) /\ Covers(did.w)
<1>1. /\ s1[c1] \in Seq(O!Block) /\ Len(s1[c1]) \in Nat /\ w.account = a /\ w.from = Born
      /\ w.read \in Seq(O!Block) /\ w.spent \subseteq Notes /\ Len(w.read) \in Nat
      /\ \A i \in 1 .. Len(w.read) : w.read[i] = s1[c1][Born + i - 1]
      /\ Len(w.read) > 0 => Born + Len(w.read) - 1 <= Len(s1[c1])
      /\ Born \in Nat \ {0}
  BY NotesConstants DEF NotesTyped, Scan, Follows
<1>2. O!ScannedTo(w) = Born + Len(w.read) - 1
  BY <1>1 DEF O!ScannedTo
<1>3. Len(w.read) \in Nat /\ Born \in Nat \ {0}
  BY NotesConstants DEF Scan
<1>4. CASE w.read = <<>>
  <2>1. Born <= until /\ Len(w.read) = 0
    BY <1>1, <1>4 DEF O!ResumesAt, O!Scanned
  <2> DEFINE v == [w EXCEPT !.read = SubSeq(s1[c1], Born, until)]
  <2>2. /\ SubSeq(s1[c1], Born, until) \in Seq(O!Block)
        /\ Len(SubSeq(s1[c1], Born, until)) = until - Born + 1
        /\ \A i \in 1 .. until - Born + 1 : SubSeq(s1[c1], Born, until)[i] = s1[c1][Born + i - 1]
    BY <1>1, <2>1
  <2>3. /\ v \in Scan /\ v.account = a /\ v.from = Born /\ v.spent = w.spent
        /\ v.read = SubSeq(s1[c1], Born, until)
    BY <1>1, <2>2 DEF Scan
  <2>4. O!Sync(w, c1, until) = [w |-> v, end |-> "ok"]
    BY <1>1, <1>4 DEF O!Sync, O!Scanned
  <2> HIDE DEF v
  <2>5. v # O!Absent
    BY <2>3, NotesConstants, ScanBegins
  <2>6. Follows(v)
    BY <1>1, <2>1, <2>2, <2>3 DEF Follows
  <2>7. Covers(v)
    <3>1. DOMAIN w.read = {}
      BY <1>4
    <3>2. O!Seen(w) \subseteq O!Seen(v)
      BY <3>1 DEF O!Seen
    <3> QED
      BY <2>3, <3>2 DEF Covers
  <2> QED
    BY <2>3, <2>4, <2>5, <2>6, <2>7
<1>5. CASE w.read # <<>>
  <2>1. /\ Len(w.read) > 0 /\ Born + Len(w.read) <= until
        /\ O!ScannedTo(w) + 1 = Born + Len(w.read) /\ O!ScannedTo(w) \in Nat
        /\ O!Scanned(w)
    <3>1. PICK k \in Nat : k = Len(w.read) /\ k > 0
      <4>1. w.read \in Seq(O!Block)
        BY DEF Scan
      <4> QED
        BY <1>5, <1>3, <4>1
    <3>2. O!ScannedTo(w) = Born + k - 1 /\ O!ScannedTo(w) + 1 <= until /\ O!Scanned(w)
      BY <1>2, <1>5, <3>1 DEF O!ResumesAt, O!Scanned
    <3> QED
      BY <3>1, <3>2, NotesConstants
  <2>2. O!Descends(w, c1)
    <3>1. PICK k \in Nat : k = Len(w.read) /\ k > 0
      BY <1>3, <2>1
    <3>2. k \in 1 .. Len(w.read) /\ O!ScannedTo(w) = Born + k - 1
      BY <1>2, <3>1
    <3>3. w.read[k] = s1[c1][Born + k - 1] /\ Born + k - 1 <= Len(s1[c1])
      BY <1>1, <3>1, <3>2
    <3> QED
      BY <3>1, <3>2, <3>3 DEF O!Descends
  <2> DEFINE more == SubSeq(s1[c1], O!ScannedTo(w) + 1, until)
             read == w.read \o more
             seen == {read[i].spends : i \in DOMAIN read}
             v == [[w EXCEPT !.read = read] EXCEPT !.spent = w.spent \ seen]
  <2>3. /\ more \in Seq(O!Block) /\ Len(more) = until - (Born + Len(w.read)) + 1
        /\ \A i \in 1 .. Len(more) : more[i] = s1[c1][Born + Len(w.read) + i - 1]
    <3>1. Born + Len(w.read) \in Nat \ {0}
      BY <1>1
    <3>2. more = SubSeq(s1[c1], Born + Len(w.read), until)
      BY <2>1
    <3>3. PICK lo \in Nat \ {0} : lo = Born + Len(w.read)
      BY <3>1
    <3>4. PICK q \in Seq(O!Block) : q = s1[c1]
      BY <1>1
    <3>5. lo <= until /\ until <= Len(q) /\ more = SubSeq(q, lo, until)
      BY <2>1, <3>2, <3>3, <3>4
    <3> HIDE DEF more
    <3>6. /\ more \in Seq(O!Block) /\ Len(more) = until - lo + 1
          /\ \A i \in 1 .. until - lo + 1 : more[i] = q[lo + i - 1]
      BY <3>5, PartOfSequence
    <3> QED
      BY <3>3, <3>4, <3>6
  <2>4. /\ read \in Seq(O!Block) /\ Len(read) = Len(w.read) + Len(more)
        /\ \A i \in 1 .. Len(w.read) : read[i] = w.read[i]
        /\ \A i \in Len(w.read) + 1 .. Len(read) : read[i] = more[i - Len(w.read)]
    <3> HIDE DEF more
    <3> QED
      BY <1>1, <2>3
  <2>5. /\ v \in Scan /\ v.account = a /\ v.from = Born /\ v.read = read
        /\ v.spent = w.spent \ seen
    <3> HIDE DEF read, seen
    <3> QED
      BY <1>1, <2>4 DEF Scan
  <2>6. O!Sync(w, c1, until) = [w |-> v, end |-> "ok"]
    <3>1. O!Extended(w, c1, until) = [w EXCEPT !.read = read]
      BY DEF O!Extended
    <3>2. [w EXCEPT !.read = read].read = read /\ [w EXCEPT !.read = read].spent = w.spent
      <4> HIDE DEF read
      <4> QED
        BY DEF Scan
    <3>3. O!Pruned([w EXCEPT !.read = read]) = v
      <4> HIDE DEF read
      <4> QED
        BY <3>2 DEF O!Pruned, O!Seen
    <3>4. ~(until > Len(s1[c1])) /\ ~(until < O!ScannedTo(w))
      BY <1>1, <2>1
    <3> HIDE DEF read, v
    <3> QED
      BY <2>1, <2>2, <3>1, <3>3, <3>4 DEF O!Sync
  <2>7. v # O!Absent
    <3> HIDE DEF v
    <3> QED
      BY <2>5, NotesConstants, ScanBegins
  <2>8. Follows(v)
    <3>1. Born + Len(read) - 1 = until /\ Len(read) > 0
      <4> HIDE DEF read, more
      <4>1. PICK k \in Nat : k = Len(w.read) /\ k > 0 /\ Born + k <= until
        BY <1>3, <2>1
      <4>2. Len(read) = k + (until - (Born + k) + 1) /\ Born \in Nat
        BY <2>3, <2>4, <4>1, NotesConstants
      <4> QED
        BY <4>1, <4>2
    <3>2. \A i \in 1 .. Len(read) : read[i] = s1[c1][Born + i - 1]
      <4> HIDE DEF read, more
      <4>1. ASSUME NEW i \in 1 .. Len(read), i > Len(w.read)
            PROVE  read[i] = s1[c1][Born + i - 1]
        <5>1. PICK k \in Nat, l \in Nat : k = Len(w.read) /\ l = Len(more)
          <6>1. PICK rest \in Seq(O!Block) : rest = more
            BY <2>3
          <6> QED
            BY <1>3, <6>1
        <5>2. Len(read) = k + l /\ i \in 1 .. k + l /\ i > k
          BY <2>4, <4>1, <5>1
        <5>3. PICK g \in 1 .. l : i = k + g
          <6>1. i - k \in 1 .. l /\ i = k + (i - k)
            BY <5>2
          <6> QED
            BY <6>1
        <5>4. read[i] = more[g]
          <6>1. i \in k + 1 .. k + l /\ i - k = g
            BY <5>3
          <6> QED
            BY <2>4, <5>1, <5>2, <6>1
        <5>5. Born + k + g - 1 = Born + i - 1
          BY <1>3, <5>3
        <5> QED
          BY <2>3, <5>1, <5>3, <5>4, <5>5
      <4>2. ASSUME NEW i \in 1 .. Len(read), ~(i > Len(w.read))
            PROVE  read[i] = s1[c1][Born + i - 1]
        BY <1>1, <2>4, <4>2
      <4> QED
        BY <4>1, <4>2
    <3> HIDE DEF v, read
    <3> QED
      BY <1>1, <2>5, <3>1, <3>2 DEF Follows
  <2>9. Covers(v)
    <3>1. O!Seen(v) = seen
      BY <2>5 DEF O!Seen
    <3>2. O!Seen(w) \subseteq O!Seen(v)
      <4>1. DOMAIN w.read \subseteq DOMAIN read /\ \A i \in DOMAIN w.read : read[i] = w.read[i]
        <5> HIDE DEF read, more
        <5>1. Len(more) \in Nat /\ Len(w.read) \in Nat
          <6>1. PICK rest \in Seq(O!Block) : rest = more
            BY <2>3
          <6> QED
            BY <1>3, <6>1
        <5>2. DOMAIN w.read = 1 .. Len(w.read)
          BY <1>1
        <5>3. DOMAIN read = 1 .. Len(read)
          BY <2>4
        <5>4. 1 .. Len(w.read) \subseteq 1 .. Len(read)
          BY <2>4, <5>1
        <5> QED
          BY <2>4, <5>2, <5>3, <5>4
      <4> HIDE DEF v, read
      <4> QED
        BY <2>5, <4>1, SeenGrows
    <3> HIDE DEF v, seen
    <3> QED
      BY <2>5, <3>1, <3>2 DEF Covers
  <2> HIDE DEF v
  <2> QED
    BY <2>5, <2>6, <2>7, <2>8, <2>9
<1> QED
  BY <1>4, <1>5

LEMMA ScanWalked == ASSUME NotesInv, O!Walk PROVE NotesInv'
<1>1. /\ s1' = s1 /\ s2' = s2 /\ s3' = s3 /\ s4' = s4 /\ s5' = s5 /\ s6' = s6 /\ s7' = s7
      /\ s8' = s8 /\ s10' = s10 /\ s11' = s11 /\ O!Running
  BY DEF O!Walk
<1>2. /\ s9 \in [chain : {c1}, watching : Scan, to : Nat, end : Ends] /\ s9.chain = c1
      /\ s9.watching \in Scan /\ s9.to \in Nat
  BY DEF NotesInv, NotesTyped
<1>3. /\ s9.watching # O!Absent /\ Follows(s9.watching) /\ Covers(s9.watching)
      /\ s9.to <= Len(s1[c1]) /\ s10 = NoNote
  BY <1>1 DEF NotesInv, ScanFits
<1>4. PICK w \in Scan, end \in Ends :
         /\ w # O!Absent /\ Follows(w) /\ Covers(w)
         /\ s9' = [chain |-> c1, watching |-> w, to |-> s9.to, end |-> end]
  <2>1. ASSUME NEW w \in Scan, NEW end \in Ends,
               s9' = [[s9 EXCEPT !.watching = w] EXCEPT !.end = end]
        PROVE  s9' = [chain |-> c1, watching |-> w, to |-> s9.to, end |-> end]
    BY <1>2, <2>1
  <2>2. ASSUME NEW end \in Ends, s9' = [s9 EXCEPT !.end = end]
        PROVE  s9' = [chain |-> c1, watching |-> s9.watching, to |-> s9.to, end |-> end]
    BY <1>2, <2>2
  <2>3. "failed" \in Ends /\ "done" \in Ends /\ "walking" \in Ends
    BY DEF Ends
  <2>4. CASE s9' = [s9 EXCEPT !.end = "failed"]
    BY <1>2, <1>3, <2>2, <2>3, <2>4
  <2>5. CASE s9' = [s9 EXCEPT !.end = "done"]
    BY <1>2, <1>3, <2>2, <2>3, <2>5
  <2> DEFINE start == O!ResumesAt(s9.watching)
             until == IF start + Stride - 1 < s9.to THEN start + Stride - 1 ELSE s9.to
             did == O!Sync(s9.watching, c1, until)
  <2>6. CASE /\ start <= s9.to
             /\ s9' = [s9 EXCEPT !.watching = did.w,
                                 !.end = CASE did.end = "ok" /\ until < s9.to -> "walking"
                                           [] did.end = "ok" -> "done"
                                           [] OTHER -> did.end]
    <3>1. start \in Nat
      <4>1. s9.watching.from \in Nat /\ Len(s9.watching.read) \in Nat /\ s9.watching.from = Born
        BY <1>2, <1>3 DEF Scan, Follows
      <4> QED
        BY <4>1, NotesConstants DEF O!ResumesAt, O!ScannedTo
    <3>2. until \in Nat /\ start <= until /\ until <= Len(s1[c1])
      <4>1. Len(s1[c1]) \in Nat
        BY DEF NotesInv, NotesTyped
      <4> HIDE DEF start
      <4> QED
        BY <1>2, <1>3, <2>6, <3>1, <4>1, NotesConstants
    <3>3. /\ did.end = "ok" /\ did.w \in Scan /\ did.w # O!Absent
          /\ Follows(did.w) /\ Covers(did.w)
      <4> HIDE DEF until
      <4> QED
        BY <1>2, <1>3, <3>2, StrideRead DEF NotesInv
    <3>4. PICK end \in Ends : s9' = [s9 EXCEPT !.watching = did.w, !.end = end]
      <4> HIDE DEF until, did, start
      <4> QED
        BY <2>3, <2>6, <3>3
    <3> HIDE DEF did
    <3>5. s9' = [chain |-> c1, watching |-> did.w, to |-> s9.to, end |-> end]
      BY <1>2, <3>4
    <3> QED
      BY <3>3, <3>5
  <2> QED
    BY <1>2, <2>4, <2>5, <2>6 DEF O!Walk
<1>5. s9'.watching = w /\ s9'.to = s9.to
  BY <1>4
<1>6. NotesTyped'
  <2>1. s9' \in [chain : {c1}, watching : Scan, to : Nat, end : Ends]
    BY <1>2, <1>4
  <2> QED
    BY <1>1, <2>1 DEF NotesInv, NotesTyped
<1>7. HeldFits' /\ KeptFits'
  BY <1>1, HeldRests, KeptRests DEF NotesInv
<1>8. ScanFits'
  <2>1. Follows(s9.watching)' /\ Covers(s9.watching)'
    BY <1>1, <1>4, <1>5 DEF Follows, Covers
  <2> QED
    BY <1>1, <1>3, <1>4, <1>5, <2>1 DEF ScanFits
<1>9. PayingFits'
  BY <1>1 DEF NotesInv, PayingFits
<1> QED
  BY <1>6, <1>7, <1>8, <1>9 DEF NotesInv

\* What is written down, if anything is: it covers what was sent.
LEMMA ScanKept ==
    ASSUME NotesTyped, KeptFits, NEW w \in Scan, w # O!Absent, Follows(w), Covers(w),
           NEW kept, kept = O!Keeping(w)
    PROVE  /\ kept \in [{c1} -> Scan] /\ Follows(kept[c1])
           /\ s11 # {} => kept[c1] # O!Absent /\ Covers(kept[c1])
<1>1. s8 \in [{c1} -> Scan] /\ s3 = c1
  BY DEF NotesTyped
<1>2. CASE s4 /\ O!Scanned(w)
  <2>1. kept = [s8 EXCEPT ![c1] = w]
    BY <1>1, <1>2 DEF O!Keeping
  <2>2. kept \in [{c1} -> Scan] /\ kept[c1] = w
    BY <1>1, <2>1
  <2> QED
    BY <2>2
<1>3. CASE ~(s4 /\ O!Scanned(w))
  <2>1. kept = s8
    BY <1>3 DEF O!Keeping
  <2> QED
    BY <1>1, <2>1 DEF KeptFits
<1> QED
  BY <1>2, <1>3

\* The scan that comes back has the marks: nothing was sent while it ran.
LEMMA ScanFinished == ASSUME NotesInv, O!FinishScan PROVE NotesInv'
<1>1. PICK w \in Scan : /\ w = s9.watching /\ w # O!Absent /\ Follows(w) /\ Covers(w)
                        /\ w.account = a
  <2>1. s9.watching \in Scan /\ O!Running
    BY DEF NotesInv, NotesTyped, O!FinishScan
  <2> QED
    BY <2>1 DEF NotesInv, ScanFits, Follows
<1>2. /\ s1' = s1 /\ s2' = s2 /\ s3' = s3 /\ s4' = s4 /\ s5' = s5 /\ s6' = s6 /\ s9' = O!NoJob
      /\ s10' = s10 /\ s11' = s11 /\ s3 = c1 /\ s10 = NoNote
  BY DEF O!FinishScan, NotesInv, NotesTyped, ScanFits
<1>3. s9.end # "restart"
  BY DEF NotesInv, NotesTyped, Ends
<1>4. s8' = O!Keeping(w) /\ s7' \in {O!Absent, w} /\ (s7' = w => s4)
  BY <1>1, <1>3 DEF O!FinishScan, O!Synced, NotesInv, NotesTyped
<1>5. /\ s8' \in [{c1} -> Scan] /\ Follows(s8'[c1])
      /\ s11 # {} => s8'[c1] # O!Absent /\ Covers(s8'[c1])
  BY <1>1, <1>4, ScanKept DEF NotesInv
<1>6. NotesTyped'
  BY <1>1, <1>2, <1>4, <1>5, NoJobIs, ScanBegins DEF NotesInv, NotesTyped
<1>7. KeptFits'
  BY <1>2, <1>5 DEF KeptFits, Follows, Covers
<1>8. HeldFits'
  <2>1. CASE s7' = O!Absent
    BY <2>1 DEF HeldFits, Follows
  <2>2. CASE s7' = w
    BY <1>1, <1>2, <1>4, <2>2 DEF HeldFits, Follows, Covers
  <2> QED
    BY <1>4, <2>1, <2>2
<1>9. ScanFits' /\ PayingFits'
  BY <1>2, NoJobIs DEF ScanFits, PayingFits, O!Running, Follows
<1> QED
  BY <1>6, <1>7, <1>8, <1>9 DEF NotesInv

LEMMA PaymentBegun == ASSUME NotesInv, NEW note \in Notes, O!Pay(note) PROVE NotesInv'
<1>1. /\ s1' = s1 /\ s2' = s2 /\ s3' = s3 /\ s4' = s4 /\ s5' = s5 /\ s6' = s6 /\ s7' = s7
      /\ s8' = s8 /\ s9' = s9 /\ s10' = note /\ s11' = s11 /\ note \in O!Unspent(s7)
      /\ O!Running = FALSE
  BY DEF O!Pay
<1>2. NotesTyped'
  BY <1>1 DEF NotesInv, NotesTyped
<1>3. HeldFits' /\ KeptFits'
  BY <1>1, HeldRests, KeptRests DEF NotesInv
<1>4. ScanFits'
  BY <1>1 DEF NotesInv, ScanFits, Follows, O!Running
<1>5. PayingFits'
  BY <1>1 DEF PayingFits, O!Unspent, O!Brought, O!Seen
<1> QED
  BY <1>2, <1>3, <1>4, <1>5 DEF NotesInv

\* A note the network takes is marked where it was chosen, and that is kept.
LEMMA PaymentTaken == ASSUME NotesInv, O!FinishBroadcast PROVE NotesInv'
<1>1. /\ s1' = s1 /\ s2' = s2 /\ s3' = s3 /\ s4' = s4 /\ s5' = s5 /\ s6' = s6 /\ s9' = s9
      /\ s10' = NoNote /\ s11' = s11 \cup {s10} /\ s10 # NoNote
  BY DEF O!FinishBroadcast
<1>2. s10 \in Notes /\ s10 \in O!Unspent(s7) /\ s3 = c1 /\ s7 \in Scan /\ s8 \in [{c1} -> Scan]
  BY <1>1 DEF NotesInv, NotesTyped, PayingFits
<1>3. s7 # O!Absent /\ s4 /\ Covers(s7) /\ Follows(s7)
  BY <1>2, ScanBegins DEF NotesInv, HeldFits
<1>4. s10 \notin s11
  BY <1>2, <1>3 DEF Covers, O!Unspent
<1>5. O!Scanned(s7)
  BY <1>2 DEF O!Unspent, O!Brought, O!Scanned
<1>6. PICK w : w = O!Marked(s7, s10)
  OBVIOUS
<1>7. /\ w \in Scan /\ w.account = s7.account /\ w.from = s7.from /\ w.read = s7.read
      /\ w.spent = s7.spent \cup {s10}
  BY <1>2, <1>6 DEF O!Marked, Scan
<1>8. s7' = w /\ s8' = O!Keeping(w)
  <2>1. s7' = O!Marked(s7, s10) /\ s8' = O!Keeping(s7')
    BY <1>3, <1>4 DEF O!FinishBroadcast
  <2> QED
    BY <1>6, <2>1
<1>9. s8' = [s8 EXCEPT ![c1] = w]
  BY <1>2, <1>3, <1>5, <1>7, <1>8 DEF O!Keeping, O!Scanned
<1>10. s8' \in [{c1} -> Scan] /\ s8'[c1] = w
  BY <1>2, <1>7, <1>9
<1>11. s7.account = a /\ w # O!Absent
  BY <1>3, <1>7, NotesConstants, ScanBegins DEF Follows
<1>12. Follows(w)
  BY <1>3, <1>7, <1>11 DEF Follows
<1>13. s11' \subseteq O!Seen(w) \cup w.spent
  <2>1. O!Seen(w) = O!Seen(s7)
    BY <1>7 DEF O!Seen
  <2> QED
    BY <1>1, <1>3, <1>7, <2>1 DEF Covers
<1>14. NotesTyped'
  BY <1>1, <1>2, <1>7, <1>8, <1>10 DEF NotesInv, NotesTyped
<1>15. HeldFits' /\ KeptFits'
  BY <1>1, <1>3, <1>8, <1>10, <1>11, <1>12, <1>13 DEF HeldFits, KeptFits, Follows, Covers
<1>16. ScanFits' /\ PayingFits'
  <2>1. O!Running = FALSE
    BY <1>1 DEF NotesInv, ScanFits
  <2> QED
    BY <1>1, <2>1 DEF NotesInv, ScanFits, PayingFits, O!Running, Follows
<1> QED
  BY <1>14, <1>15, <1>16 DEF NotesInv

\* What is kept is taken up when the wallet is opened.
LEMMA WalletUnlocked == ASSUME NotesInv, O!Unlock PROVE NotesInv'
<1>1. /\ s1' = s1 /\ s2' = s2 /\ s3' = s3 /\ s4' = TRUE /\ s5' = s5 /\ s6' = s6 /\ s8' = s8
      /\ s9' = s9 /\ s10' = s10 /\ s11' = s11 /\ s4 = FALSE
      /\ s7' = O!Synced(s7, TRUE, s5, s8[s3])
  BY DEF O!Unlock
<1>2. s5 = a /\ s3 = c1 /\ s8[c1] \in Scan
  BY DEF NotesInv, NotesTyped
<1>3. s7 = O!Absent
  BY <1>1 DEF NotesInv, HeldFits
<1>4. s7' = IF s8[c1].account = a THEN s8[c1] ELSE O!Watching(a)
  BY <1>1, <1>2, <1>3, NotesConstants, ScanBegins DEF O!Synced
<1>5. Follows(s8[c1]) /\ (s11 # {} => s8[c1] # O!Absent /\ Covers(s8[c1]))
  BY DEF NotesInv, KeptFits
<1>6. PICK w \in Scan : w = s7' /\ Follows(w) /\ Covers(w)
  <2>1. CASE s8[c1].account = a
    <3>1. s11 = {} => Covers(s8[c1])
      BY DEF Covers
    <3> QED
      BY <1>2, <1>4, <1>5, <2>1, <3>1
  <2>2. CASE s8[c1].account # a
    <3>1. s8[c1] = O!Absent
      BY <1>5, <2>2 DEF Follows
    <3>2. Covers(O!Watching(a))
      BY <1>5, <3>1 DEF Covers
    <3> QED
      BY <1>4, <2>2, <3>2, ScanBegins, FollowsFromStart
  <2> QED
    BY <2>1, <2>2
<1>7. s4' \in BOOLEAN
  BY <1>1
<1>8. NotesTyped'
  BY <1>1, <1>6, <1>7 DEF NotesInv, NotesTyped
<1>9. HeldFits'
  <2>1. s4'
    BY <1>1
  <2> QED
    BY <1>1, <1>6, <2>1 DEF HeldFits, Follows, Covers
<1>10. KeptFits' /\ ScanFits'
  BY <1>1, KeptRests, JobRests DEF NotesInv
<1>11. PayingFits'
  <2>1. s10 = NoNote
    BY <1>3, ScanBegins DEF NotesInv, PayingFits
  <2> QED
    BY <1>1, <2>1 DEF PayingFits
<1> QED
  BY <1>8, <1>9, <1>10, <1>11 DEF NotesInv

LEMMA WalletLocked == ASSUME NotesInv, O!Lock PROVE NotesInv'
<1>1. /\ s1' = s1 /\ s2' = s2 /\ s3' = s3 /\ s4' = FALSE /\ s5' = s5 /\ s6' = s6 /\ s8' = s8
      /\ s9' = s9 /\ s10' = s10 /\ s11' = s11 /\ s7' = O!Absent /\ s10 = NoNote
  BY DEF O!Lock, O!MayLeave
<1>2. s4' \in BOOLEAN
  BY <1>1
<1>3. NotesTyped'
  BY <1>1, <1>2, ScanBegins DEF NotesInv, NotesTyped
<1>4. HeldFits' /\ PayingFits'
  BY <1>1 DEF HeldFits, PayingFits, Follows
<1>5. KeptFits' /\ ScanFits'
  BY <1>1, KeptRests, JobRests DEF NotesInv
<1> QED
  BY <1>3, <1>4, <1>5 DEF NotesInv

LEMMA NotesRest == ASSUME NotesInv, UNCHANGED O!vars PROVE NotesInv'
<1>1. /\ s1' = s1 /\ s2' = s2 /\ s3' = s3 /\ s4' = s4 /\ s5' = s5 /\ s6' = s6 /\ s7' = s7
      /\ s8' = s8 /\ s9' = s9 /\ s10' = s10 /\ s11' = s11
  BY DEF O!vars
<1>2. NotesTyped'
  BY <1>1 DEF NotesInv, NotesTyped
<1>3. HeldFits' /\ KeptFits' /\ ScanFits'
  BY <1>1, HeldRests, KeptRests, JobRests DEF NotesInv
<1>4. PayingFits'
  BY <1>1 DEF NotesInv, PayingFits, O!Unspent, O!Brought, O!Seen
<1> QED
  BY <1>2, <1>3, <1>4 DEF NotesInv

\* One chain that is not reorganised, one account, a light server that stays.
LEMMA NoOtherNotes ==
    ASSUME NotesInv
    PROVE  /\ \A c \in {c1} : ~O!Reorganise(c) /\ ~O!SwitchNetwork(c)
           /\ \A account \in {a} : ~O!SetActiveKey(account)
           /\ ~O!RemoveLightServer /\ ~O!SetLightServer
<1>1. s2 = 0 /\ s3 = c1 /\ s5 = a /\ s6[c1]
  BY DEF NotesInv, NotesTyped
<1> QED
  BY <1>1 DEF O!Reorganise, O!SwitchNetwork, O!SetActiveKey, O!RemoveLightServer, O!SetLightServer

LEMMA NotesStep == NotesInv /\ [O!Next]_(O!vars) => NotesInv'
<1> SUFFICES ASSUME NotesInv, [O!Next]_(O!vars) PROVE NotesInv'
  OBVIOUS
<1> QED
  BY NoOtherNotes, BlockMined, ScanStarted, ScanWalked, ScanFinished, PaymentBegun, PaymentTaken,
     WalletUnlocked, WalletLocked, NotesRest DEF O!Next

LEMMA NotesSound == NotesInv => O!OfferedOnce
<1> SUFFICES ASSUME NotesInv PROVE O!OfferedOnce
  OBVIOUS
<1>1. CASE s7 = O!Absent
  BY <1>1, ScanBegins DEF O!OfferedOnce
<1>2. CASE s7 # O!Absent
  BY <1>2 DEF NotesInv, HeldFits, Covers, O!OfferedOnce, O!Unspent
<1> QED
  BY <1>1, <1>2

\* Whatever fails, is refused or dies in between, and however often the user asks
\* again: nothing that was confirmed is handed over twice, no revocation leaves
\* without its word, a conversion nobody answered for is undecided in its file, and
\* a note the network took is not offered again (confirm_identity_change,
\* confirm_conversion, finish_convert_broadcast, finish_broadcast, Shielded).
THEOREM NothingIsSentTwice == Spec => []SentOnce
<1> DEFINE Inv == (part = "review" => ReviewsInv) /\ (part = "notes" => NotesInv)
<1>1. Init => Inv
  BY PartInit, ReviewsInit, NotesInit
<1>2. Inv /\ [Next]_vars => Inv'
  BY PartStep, ReviewsStep, NotesStep
<1>3. Inv => SentOnce
  BY ReviewsSound, NotesSound DEF SentOnce
<1> QED
  BY <1>1, <1>2, <1>3, PTL DEF Spec
====
